-------------------------- MODULE NagStore_proofs --------------------------
(***************************************************************************)
(* The recorder implements the path store, for every number of paths,      *)
(* layout, page length and heading, as long as no GNSS fix is cached: what *)
(* a save leaves in the flash is what was recorded, and a replay starts    *)
(* with what was saved, in whatever way the interrupt, the main loop and   *)
(* power losses interleave.                                                *)
(***************************************************************************)
EXTENDS NagInv_proofs

USE DEF flashVars, N, requests, main, ghosts, At, Goto, NoLocals, Locals, BlankBuffer

MetaSteps == {"metaErase", "metaWrite"}

\* The recording under way, if the mode still says so, will not be saved:
\* another page of the menu has been opened.
Abandoned ==
  \/ pc \in {"clearErase", "init", "initRest"}
  \/ pc \in MetaSteps /\ local.then = "init"

Recorded == Nag_SystemRun_Index = "RECORD" /\ ~Abandoned /\ ~At("finalize")

\* Point i of path p in the flash, and the points on the pages above the
\* current one.
Word(p, i) == flash[StartPage[p] - ((i - 1) \div PointsPerPage)][(i - 1) % PointsPerPage]

Above == (StartPage[Nag_PathSelect] - Flash_page_index) * PointsPerPage

\* The first n points of the current page are in the buffer, in the flash.
Buffered(n) == \A s \in 0..(n - 1) : buffer[s] = trail[Above + s + 1]
OnPage(n) == \A s \in 0..(n - 1) : flash[Flash_page_index][s] = trail[Above + s + 1]

(***************************************************************************)
(* Where the trail is: its full pages above the current one, the rest in   *)
(* the buffer until the current page has been programmed.                  *)
(***************************************************************************)
TrailInv ==
  Recorded =>
    /\ Len(trail) = Save_index
    /\ \A i \in 1..Above : Word(Nag_PathSelect, i) = trail[i]
    /\ pc \notin MetaSteps \cup {"finish"} => Buffered(size)
    /\ At("pageWrite") => OnPage(Min2(size, local.pos))
    /\ pc \in MetaSteps \cup {"pageDone", "finish"} => OnPage(size)

(***************************************************************************)
(* How far the rewrite of the index page is.  It ends a recording or a     *)
(* clear; the words before local.pos are programmed.                       *)
(***************************************************************************)
RewriteInv ==
  pc \in MetaSteps =>
    /\ local.path \in dirty
    /\ \A q \in Paths : local.new[q] <= Capacity(q)
    /\ \/ local.then = "init" /\ local.new[local.path] = 0
       \/ /\ local.then = "finish" /\ local.path = Nag_PathSelect
          /\ local.new[local.path] = Save_index

ErasedInv ==
  At("metaErase") =>
    /\ local.pos = 1
    /\ \A q \in Paths \ {local.path} : local.new[q] = MetaValues(meta)[q]

WrittenInv ==
  At("metaWrite") =>
    /\ local.pos \in 1..(NumPaths + 2)
    /\ meta = [idx |-> [q \in Paths |-> IF q < local.pos THEN local.new[q] ELSE Blank],
               magic |-> local.pos > NumPaths + 1, sum |-> Blank]

PlaceInv ==
  /\ ~(pc \in {"gnssErase", "gnssWrite"})
  /\ At("initRest") => trail = <<>>
  /\ At("pageWrite") => Nag_PathSelect \in dirty

StoreInv == TrailInv /\ RewriteInv /\ ErasedInv /\ WrittenInv /\ PlaceInv

-----------------------------------------------------------------------------
(***************************************************************************)
(* Where a point is.                                                       *)
(***************************************************************************)
LEMMA SlotOf ==
  ASSUME NEW a \in Nat, NEW b \in Nat \ {0}, NEW s \in 0..(b - 1)
  PROVE  (a * b + s) \div b = a /\ (a * b + s) % b = s
  OBVIOUS

LEMMA PageOf ==
  ASSUME NEW a \in Nat, NEW b \in Nat \ {0}, NEW k \in Nat, a < k * b
  PROVE  /\ a \div b \in 0..(k - 1) /\ a % b \in 0..(b - 1)
         /\ a = (a \div b) * b + (a % b)
  OBVIOUS

\* A point within the capacity of a path is on one of its pages.
LEMMA WordsPage ==
  ASSUME NEW p \in Paths, NEW i \in 1..Capacity(p)
  PROVE  /\ StartPage[p] - ((i - 1) \div PointsPerPage) \in PathPages(p)
         /\ (i - 1) % PointsPerPage \in Slots
<1> DEFINE k == StartPage[p] - EndPage[p] + 1
<1>1. /\ k \in Nat /\ PointsPerPage \in Nat \ {0}
      /\ StartPage[p] \in Nat /\ EndPage[p] \in Nat
  BY LayoutAssumption DEF Paths
<1>2. i - 1 \in Nat /\ k * PointsPerPage \in Nat /\ i - 1 < k * PointsPerPage
  BY <1>1, CapacityType
<1>3. k = StartPage[p] - EndPage[p] + 1
  OBVIOUS
<1> HIDE DEF k
<1>4. /\ (i - 1) \div PointsPerPage \in 0..(k - 1)
      /\ (i - 1) % PointsPerPage \in 0..(PointsPerPage - 1)
  BY <1>1, <1>2, PageOf
<1> QED
  BY <1>1, <1>3, <1>4 DEF PathPages, Slots

\* A point of a full page is above the current page, the next ones are on it.
LEMMA AbovePage ==
  ASSUME NEW k \in Nat, NEW i \in 1..(k * PointsPerPage)
  PROVE  /\ (i - 1) \div PointsPerPage \in 0..(k - 1)
         /\ (i - 1) % PointsPerPage \in Slots
<1>1. PointsPerPage \in Nat \ {0}
  BY LayoutAssumption
<1>2. i - 1 \in Nat /\ k * PointsPerPage \in Nat /\ i - 1 < k * PointsPerPage
  BY <1>1
<1> QED
  BY <1>1, <1>2, PageOf DEF Slots

LEMMA CurrentPage ==
  ASSUME NEW k \in Nat, NEW s \in Slots
  PROVE  /\ (k * PointsPerPage + s + 1 - 1) \div PointsPerPage = k
         /\ (k * PointsPerPage + s + 1 - 1) % PointsPerPage = s
<1>1. PointsPerPage \in Nat \ {0} /\ s \in 0..(PointsPerPage - 1)
  BY LayoutAssumption DEF Slots
<1>2. k * PointsPerPage \in Nat
  BY <1>1
<1>3. k * PointsPerPage + s + 1 - 1 = k * PointsPerPage + s
  BY <1>1, <1>2
<1> QED
  BY <1>1, <1>3, SlotOf

\* Where the recorder is, in whole pages.
LEMMA Position ==
  ASSUME NagInv, Recorded
  PROVE  /\ StartPage[Nag_PathSelect] - Flash_page_index \in Nat
         /\ Flash_page_index \in PathPages(Nag_PathSelect)
         /\ Flash_page_index \in DataPages
         /\ Above \in Nat /\ Save_index = Above + size
         /\ size \in 0..PointsPerPage
<1>1. /\ Flash_page_index \in PathPages(Nag_PathSelect)
      /\ Save_index = Above + size
  BY DEF NagInv, RecordPosition, Recorded, Abandoned, Above
<1>2. StartPage[Nag_PathSelect] - Flash_page_index \in Nat
  BY <1>1, Typed DEF PathPages
<1>3. Above \in Nat
  BY <1>2, Typed DEF Above
<1> QED
  BY <1>1, <1>2, <1>3, Typed, PathPagesAreData DEF NagInv, RecorderInBounds

-----------------------------------------------------------------------------
(***************************************************************************)
(* The place of the trail is kept.                                         *)
(***************************************************************************)

\* Steps that leave the recorder, the buffer and the flash alone.
LEMMA TrailKept ==
  ASSUME TrailInv, Recorded' => Recorded,
         UNCHANGED <<flash, buffer, trail, size, Save_index, Nag_PathSelect,
                     Flash_page_index>>,
         ~(pc \in MetaSteps \cup {"finish"}),
         ~(pc' \in MetaSteps \cup {"finish", "pageWrite", "pageDone"})
  PROVE  TrailInv'
  BY DEF TrailInv, Above, Word, Buffered

LEMMA SampleTrail ==
  ASSUME NagInv, StoreInv, NEW d \in TickSteps, NEW yaw \in Yaws,
         Run_Nag_Save(d, yaw)
  PROVE  TrailInv'
<1>1. /\ UNCHANGED <<pc, local, flash, Nag_PathSelect, Flash_page_index,
                     Nag_SystemRun_Index>>
      /\ Recorded' => Recorded
  BY DEF Run_Nag_Save, Recorded, Abandoned
<1>2. SUFFICES ASSUME Recorded PROVE TrailInv'
  BY <1>1 DEF TrailInv
<1>3. TrailInv /\ Above' = Above
  BY <1>1 DEF Above, StoreInv
<1>4. CASE UNCHANGED <<size, Save_index, buffer, trail>>
  BY <1>1, <1>3, <1>4 DEF TrailInv, Word, Buffered, OnPage, Recorded, Abandoned
<1>5. CASE /\ write = "NONE" /\ size < PointsPerPage
           /\ size' = size + 1 /\ Save_index' = Save_index + 1
           /\ buffer' = [buffer EXCEPT ![size] = yaw] /\ trail' = Append(trail, yaw)
  <2>1. ~(pc \in {"pageWrite", "pageDone", "finish"})
    BY <1>5 DEF NagInv, RequestInv
  <2>2. ~(pc \in MetaSteps)
    BY <1>2, <1>5 DEF NagInv, RequestInv, Recorded, Abandoned, MetaSteps, StoreInv,
       RewriteInv
  <2>3. trail \in Seq(Yaws) /\ buffer \in BufferType
    BY DEF NagInv, TypeOK, FlashTypeOK, ObservationTypeOK
  <2>4. Len(trail) = Above + size /\ Above \in Nat /\ size \in Nat
    BY <1>2, <1>3, Position DEF TrailInv
  <2>5. /\ Len(trail') = Save_index'
        /\ trail'[Above + size + 1] = yaw
        /\ \A j \in 1..(Above + size) : trail'[j] = trail[j]
    BY <1>2, <1>3, <1>5, <2>3, <2>4 DEF TrailInv
  <2>6. \A i \in 1..Above : Word(Nag_PathSelect, i)' = trail'[i]
    BY <1>1, <1>2, <1>3, <2>4, <2>5 DEF TrailInv, Word
  <2>7. Buffered(size)'
    <3>1. SUFFICES ASSUME NEW s \in 0..size PROVE buffer'[s] = trail'[Above + s + 1]
      BY <1>3, <1>5, <2>4 DEF Buffered
    <3>2. s \in Slots /\ size \in Slots
      BY <1>5, <2>4, <3>1, Typed DEF Slots
    <3>3. CASE s = size
      BY <1>5, <2>3, <2>5, <3>2, <3>3 DEF BufferType
    <3>4. CASE s # size
      <4>1. s \in 0..(size - 1) /\ Above + s + 1 \in 1..(Above + size)
        BY <2>4, <3>4
      <4>2. buffer'[s] = buffer[s]
        BY <1>5, <2>3, <3>2, <3>4 DEF BufferType
      <4>3. buffer[s] = trail[Above + s + 1]
        BY <1>2, <1>3, <2>1, <2>2, <4>1 DEF TrailInv, Buffered
      <4> QED
        BY <2>5, <4>1, <4>2, <4>3
    <3> QED
      BY <3>3, <3>4
  <2> QED
    BY <1>1, <1>3, <2>1, <2>2, <2>5, <2>6, <2>7 DEF TrailInv, MetaSteps
<1>6. size \in Nat /\ Save_index \in Nat
  BY Typed
<1> QED
  BY <1>4, <1>5, <1>6 DEF Run_Nag_Save, SampleDue

\* A point above the current page.
LEMMA AboveWord ==
  ASSUME NagInv, Recorded, NEW i \in 1..Above
  PROVE  /\ StartPage[Nag_PathSelect] - ((i - 1) \div PointsPerPage) \in DataPages
         /\ StartPage[Nag_PathSelect] - ((i - 1) \div PointsPerPage) # Flash_page_index
         /\ (i - 1) % PointsPerPage \in Slots
<1> DEFINE k == StartPage[Nag_PathSelect] - Flash_page_index
<1>1. k \in Nat /\ i \in 1..(k * PointsPerPage)
  BY Position DEF Above
<1>2. /\ (i - 1) \div PointsPerPage \in 0..(k - 1)
      /\ (i - 1) % PointsPerPage \in Slots
  BY <1>1, AbovePage
<1>3. /\ StartPage[Nag_PathSelect] \in Nat /\ EndPage[Nag_PathSelect] \in Nat
      /\ EndPage[Nag_PathSelect] <= Flash_page_index
  BY Position, Typed DEF PathPages
<1>4. /\ StartPage[Nag_PathSelect] - ((i - 1) \div PointsPerPage) # Flash_page_index
      /\ StartPage[Nag_PathSelect] - ((i - 1) \div PointsPerPage)
           \in PathPages(Nag_PathSelect)
  BY <1>1, <1>2, <1>3, Typed DEF PathPages
<1> QED
  BY <1>2, <1>4, Typed, PathPagesAreData

\* Nag_Service only works on a page for a recording that goes on.
LEMMA ServiceRecords ==
  ASSUME NagInv, pc \in {"pageErase", "pageWrite", "pageDone", "finish"}
  PROVE  Recorded
  BY DEF NagInv, RequestInv, Recorded, Abandoned, MetaSteps

LEMMA EraseTrail ==
  ASSUME NagInv, StoreInv, PageErase
  PROVE  TrailInv'
<1>1. Recorded
  BY ServiceRecords DEF PageErase
<1>2. /\ pc' = "pageWrite" /\ local'.pos = 0
      /\ UNCHANGED <<buffer, trail, size, Save_index, Nag_PathSelect, Flash_page_index>>
      /\ flash' = [flash EXCEPT ![Flash_page_index] = BlankPage]
      /\ pc = "pageErase"
  BY DEF PageErase
<1>3. Above' = Above
  BY <1>2 DEF Above
<1>4. TrailInv /\ flash \in [DataPages -> PageType]
  BY DEF StoreInv, NagInv, TypeOK, FlashTypeOK
<1>5. \A i \in 1..Above : Word(Nag_PathSelect, i)' = trail'[i]
  BY <1>1, <1>2, <1>3, <1>4, AboveWord DEF TrailInv, Word
<1>6. Buffered(size)'
  BY <1>1, <1>2, <1>3, <1>4 DEF TrailInv, Buffered, MetaSteps
<1>7. OnPage(Min2(size, local.pos))'
  BY <1>2, Typed DEF OnPage, Min2
<1> QED
  BY <1>1, <1>2, <1>3, <1>4, <1>5, <1>6, <1>7 DEF TrailInv, MetaSteps

LEMMA WriteTrail ==
  ASSUME NagInv, StoreInv, PageWrite
  PROVE  TrailInv'
<1>1. Recorded
  BY ServiceRecords DEF PageWrite
<1>2. /\ UNCHANGED <<buffer, trail, size, Save_index, Nag_PathSelect, Flash_page_index>>
      /\ flash' = [flash EXCEPT ![Flash_page_index] =
                      [@ EXCEPT ![local.pos] = buffer[local.pos]]]
      /\ pc = "pageWrite"
  BY DEF PageWrite
<1>3. Above' = Above
  BY <1>2 DEF Above
<1>4. /\ TrailInv /\ flash \in [DataPages -> PageType]
      /\ local.pos \in Slots /\ local.pos \in Nat
      /\ Flash_page_index \in DataPages /\ size \in 0..PointsPerPage
  <2>1. local.pos \in Nat /\ local.pos < PointsPerPage
    BY <1>2, LocalFields DEF NagInv, LoopInv, TypeOK, ControlTypeOK
  <2> QED
    BY <1>1, <2>1, Position, Typed
    DEF StoreInv, NagInv, TypeOK, FlashTypeOK, Slots
<1>5. \A i \in 1..Above : Word(Nag_PathSelect, i)' = trail'[i]
  BY <1>1, <1>2, <1>3, <1>4, AboveWord DEF TrailInv, Word
<1>6. Buffered(size) /\ Buffered(size)'
  BY <1>1, <1>2, <1>3, <1>4 DEF TrailInv, Buffered, MetaSteps
<1>7. ASSUME NEW s \in 0..(size - 1), s <= local.pos
      PROVE  flash'[Flash_page_index][s] = trail[Above + s + 1]
  <2>1. s \in Slots
    BY <1>4, Typed DEF Slots
  <2>2. CASE s = local.pos
    BY <1>2, <1>4, <1>6, <2>1, <2>2 DEF Buffered, PageType
  <2>3. CASE s # local.pos
    <3>1. s \in 0..(Min2(size, local.pos) - 1)
      BY <1>4, <1>7, <2>3 DEF Min2
    <3>2. flash[Flash_page_index][s] = trail[Above + s + 1]
      BY <1>1, <1>2, <1>4, <3>1 DEF TrailInv, OnPage
    <3> QED
      BY <1>2, <1>4, <2>1, <2>3, <3>2 DEF PageType
  <2> QED
    BY <2>2, <2>3
<1>8. CASE pc' = "pageWrite" /\ local'.pos = local.pos + 1
  <2>1. OnPage(Min2(size, local.pos))'
    <3>1. SUFFICES ASSUME NEW s \in 0..(Min2(size, local.pos + 1) - 1)
                   PROVE  flash'[Flash_page_index][s] = trail[Above + s + 1]
      BY <1>2, <1>3, <1>8 DEF OnPage, Min2
    <3>2. s \in 0..(size - 1) /\ s <= local.pos
      BY <1>4, <3>1 DEF Min2
    <3> QED
      BY <1>7, <3>2
  <2> QED
    BY <1>1, <1>2, <1>3, <1>4, <1>5, <1>6, <1>8, <2>1 DEF TrailInv, MetaSteps
<1>9. CASE pc' = "pageDone" /\ local.pos + 1 = PointsPerPage
  <2>1. OnPage(size)'
    <3>1. SUFFICES ASSUME NEW s \in 0..(size - 1)
                   PROVE  flash'[Flash_page_index][s] = trail[Above + s + 1]
      BY <1>2, <1>3 DEF OnPage
    <3>2. s <= local.pos
      BY <1>4, <1>9, <3>1
    <3> QED
      BY <1>7, <3>2
  <2> QED
    BY <1>1, <1>2, <1>3, <1>4, <1>5, <1>6, <1>9, <2>1 DEF TrailInv, MetaSteps
<1> QED
  BY <1>4, <1>8, <1>9, Typed DEF PageWrite, Advance, Move, Slots

LEMMA DoneTrail ==
  ASSUME NagInv, StoreInv, PageDone
  PROVE  TrailInv'
<1>1. Recorded
  BY ServiceRecords DEF PageDone
<1>2. /\ UNCHANGED <<flash, trail, size, Save_index, Nag_PathSelect, Flash_page_index>>
      /\ pc = "pageDone" /\ pc' \in {"metaErase", "finish"}
  BY DEF PageDone, MetaBegin
<1> QED
  BY <1>1, <1>2 DEF TrailInv, Above, Word, OnPage, MetaSteps, StoreInv

\* The page that is left was programmed and full.
LEMMA NextTrail ==
  ASSUME NagInv, StoreInv, At("finish"), write = "PAGE", pc' = "read",
         Flash_page_index' = Flash_page_index - 1, size' = 0,
         UNCHANGED <<flash, trail, Save_index, Nag_PathSelect>>
  PROVE  TrailInv'
<1> DEFINE k == StartPage[Nag_PathSelect] - Flash_page_index
<1>1. Recorded /\ TrailInv
  BY ServiceRecords DEF StoreInv
<1>2. /\ k \in Nat /\ Above = k * PointsPerPage /\ Above \in Nat
      /\ size = PointsPerPage
  BY <1>1, Position DEF Above, NagInv, RecordPosition, Recorded, Abandoned
<1>3. StartPage[Nag_PathSelect'] - Flash_page_index' = k + 1
  BY Typed
<1>4. PointsPerPage \in Nat \ {0} /\ Flash_page_index = StartPage[Nag_PathSelect] - k
  BY Typed
<1> HIDE DEF k
<1>5. Above' = Above + PointsPerPage
  <2>1. Above' = (k + 1) * PointsPerPage
    BY <1>3 DEF Above
  <2> QED
    BY <1>2, <1>4, <2>1, DistributeOne
<1>6. ASSUME NEW i \in 1..Above'
      PROVE  Word(Nag_PathSelect, i)' = trail[i]
  <2>1. Word(Nag_PathSelect, i)' = Word(Nag_PathSelect, i)
    BY DEF Word
  <2>2. CASE i \in 1..Above
    BY <1>1, <2>1, <2>2 DEF TrailInv
  <2>3. CASE i > Above
    <3> DEFINE s == i - Above - 1
    <3>1. /\ s \in 0..(size - 1) /\ s \in Slots
          /\ i = k * PointsPerPage + s + 1
      BY <1>2, <1>4, <1>5, <2>3 DEF Slots
    <3> HIDE DEF s
    <3>2. (i - 1) \div PointsPerPage = k /\ (i - 1) % PointsPerPage = s
      BY <1>2, <3>1, CurrentPage
    <3>3. Word(Nag_PathSelect, i) = flash[Flash_page_index][s]
      BY <1>4, <3>2 DEF Word
    <3>4. flash[Flash_page_index][s] = trail[Above + s + 1]
      BY <1>1, <3>1 DEF TrailInv, OnPage
    <3> QED
      BY <1>2, <2>1, <3>1, <3>3, <3>4
  <2> QED
    BY <1>2, <2>2, <2>3
<1>7. Buffered(size)'
  BY DEF Buffered
<1> QED
  BY <1>1, <1>6, <1>7 DEF TrailInv, MetaSteps

LEMMA FinishTrail ==
  ASSUME NagInv, StoreInv, Finish
  PROVE  TrailInv'
<1>1. write \in {"PAGE", "FINAL"}
  BY DEF Finish, NagInv, RequestInv, TypeOK, ControlTypeOK, WriteRequests
<1>2. CASE write = "FINAL"
  BY <1>2 DEF Finish, TrailInv, Recorded
<1>3. CASE write = "PAGE"
  <2>1. ~(Flash_page_index <= EndPage[Nag_PathSelect])
    BY <1>3, LastPageInv, Typed DEF Finish, LastPageIsFinal
  <2> QED
    BY <1>3, <2>1, NextTrail DEF Finish, NextPage
<1> QED
  BY <1>1, <1>2, <1>3

LEMMA MetaTrail ==
  ASSUME NagInv, StoreInv, MetaErase \/ MetaWrite
  PROVE  TrailInv'
<1>1. /\ UNCHANGED <<flash, trail, size, Save_index, Nag_PathSelect, Flash_page_index,
                     Nag_SystemRun_Index>>
      /\ pc \in MetaSteps
  BY DEF MetaErase, MetaWrite, MetaSteps
<1>2. local.then \in {"finish", "init"}
  BY <1>1 DEF StoreInv, RewriteInv
<1>3. \/ pc' \in MetaSteps /\ local'.then = local.then
      \/ pc' = local.then
  BY <1>2 DEF MetaErase, MetaWrite, Advance, Move, MetaSteps
<1>4. Recorded' => Recorded /\ pc' \in MetaSteps \cup {"finish"}
  BY <1>1, <1>2, <1>3 DEF Recorded, Abandoned, MetaSteps
<1> QED
  BY <1>1, <1>4 DEF TrailInv, Above, Word, OnPage, MetaSteps, StoreInv

LEMMA InitTrail ==
  ASSUME NagInv, StoreInv, InitRest
  PROVE  TrailInv'
<1>1. /\ size' = 0 /\ Save_index' = 0 /\ trail' = <<>> /\ pc' = "gnss"
      /\ Nag_PathSelect' = local.path
      /\ Flash_page_index' = StartPage[local.path]
  BY DEF InitRest, get_path_start_page, StoreInv, PlaceInv, NagInv, LoopInv
<1>2. Above' = 0
  <2>1. StartPage[local.path] \in Nat
    BY LocalFields, LayoutAssumption DEF NagInv, TypeOK, ControlTypeOK, Paths
  <2> QED
    BY <1>1, <2>1, Typed DEF Above
<1> QED
  BY <1>1, <1>2 DEF TrailInv, Buffered, MetaSteps

\* Without a fix gnss_cache_save is never entered.
LEMMA NoGnss ==
  ASSUME MaxGnssSaves = 0, NagInv, PlaceInv
  PROVE  ~GnssBegin /\ ~GnssErase /\ ~GnssWrite /\ ~GnssDone
  BY DEF GnssErase, GnssWrite, GnssDone, GnssBegin, PlaceInv, NagInv, TypeOK,
         ObservationTypeOK

LEMMA TrailStep ==
  ASSUME MaxGnssSaves = 0, NagInv, StoreInv, [Next]_vars
  PROVE  TrailInv'
<1> USE DEF StoreInv
<1>1. ASSUME NEW d \in TickSteps, NEW yaw \in Yaws, Run_Nag_Save(d, yaw)
      PROVE  TrailInv'
  BY <1>1, SampleTrail
<1>2. CASE UNCHANGED <<flash, buffer, trail, size, Save_index, Nag_PathSelect,
                       Flash_page_index, Nag_SystemRun_Index, pc, local>>
  BY <1>2 DEF TrailInv, Recorded, Abandoned, Above, Word, Buffered, OnPage, MetaSteps
<1>3. CASE EndRecording \/ RequestRead \/ \E d \in TickSteps : Nag_Run(d)
  <2>1. \/ Nag_SystemRun_Index # "RECORD" /\ UNCHANGED Nag_SystemRun_Index
        \/ UNCHANGED <<flash, buffer, trail, size, Save_index, Nag_PathSelect,
                       Flash_page_index, Nag_SystemRun_Index, pc, local>>
    BY <1>3 DEF EndRecording, RequestRead, Nag_Run, Running
  <2> QED
    BY <1>2, <2>1 DEF TrailInv, Recorded
<1>4. CASE GnssIdle \/ ServiceIdle \/ ReadIdle \/ ReadNothing \/ MenuIdle \/ MenuSave
  <2>1. /\ UNCHANGED <<flash, buffer, trail, size, Save_index, Nag_PathSelect,
                       Flash_page_index, Nag_SystemRun_Index>>
        /\ pc \in {"gnss", "service", "read", "readStep", "menu"}
        /\ pc' \in {"gnss", "service", "read", "readStep", "menu"}
    BY <1>4 DEF GnssIdle, ServiceIdle, ReadIdle, ReadNothing, MenuIdle, MenuSave
  <2> QED
    BY <2>1, TrailKept DEF Recorded, Abandoned, MetaSteps
<1>5. CASE GnssBegin \/ GnssErase \/ GnssWrite \/ GnssDone
  BY <1>5, NoGnss
<1>6. CASE ServiceWrite
  <2>1. /\ UNCHANGED <<flash, buffer, trail, size, Save_index, Nag_PathSelect,
                       Flash_page_index, Nag_SystemRun_Index>>
        /\ pc = "service"
        /\ pc' = IF size > 0 THEN "pageErase" ELSE "pageDone"
    BY <1>6 DEF ServiceWrite
  <2> QED
    BY <2>1, Typed DEF TrailInv, Recorded, Abandoned, Above, Word, Buffered, OnPage,
                       MetaSteps
<1>7. CASE NagFlashRead \/ ReadStep \/ ReadDone \/ Finalize
  <2>1. Nag_SystemRun_Index' # "RECORD"
    BY <1>7 DEF NagFlashRead, ReadStep, ReadDone, Finalize, NagInv, RequestInv, StopReplay
  <2> QED
    BY <2>1 DEF TrailInv, Recorded
<1>8. CASE \/ ClearErase \/ ClearMeta \/ InitFirstHalf
           \/ \E p \in Paths, op \in {"RECORD", "REPLAY", "CLEAR"} : MenuOpen(p, op)
  <2>1. Abandoned'
    BY <1>8 DEF ClearErase, ClearMeta, InitFirstHalf, MenuOpen, MetaBegin, Move,
                Abandoned, MetaSteps
  <2> QED
    BY <2>1 DEF TrailInv, Recorded
<1>9. CASE PowerLoss
  BY <1>9 DEF PowerLoss, TrailInv, Recorded
<1>10. CASE UNCHANGED vars
  BY <1>2, <1>10 DEF vars
<1> QED
  BY <1>1, <1>3, <1>4, <1>5, <1>6, <1>7, <1>8, <1>9, <1>10, EraseTrail, WriteTrail,
     DoneTrail, FinishTrail, MetaTrail, InitTrail DEF Next, Interrupt, MainLoop

-----------------------------------------------------------------------------
(***************************************************************************)
(* The place of the rewrite of the index page is kept.                     *)
(***************************************************************************)

\* An index that fits its path is clamped to itself.
LEMMA Unclamped ==
  ASSUME NEW p \in Paths, NEW i \in 0..Capacity(p)
  PROVE  ClampSaveIndex(p, i) = i /\ i # Blank
<1>1. Blank \notin 0..Capacity(p)
  BY BlankAssumption DEF Paths
<1> QED
  BY <1>1, CapacityType DEF ClampSaveIndex, Min2

LEMMA SavedIndex ==
  ASSUME NagInv
  PROVE  ClampSaveIndex(Nag_PathSelect, Save_index) = Save_index
<1>1. Save_index \in 0..Capacity(Nag_PathSelect)
  BY Typed DEF NagInv, RecorderInBounds
<1> QED
  BY <1>1, Typed, Unclamped

\* What a rewrite begins with.
LEMMA RewriteBegins ==
  ASSUME NagInv, NEW p \in Paths, NEW i \in 0..Capacity(p),
         NEW next \in {"finish", "read", "init"}, MetaBegin(p, i, next)
  PROVE  /\ pc' = "metaErase" /\ p \in dirty' /\ local'.path = p
         /\ local'.then = next /\ local'.new[p] = i /\ local'.pos = 1
         /\ local'.new \in [Paths -> Nat]
         /\ \A q \in Paths : local'.new[q] <= Capacity(q)
         /\ \A q \in Paths \ {p} : local'.new[q] = MetaValues(meta)[q]
<1>1. /\ MetaValues(meta) \in [Paths -> Nat]
      /\ \A q \in Paths : MetaValues(meta)[q] <= Capacity(q)
  BY MetaValuesType DEF NagInv, TypeOK, FlashTypeOK
<1>2. local'.new = [MetaValues(meta) EXCEPT ![p] = i]
  BY DEF MetaBegin
<1>3. i \in Nat /\ i <= Capacity(p)
  BY CapacityType
<1> QED
  BY <1>1, <1>2, <1>3 DEF MetaBegin

\* The rewrite at the end of a recording, and that of a clear.
LEMMA DoneIndex ==
  ASSUME NagInv, StoreInv, PageDone
  PROVE  RewriteInv' /\ ErasedInv' /\ WrittenInv' /\ PlaceInv'
<1>1. CASE pc' = "finish"
  BY <1>1 DEF RewriteInv, ErasedInv, WrittenInv, PlaceInv, MetaSteps
<1>2. CASE MetaBegin(Nag_PathSelect, Save_index, "finish")
  <2>1. Save_index \in 0..Capacity(Nag_PathSelect)
    BY Typed DEF NagInv, RecorderInBounds
  <2>2. UNCHANGED <<meta, Save_index, Nag_PathSelect>>
    BY DEF PageDone
  <2> QED
    BY <1>2, <2>1, <2>2, RewriteBegins, Typed
    DEF RewriteInv, ErasedInv, WrittenInv, PlaceInv
<1> QED
  BY <1>1, <1>2, SavedIndex DEF PageDone

LEMMA ClearIndex ==
  ASSUME NagInv, ClearMeta
  PROVE  RewriteInv' /\ ErasedInv' /\ WrittenInv' /\ PlaceInv'
<1>1. local.path \in Paths /\ 0 \in 0..Capacity(local.path)
  BY LocalFields, CapacityType DEF NagInv, TypeOK, ControlTypeOK
<1>2. MetaBegin(local.path, 0, "init") /\ UNCHANGED meta
  BY DEF ClearMeta
<1> QED
  BY <1>1, <1>2, RewriteBegins DEF RewriteInv, ErasedInv, WrittenInv, PlaceInv

LEMMA MetaIndex ==
  ASSUME NagInv, StoreInv, MetaErase \/ MetaWrite
  PROVE  RewriteInv' /\ ErasedInv' /\ WrittenInv' /\ PlaceInv'
<1>1. NumPaths \in Nat \ {0}
  BY LayoutAssumption
<1>2. CASE MetaErase
  <2>1. /\ pc = "metaErase" /\ pc' = "metaWrite" /\ local' = local /\ meta' = BlankMeta
        /\ UNCHANGED <<dirty, Save_index, Nag_PathSelect>>
    BY <1>2 DEF MetaErase
  <2>2. RewriteInv'
    BY <2>1 DEF StoreInv, RewriteInv, MetaSteps
  <2>3. local.pos = 1
    BY <2>1 DEF StoreInv, ErasedInv
  <2>4. WrittenInv'
    <3>1. [q \in Paths |-> IF q < 1 THEN local.new[q] ELSE Blank] = [q \in Paths |-> Blank]
      BY <1>1 DEF Paths
    <3>2. (1 > NumPaths + 1) = FALSE
      BY <1>1
    <3>3. 1 \in 1..(NumPaths + 2)
      BY <1>1
    <3> QED
      BY <2>1, <2>3, <3>1, <3>2, <3>3 DEF WrittenInv, BlankMeta
  <2> QED
    BY <2>1, <2>2, <2>4 DEF ErasedInv, PlaceInv
<1>3. CASE MetaWrite /\ local.pos < NumPaths + 2
  <2>1. /\ pc = "metaWrite" /\ pc' = "metaWrite"
        /\ local'.path = local.path /\ local'.new = local.new /\ local'.then = local.then
        /\ local'.pos = local.pos + 1
        /\ UNCHANGED <<dirty, Save_index, Nag_PathSelect>>
    BY <1>3 DEF MetaWrite, Advance, Move
  <2>2. RewriteInv'
    BY <2>1 DEF StoreInv, RewriteInv, MetaSteps
  <2>3. /\ local.pos \in 1..(NumPaths + 1)
        /\ meta = [idx |-> [q \in Paths |-> IF q < local.pos THEN local.new[q] ELSE Blank],
                   magic |-> local.pos > NumPaths + 1, sum |-> Blank]
    BY <1>1, <1>3, <2>1 DEF StoreInv, WrittenInv
  <2>4. /\ meta'.idx = IF local.pos <= NumPaths
                       THEN [meta.idx EXCEPT ![local.pos] = local.new[local.pos]]
                       ELSE meta.idx
        /\ meta'.magic = (meta.magic \/ local.pos = NumPaths + 1)
        /\ meta'.sum = meta.sum
        /\ meta' = [idx |-> meta'.idx, magic |-> meta'.magic, sum |-> meta'.sum]
    BY <1>1, <1>3, <2>3 DEF MetaWrite
  <2>5. meta'.idx = [q \in Paths |-> IF q < local.pos + 1 THEN local.new[q] ELSE Blank]
    <3>1. meta.idx = [q \in Paths |-> IF q < local.pos THEN local.new[q] ELSE Blank]
      BY <2>3
    <3>2. CASE local.pos <= NumPaths
      <4>1. local.pos \in Paths
        BY <2>3, <3>2 DEF Paths
      <4>2. meta'.idx = [[q \in Paths |-> IF q < local.pos THEN local.new[q] ELSE Blank]
                           EXCEPT ![local.pos] = local.new[local.pos]]
        BY <2>4, <3>1, <3>2
      <4>3. \A q \in Paths : meta'.idx[q] = IF q < local.pos + 1 THEN local.new[q] ELSE Blank
        BY <2>3, <4>1, <4>2 DEF Paths
      <4>4. meta'.idx = [q \in Paths |-> meta'.idx[q]]
        BY <4>2
      <4> QED
        BY <4>3, <4>4
    <3>3. CASE ~(local.pos <= NumPaths)
      BY <1>1, <2>3, <2>4, <3>1, <3>3 DEF Paths
    <3> QED
      BY <3>2, <3>3
  <2>6. meta'.magic = (local.pos + 1 > NumPaths + 1) /\ meta'.sum = Blank
    <3>1. meta.magic = (local.pos > NumPaths + 1) /\ meta.sum = Blank
      BY <2>3
    <3>2. CASE local.pos = NumPaths + 1
      BY <1>1, <2>4, <3>1, <3>2
    <3>3. CASE local.pos <= NumPaths
      <4>1. (local.pos > NumPaths + 1) = FALSE /\ (local.pos + 1 > NumPaths + 1) = FALSE
        BY <1>1, <2>3, <3>3
      <4>2. local.pos # NumPaths + 1
        BY <1>1, <2>3, <3>3
      <4>3. meta.magic = FALSE
        BY <3>1, <4>1
      <4>4. meta'.magic = FALSE /\ meta'.sum = Blank
        BY <2>4, <3>1, <4>2, <4>3
      <4> QED
        BY <4>1, <4>4
    <3> QED
      BY <1>1, <2>3, <3>2, <3>3
  <2>7. WrittenInv'
    BY <1>1, <2>1, <2>3, <2>4, <2>5, <2>6 DEF WrittenInv
  <2> QED
    BY <2>1, <2>2, <2>7 DEF ErasedInv, PlaceInv
<1>4. CASE MetaWrite /\ ~(local.pos < NumPaths + 2)
  <2>1. pc' = local.then /\ local.then \in {"finish", "init"}
    BY <1>4 DEF MetaWrite, StoreInv, RewriteInv, MetaSteps
  <2> QED
    BY <2>1 DEF RewriteInv, ErasedInv, WrittenInv, PlaceInv, MetaSteps
<1> QED
  BY <1>2, <1>3, <1>4

LEMMA IndexStep ==
  ASSUME MaxGnssSaves = 0, NagInv, StoreInv, [Next]_vars
  PROVE  RewriteInv' /\ ErasedInv' /\ WrittenInv' /\ PlaceInv'
<1> USE DEF StoreInv, RewriteInv, ErasedInv, WrittenInv, PlaceInv, MetaSteps
<1>1. ASSUME NEW d \in TickSteps, NEW yaw \in Yaws, WindowOpen, Run_Nag_Save(d, yaw)
      PROVE  RewriteInv' /\ ErasedInv' /\ WrittenInv' /\ PlaceInv'
  <2>1. UNCHANGED <<pc, local, meta, dirty, Nag_PathSelect>>
    BY <1>1 DEF Run_Nag_Save
  <2>2. At("initRest") => trail' = trail
    BY <1>1, RecorderAssumption DEF Run_Nag_Save, SampleDue, WindowOpen
  <2>3. pc \in MetaSteps /\ local.then = "finish" => Save_index' = Save_index
    BY <1>1, Typed DEF Run_Nag_Save, SampleDue, NagInv, RequestInv
  <2> QED
    BY <2>1, <2>2, <2>3
<1>2. CASE UNCHANGED <<pc, local, meta, dirty, Nag_PathSelect, Save_index, trail>>
  BY <1>2
<1>3. CASE EndRecording \/ RequestRead \/ \E d \in TickSteps : Nag_Run(d)
  BY <1>2, <1>3 DEF EndRecording, RequestRead, Nag_Run
<1>4. CASE \/ GnssIdle \/ ServiceIdle \/ ServiceWrite \/ ReadIdle \/ NagFlashRead
           \/ ReadNothing \/ ReadStep \/ ReadDone \/ MenuIdle \/ MenuSave \/ Finalize
           \/ PowerLoss
           \/ \E p \in Paths, op \in {"RECORD", "REPLAY", "CLEAR"} : MenuOpen(p, op)
  <2>1. pc' \notin {"metaErase", "metaWrite", "initRest", "pageWrite", "gnssErase",
                    "gnssWrite"}
    BY <1>4 DEF GnssIdle, ServiceIdle, ServiceWrite, ReadIdle, NagFlashRead, ReadNothing,
       ReadStep, ReadDone, MenuIdle, MenuSave, Finalize, PowerLoss, MenuOpen
  <2> QED
    BY <2>1
<1>5. CASE PageErase
  BY <1>5, Typed DEF PageErase
<1>6. CASE PageWrite
  BY <1>6 DEF PageWrite, Advance, Move
<1>7. CASE Finish
  <2>1. write = "PAGE" => ~(Flash_page_index <= EndPage[Nag_PathSelect])
    BY <1>7, LastPageInv, Typed DEF Finish, LastPageIsFinal
  <2>2. write \in {"PAGE", "FINAL"}
    BY <1>7 DEF Finish, NagInv, RequestInv, TypeOK, ControlTypeOK, WriteRequests
  <2> QED
    BY <1>7, <2>1, <2>2 DEF Finish
<1>8. CASE ClearErase
  BY <1>8 DEF ClearErase, Move
<1>9. CASE InitFirstHalf
  BY <1>9 DEF InitFirstHalf
<1>10. CASE InitRest
  BY <1>10 DEF InitRest
<1>11. CASE UNCHANGED vars
  BY <1>2, <1>11 DEF vars
<1> QED
  BY <1>1, <1>3, <1>4, <1>5, <1>6, <1>7, <1>8, <1>9, <1>10, <1>11, NoGnss,
     DoneIndex, ClearIndex, MetaIndex DEF Next, Interrupt, MainLoop

LEMMA StoreInit == Init => StoreInv
  BY DEF Init, StoreInv, TrailInv, Recorded, RewriteInv, ErasedInv, WrittenInv, PlaceInv,
         MetaSteps

-----------------------------------------------------------------------------
(***************************************************************************)
(* What a read of a path finds, step by step.                              *)
(***************************************************************************)
Stored == [p \in Paths |-> IF p \in dirty THEN <<>> ELSE Content(p)]

LEMMA IndexFits ==
  ASSUME NagInv, StoreInv, NEW p \in Paths
  PROVE  PathIndex(p) \in 0..Capacity(p)
<1>1. local.new \in [Paths -> Nat]
  BY LocalFields DEF NagInv, TypeOK, ControlTypeOK
<1>2. /\ MetaValues(meta)[p] \in Nat
      /\ MetaValues(meta)[p] <= Capacity(p)
  BY MetaValuesType DEF NagInv, TypeOK, FlashTypeOK
<1> QED
  BY <1>1, <1>2, CapacityType DEF PathIndex, StoreInv, RewriteInv, MetaSteps

\* A path whose index and pages are left alone keeps what it holds.
LEMMA ContentKept ==
  ASSUME NagInv, StoreInv, NEW p \in Paths, PathIndex(p)' = PathIndex(p),
         \A pg \in PathPages(p) : flash'[pg] = flash[pg]
  PROVE  Content(p)' = Content(p)
<1>1. \A i \in 1..PathIndex(p) :
        flash'[StartPage[p] - ((i - 1) \div PointsPerPage)]
          = flash[StartPage[p] - ((i - 1) \div PointsPerPage)]
  <2>1. TAKE i \in 1..PathIndex(p)
  <2>2. i \in 1..Capacity(p)
    BY IndexFits, CapacityType
  <2> QED
    BY <2>2, WordsPage
<1> QED
  BY <1>1 DEF Content

LEMMA NoContent ==
  ASSUME NEW p \in Paths, PathIndex(p) = 0
  PROVE  Content(p) = <<>>
  BY DEF Content

\* The pages of one path are not those of another.
LEMMA PagesApart ==
  ASSUME NEW p \in Paths, NEW q \in Paths, q # p,
         NEW pg \in PathPages(p), NEW page \in PathPages(q)
  PROVE  pg # page
<1>1. \/ StartPage[p] < EndPage[q]
      \/ StartPage[q] < EndPage[p]
  BY LayoutAssumption DEF Paths
<1>2. /\ StartPage[p] \in Nat /\ EndPage[p] \in Nat
      /\ StartPage[q] \in Nat /\ EndPage[q] \in Nat
  BY LayoutAssumption DEF Paths
<1>3. /\ pg \in Int /\ EndPage[p] <= pg /\ pg <= StartPage[p]
      /\ page \in Int /\ EndPage[q] <= page /\ page <= StartPage[q]
  BY <1>2 DEF PathPages
<1> QED
  BY <1>1, <1>2, <1>3

\* A complete index page reads back as it was written.
LEMMA RewriteReadsBack ==
  ASSUME NagInv, StoreInv, MetaWrite, local.pos = NumPaths + 2, NEW p \in Paths
  PROVE  MetaValues(meta')[p] = local.new[p]
<1>1. /\ NumPaths \in Nat \ {0} /\ local.new \in [Paths -> Nat]
      /\ \A q \in Paths : local.new[q] <= Capacity(q)
      /\ meta = [idx |-> [q \in Paths |-> IF q < local.pos THEN local.new[q] ELSE Blank],
                 magic |-> local.pos > NumPaths + 1, sum |-> Blank]
  BY LocalFields, LayoutAssumption
  DEF NagInv, TypeOK, ControlTypeOK, MetaWrite, StoreInv, RewriteInv, WrittenInv, MetaSteps
<1>2. \A q \in Paths : local.new[q] # Blank /\ ClampSaveIndex(q, local.new[q]) = local.new[q]
  BY <1>1, CapacityType, Unclamped
<1>3. meta.idx = local.new
  <2>1. \A q \in Paths : q < local.pos
    BY <1>1 DEF Paths
  <2>2. meta.idx = [q \in Paths |-> local.new[q]]
    BY <1>1, <2>1
  <2> QED
    BY <1>1, <2>2
<1>4. meta.magic = TRUE
  <2>1. (local.pos > NumPaths + 1) = TRUE
    BY <1>1
  <2> QED
    BY <1>1, <2>1
<1>5. meta'.idx = local.new /\ meta'.magic /\ meta'.sum = local.new
  BY <1>1, <1>3, <1>4 DEF MetaWrite
<1>6. MetaIsValid(meta')
  BY <1>1, <1>2, <1>5 DEF MetaIsValid
<1> QED
  BY <1>2, <1>5, <1>6 DEF MetaValues

\* The whole trail is in the flash when the rewrite that ends it is done.
LEMMA TrailInFlash ==
  ASSUME NagInv, StoreInv, pc \in MetaSteps, local.then = "finish"
  PROVE  /\ Len(trail) = Save_index
         /\ \A i \in 1..Save_index : Word(Nag_PathSelect, i) = trail[i]
<1> DEFINE k == StartPage[Nag_PathSelect] - Flash_page_index
<1>1. Recorded
  BY DEF NagInv, RequestInv, Recorded, Abandoned, MetaSteps
<1>2. TrailInv /\ OnPage(size)
  BY <1>1 DEF StoreInv, TrailInv
<1>3. /\ k \in Nat /\ Above = k * PointsPerPage /\ Above \in Nat
      /\ Save_index = Above + size /\ size \in 0..PointsPerPage
      /\ PointsPerPage \in Nat \ {0}
  BY <1>1, Position, Typed DEF Above
<1>4. Flash_page_index = StartPage[Nag_PathSelect] - k
  BY Typed
<1> HIDE DEF k
<1>5. ASSUME NEW i \in 1..Save_index
      PROVE  Word(Nag_PathSelect, i) = trail[i]
  <2>1. CASE i \in 1..Above
    BY <1>1, <1>2, <2>1 DEF TrailInv
  <2>2. CASE i > Above
    <3> DEFINE s == i - Above - 1
    <3>1. /\ s \in 0..(size - 1) /\ s \in Slots
          /\ i = k * PointsPerPage + s + 1
      BY <1>3, <2>2 DEF Slots
    <3> HIDE DEF s
    <3>2. (i - 1) \div PointsPerPage = k /\ (i - 1) % PointsPerPage = s
      BY <1>3, <3>1, CurrentPage
    <3>3. Word(Nag_PathSelect, i) = flash[Flash_page_index][s]
      BY <1>4, <3>2 DEF Word
    <3> QED
      BY <1>2, <1>3, <3>1, <3>3 DEF OnPage
  <2> QED
    BY <1>3, <2>1, <2>2
<1> QED
  BY <1>1, <1>2, <1>5 DEF TrailInv

-----------------------------------------------------------------------------
(***************************************************************************)
(* Every step of the recorder is one of the store, or none.                *)
(***************************************************************************)
LEMMA StoreTyped ==
  ASSUME NagInv
  PROVE  /\ dirty \subseteq Paths /\ trail \in Seq(Yaws)
         /\ Nag_PathSelect \in Paths /\ local.path \in Paths
  BY LocalFields DEF NagInv, TypeOK, NTypeOK, ControlTypeOK, ObservationTypeOK

\* Paths that are not being replaced after a step, nor were before it.
LEMMA StoredKept ==
  ASSUME NagInv, StoreInv, UNCHANGED dirty,
         \A p \in Paths \ dirty : /\ PathIndex(p)' = PathIndex(p)
                                 /\ \A pg \in PathPages(p) : flash'[pg] = flash[pg]
  PROVE  Stored' = Stored
<1>1. \A p \in Paths \ dirty : Content(p)' = Content(p)
  BY ContentKept
<1> QED
  BY <1>1 DEF Stored

\* A path is erased, or its index is about to be.
LEMMA TouchStep ==
  ASSUME NagInv, StoreInv, NEW t \in Paths, dirty' = dirty \cup {t}, trail' = trail,
         \A p \in Paths \ dirty' : /\ PathIndex(p)' = PathIndex(p)
                                  /\ \A pg \in PathPages(p) : flash'[pg] = flash[pg]
  PROVE  Store!Touch(t)
<1>1. \A p \in Paths \ dirty' : Content(p)' = Content(p)
  BY ContentKept
<1>2. Stored' = [Stored EXCEPT ![t] = <<>>]
  BY <1>1 DEF Stored
<1> QED
  BY <1>2 DEF Store!Touch, Stored

LEMMA BeginStep ==
  ASSUME NagInv, StoreInv, NEW t \in Paths, NEW i \in 0..Capacity(t),
         NEW next \in {"finish", "read", "init"}, MetaBegin(t, i, next),
         ~(pc \in MetaSteps), UNCHANGED <<flash, meta, trail>>
  PROVE  Store!Touch(t)
<1>1. /\ dirty' = dirty \cup {t} /\ pc' = "metaErase"
      /\ \A p \in Paths \ {t} : local'.new[p] = MetaValues(meta)[p]
  BY RewriteBegins DEF MetaBegin
<1>2. \A p \in Paths \ dirty' : PathIndex(p)' = PathIndex(p)
  BY <1>1 DEF PathIndex, MetaSteps
<1> QED
  BY <1>1, <1>2, TouchStep

\* The interrupt.
LEMMA InterruptStores ==
  ASSUME NagInv, Interrupt
  PROVE  [Store!Next]_<<Stored, dirty, trail>>
<1>1. UNCHANGED <<flash, meta, pc, local, dirty>>
  BY DEF Interrupt, Run_Nag_Save, EndRecording, RequestRead, Nag_Run
<1>2. Stored' = Stored
  BY <1>1 DEF Stored, Content, PathIndex
<1>3. trail' = trail \/ \E yaw \in Yaws : trail' = Append(trail, yaw)
  BY DEF Interrupt, Run_Nag_Save, EndRecording, RequestRead, Nag_Run
<1> QED
  BY <1>1, <1>2, <1>3 DEF Store!Next, Store!Sample, Stored

\* Steps that reach neither the pages nor the index page.
LEMMA OtherStores ==
  ASSUME UNCHANGED <<flash, meta, dirty>>, ~(pc \in MetaSteps), ~(pc' \in MetaSteps),
         trail' = trail \/ trail' = <<>>
  PROVE  [Store!Next]_<<Stored, dirty, trail>>
<1>1. Stored' = Stored
  BY DEF Stored, Content, PathIndex, MetaSteps
<1> QED
  BY <1>1 DEF Store!Next, Store!Discard, Stored

\* Programming a page of the path that is being replaced.
LEMMA WriteStores ==
  ASSUME NagInv, StoreInv, PageWrite
  PROVE  UNCHANGED <<Stored, dirty, trail>>
<1>1. /\ Nag_PathSelect \in dirty /\ Nag_PathSelect \in Paths
      /\ Flash_page_index \in PathPages(Nag_PathSelect)
  BY ConfinedInv, StoreTyped DEF PageWrite, StoreInv, PlaceInv, PageConfined
<1>2. /\ UNCHANGED <<meta, dirty, trail>>
      /\ ~(pc \in MetaSteps) /\ ~(pc' \in MetaSteps)
  BY DEF PageWrite, Advance, Move, MetaSteps
<1>3. \A p \in Paths \ dirty : \A pg \in PathPages(p) : flash'[pg] = flash[pg]
  BY <1>1, PagesApart, PathPagesAreData DEF PageWrite, NagInv, TypeOK, FlashTypeOK
<1>4. \A p \in Paths \ dirty : PathIndex(p)' = PathIndex(p)
  BY <1>2 DEF PathIndex, MetaSteps
<1> QED
  BY <1>2, <1>3, <1>4, StoredKept

\* Erasing a page, of the path recorded or of the path cleared.
LEMMA EraseStores ==
  ASSUME NagInv, StoreInv, PageErase \/ ClearErase
  PROVE  \E t \in Paths : Store!Touch(t)
<1>1. ASSUME NEW t \in Paths, NEW page \in PathPages(t),
             flash' = [flash EXCEPT ![page] = BlankPage], dirty' = dirty \cup {t},
             UNCHANGED <<meta, trail>>, ~(pc \in MetaSteps), ~(pc' \in MetaSteps)
      PROVE  Store!Touch(t)
  <2>1. \A p \in Paths \ dirty' : \A pg \in PathPages(p) : flash'[pg] = flash[pg]
    BY <1>1, PagesApart, PathPagesAreData DEF NagInv, TypeOK, FlashTypeOK
  <2>2. \A p \in Paths \ dirty' : PathIndex(p)' = PathIndex(p)
    BY <1>1 DEF PathIndex, MetaSteps
  <2> QED
    BY <1>1, <2>1, <2>2, TouchStep
<1>2. CASE PageErase
  <2>1. Nag_PathSelect \in Paths /\ Flash_page_index \in PathPages(Nag_PathSelect)
    BY <1>2, ConfinedInv, StoreTyped DEF PageErase, PageConfined
  <2> QED
    BY <1>1, <1>2, <2>1 DEF PageErase, MetaSteps
<1>3. CASE ClearErase
  <2>1. local.path \in Paths /\ local.page \in PathPages(local.path)
    BY <1>3, LocalFields, LayoutAssumption
    DEF ClearErase, NagInv, LoopInv, TypeOK, ControlTypeOK, PathPages, Paths
  <2> QED
    BY <1>1, <1>3, <2>1 DEF ClearErase, Move, MetaSteps
<1> QED
  BY <1>2, <1>3

\* An index page that is complete replaces what one path holds.
LEMMA RewriteStores ==
  ASSUME NagInv, StoreInv, MetaWrite, local.pos = NumPaths + 2
  PROVE  \E t \in Paths : Store!Save(t) \/ Store!Clear(t)
<1> SUFFICES ASSUME NEW t \in Paths, t = local.path
             PROVE  Store!Save(t) \/ Store!Clear(t)
  BY StoreTyped
<1>1. /\ t \in dirty /\ dirty \subseteq Paths
      /\ dirty' = dirty \ {t} /\ flash' = flash /\ trail' = trail
      /\ pc = "metaWrite" /\ pc' = local.then /\ local.then \in {"finish", "init"}
      /\ NumPaths \in Nat
  BY StoreTyped, LayoutAssumption DEF MetaWrite, StoreInv, RewriteInv, MetaSteps
<1>2. \A p \in Paths : PathIndex(p) = local.new[p] /\ PathIndex(p)' = local.new[p]
  BY <1>1, RewriteReadsBack DEF PathIndex
<1>3. \A p \in Paths : Content(p)' = [i \in 1..local.new[p] |-> Word(p, i)]
  BY <1>1, <1>2 DEF Content, Word
<1>4. \A p \in Paths : Content(p)' = Content(p)
  BY <1>2, <1>3 DEF Content, Word
<1>5. Stored' = [Stored EXCEPT ![t] = Content(t)']
  <2>1. \A p \in Paths : Stored'[p] = IF p \in dirty' THEN <<>> ELSE Content(p)'
    BY DEF Stored
  <2>2. \A p \in Paths : Stored[p] = IF p \in dirty THEN <<>> ELSE Content(p)
    BY DEF Stored
  <2>3. \A p \in Paths \ {t} : Stored'[p] = Stored[p]
    BY <1>1, <1>4, <2>1, <2>2
  <2>4. Stored'[t] = Content(t)'
    BY <1>1, <2>1
  <2>5. Stored = [p \in Paths |-> Stored[p]] /\ Stored' = [p \in Paths |-> Stored'[p]]
    BY DEF Stored
  <2> QED
    BY <1>1, <2>3, <2>4, <2>5
<1>6. CASE local.then = "init"
  <2>1. local.new[t] = 0
    BY <1>1, <1>6 DEF StoreInv, RewriteInv, MetaSteps
  <2>2. Content(t)' = <<>>
    BY <1>1, <1>2, <2>1 DEF Content
  <2>3. Stored' = Stored
    BY <1>1, <1>5, <2>2 DEF Stored
  <2> QED
    BY <1>1, <2>3 DEF Store!Clear, Stored
<1>7. CASE local.then = "finish"
  <2>1. t = Nag_PathSelect /\ local.new[t] = Save_index
    BY <1>1, <1>7 DEF StoreInv, RewriteInv, MetaSteps
  <2>2. /\ Len(trail) = Save_index
        /\ \A i \in 1..Save_index : Word(t, i) = trail[i]
    BY <1>1, <1>7, <2>1, TrailInFlash DEF MetaSteps
  <2>3. Content(t)' = trail
    <3>1. trail \in Seq(Yaws)
      BY StoreTyped
    <3>2. Content(t)' = [i \in 1..Save_index |-> Word(t, i)]
      BY <1>1, <1>3, <2>1
    <3> QED
      BY <2>2, <3>1, <3>2
  <2>4. Len(trail) <= Capacity(t)
    BY <2>1, <2>2 DEF NagInv, RecorderInBounds
  <2> QED
    BY <1>1, <1>5, <2>3, <2>4 DEF Store!Save, Stored
<1> QED
  BY <1>1, <1>6, <1>7

LEMMA MetaStores ==
  ASSUME NagInv, StoreInv, MetaErase \/ MetaWrite
  PROVE  [Store!Next]_<<Stored, dirty, trail>>
<1>1. CASE MetaErase \/ (MetaWrite /\ local.pos < NumPaths + 2)
  <2>1. /\ pc \in MetaSteps /\ pc' \in MetaSteps /\ local'.new = local.new
        /\ UNCHANGED <<flash, dirty, trail>>
    BY <1>1 DEF MetaErase, MetaWrite, Advance, Move, MetaSteps
  <2>2. Stored' = Stored
    BY <2>1, StoredKept DEF PathIndex, MetaSteps
  <2> QED
    BY <2>1, <2>2
<1>2. CASE MetaWrite /\ ~(local.pos < NumPaths + 2)
  <2>1. local.pos = NumPaths + 2
    BY <1>2, LayoutAssumption DEF MetaWrite, StoreInv, WrittenInv
  <2> QED
    BY <1>2, <2>1, RewriteStores DEF Store!Next
<1> QED
  BY <1>1, <1>2

\* What is read after a power loss in the middle of a rewrite: the index that
\* was being written, or none.
LEMMA LossIndex ==
  ASSUME NagInv, StoreInv, pc \in MetaSteps, NEW p \in Paths \ dirty
  PROVE  MetaValues(meta)[p] \in {0, local.new[p]}
<1>1. /\ local.path \in dirty /\ p # local.path
      /\ local.new \in [Paths -> Nat] /\ local.new[p] \in 0..Capacity(p)
  BY LocalFields, CapacityType
  DEF NagInv, TypeOK, ControlTypeOK, StoreInv, RewriteInv
<1>2. CASE At("metaErase")
  BY <1>1, <1>2 DEF StoreInv, ErasedInv
<1>3. CASE At("metaWrite")
  <2>1. meta.idx[p] \in {Blank, local.new[p]}
    BY <1>3 DEF StoreInv, WrittenInv
  <2>2. ClampSaveIndex(p, meta.idx[p]) \in {0, local.new[p]}
    BY <1>1, <2>1, Unclamped DEF ClampSaveIndex
  <2> QED
    BY <2>2 DEF MetaValues
<1> QED
  BY <1>2, <1>3 DEF MetaSteps

LEMMA LossStores ==
  ASSUME NagInv, StoreInv, PowerLoss
  PROVE  [Store!Next]_<<Stored, dirty, trail>>
<1>1. /\ UNCHANGED <<flash, meta, dirty>> /\ trail' = <<>> /\ ~(pc' \in MetaSteps)
  BY DEF PowerLoss, MetaSteps
<1>2. CASE ~(pc \in MetaSteps)
  BY <1>1, <1>2, OtherStores
<1>3. CASE pc \in MetaSteps
  <2> DEFINE lost == {p \in Paths \ dirty : MetaValues(meta)[p] = 0}
  <2>1. dirty # {}
    BY <1>3 DEF StoreInv, RewriteInv
  <2>2. \A p \in Paths : PathIndex(p)' = MetaValues(meta)[p]
    BY <1>1 DEF PathIndex, MetaSteps
  <2>3. \A p \in lost : Content(p)' = <<>>
    BY <1>1, <2>2 DEF Content
  <2>4. \A p \in (Paths \ dirty) \ lost : Content(p)' = Content(p)
    <3>1. TAKE p \in (Paths \ dirty) \ lost
    <3>2. MetaValues(meta)[p] = local.new[p]
      BY <1>3, LossIndex
    <3>3. PathIndex(p)' = PathIndex(p)
      BY <1>3, <2>2, <3>2 DEF PathIndex, MetaSteps
    <3> QED
      BY <1>1, <3>3, ContentKept
  <2>5. Stored' = [p \in Paths |-> IF p \in lost THEN <<>> ELSE Stored[p]]
    BY <1>1, <2>3, <2>4 DEF Stored
  <2>6. lost \in SUBSET Paths
    OBVIOUS
  <2> HIDE DEF lost
  <2>7. Store!PowerLoss
    BY <1>1, <2>1, <2>5, <2>6 DEF Store!PowerLoss, Stored
  <2> QED
    BY <2>7 DEF Store!Next
<1> QED
  BY <1>2, <1>3

\* The end of a page and of a recording.
LEMMA DoneStores ==
  ASSUME NagInv, StoreInv, PageDone \/ Finish
  PROVE  [Store!Next]_<<Stored, dirty, trail>>
<1>1. UNCHANGED <<flash, meta, trail>> /\ ~(pc \in MetaSteps)
  BY DEF PageDone, Finish, MetaSteps
<1>2. CASE MetaBegin(Nag_PathSelect, Save_index, "finish")
  <2>1. Save_index \in 0..Capacity(Nag_PathSelect) /\ Nag_PathSelect \in Paths
    BY Typed, StoreTyped DEF NagInv, RecorderInBounds
  <2> QED
    BY <1>1, <1>2, <2>1, BeginStep DEF Store!Next
<1>3. CASE dirty' = dirty /\ ~(pc' \in MetaSteps)
  BY <1>1, <1>3, OtherStores
<1>4. CASE PageDone
  BY <1>2, <1>3, <1>4, SavedIndex DEF PageDone, MetaSteps
<1>5. CASE Finish
  <2>1. write = "PAGE" => ~(Flash_page_index <= EndPage[Nag_PathSelect])
    BY <1>5, LastPageInv, Typed DEF Finish, LastPageIsFinal
  <2>2. write \in {"PAGE", "FINAL"}
    BY <1>5 DEF Finish, NagInv, RequestInv, TypeOK, ControlTypeOK, WriteRequests
  <2> QED
    BY <1>3, <1>5, <2>1, <2>2 DEF Finish, MetaSteps
<1> QED
  BY <1>4, <1>5

LEMMA ClearStores ==
  ASSUME NagInv, StoreInv, ClearMeta
  PROVE  [Store!Next]_<<Stored, dirty, trail>>
<1>1. local.path \in Paths /\ 0 \in 0..Capacity(local.path)
  BY StoreTyped, CapacityType
<1>2. /\ MetaBegin(local.path, 0, "init")
      /\ UNCHANGED <<flash, meta, trail>> /\ ~(pc \in MetaSteps)
  BY DEF ClearMeta, MetaSteps
<1> QED
  BY <1>1, <1>2, BeginStep DEF Store!Next

LEMMA StoreStep ==
  ASSUME MaxGnssSaves = 0, NagInv, StoreInv, [Next]_vars
  PROVE  [Store!Next]_<<Stored, dirty, trail>>
<1>1. CASE Interrupt
  BY <1>1, InterruptStores
<1>2. CASE \/ GnssIdle \/ ServiceIdle \/ ServiceWrite \/ Finalize
           \/ ReadIdle \/ NagFlashRead \/ ReadNothing \/ ReadStep \/ ReadDone
           \/ MenuIdle \/ MenuSave
           \/ \E p \in Paths, op \in {"RECORD", "REPLAY", "CLEAR"} : MenuOpen(p, op)
           \/ InitFirstHalf \/ InitRest
  <2>1. /\ UNCHANGED <<flash, meta, dirty>> /\ (trail' = trail \/ trail' = <<>>)
        /\ ~(pc \in MetaSteps) /\ ~(pc' \in MetaSteps)
    BY <1>2 DEF GnssIdle, ServiceIdle, ServiceWrite, Finalize, ReadIdle, NagFlashRead,
       ReadNothing, ReadStep, ReadDone, MenuIdle, MenuSave, MenuOpen, InitFirstHalf,
       InitRest, MetaSteps
  <2> QED
    BY <2>1, OtherStores
<1>3. CASE PageErase \/ ClearErase
  BY <1>3, EraseStores DEF Store!Next
<1>4. CASE PageWrite
  BY <1>4, WriteStores
<1>5. CASE UNCHANGED vars
  BY <1>5 DEF vars, Stored, Content, PathIndex
<1>6. ~GnssBegin /\ ~GnssErase /\ ~GnssWrite /\ ~GnssDone
  BY NoGnss DEF StoreInv
<1> QED
  BY <1>1, <1>2, <1>3, <1>4, <1>5, <1>6, MetaStores, LossStores, DoneStores, ClearStores
  DEF Next, MainLoop

LEMMA StoreBegins == Init => Store!Init
<1>1. SUFFICES ASSUME Init PROVE Store!Init
  OBVIOUS
<1>2. \A p \in Paths : PathIndex(p) = 0
  BY <1>1 DEF Init, PathIndex, MetaValues, BlankMeta, ClampSaveIndex
<1>3. \A p \in Paths : Content(p) = <<>>
  BY <1>2, NoContent
<1> QED
  BY <1>1, <1>3 DEF Init, Store!Init

(***************************************************************************)
(* As long as no GNSS fix is cached the recorder implements the path       *)
(* store: a path holds exactly the last recording saved on it, complete    *)
(* and in order, a cleared path holds nothing, and no other path is        *)
(* touched, except that a power loss in the middle of a replacement may    *)
(* empty it (Flash.c:217-290, 581-660).                                    *)
(***************************************************************************)
THEOREM StoreImplemented ==
  ASSUME MaxGnssSaves = 0
  PROVE  Spec => ImplementsStore
<1>1. Init => NagInv /\ StoreInv /\ Store!Init
  BY InitInv, StoreInit, StoreBegins
<1>2. NagInv /\ StoreInv /\ [Next]_vars => StoreInv'
  BY TrailStep, IndexStep DEF StoreInv
<1>3. NagInv /\ StoreInv /\ [Next]_vars =>
        [Store!Next]_<<[p \in Paths |-> IF p \in dirty THEN <<>> ELSE Content(p)],
                       dirty, trail>>
  BY StoreStep DEF Stored
<1> QED
  BY <1>1, <1>2, <1>3, NagInvariant, PTL DEF Spec, ImplementsStore, Store!Spec

-----------------------------------------------------------------------------
(***************************************************************************)
(* What is loaded.  While a path is read that is not being replaced, the   *)
(* points loaded so far are the first of it, in whole pages; the erased    *)
(* word ends no page of it early, since no heading is one.                 *)
(***************************************************************************)
Loading == (read.active \/ At("readDone")) /\ ~Abandoned /\ Nag_PathSelect \notin dirty

LoadInv ==
  Loading =>
    /\ read.count = MetaValues(meta)[Nag_PathSelect]
    /\ \A i \in 1..Len(Nav_read) : Nav_read[i] = Word(Nag_PathSelect, i)
    /\ read.active =>
         /\ Len(Nav_read) = (StartPage[Nag_PathSelect] - read.page) * PointsPerPage
         /\ Len(Nav_read) < read.count
    /\ At("readDone") => Len(Nav_read) = read.count

HeadingsInv == Stored \in [Paths -> Seq(Yaws)]

\* A store is given only recordings.
LEMMA HeadingsStep ==
  ASSUME NagInv, HeadingsInv, [Store!Next]_<<Stored, dirty, trail>>
  PROVE  HeadingsInv'
<1> USE DEF HeadingsInv
<1>1. /\ Stored = [p \in Paths |-> IF p \in dirty THEN <<>> ELSE Content(p)]
      /\ Stored' = [p \in Paths |-> IF p \in dirty' THEN <<>> ELSE Content(p)']
  BY DEF Stored
<1>2. trail \in Seq(Yaws)
  BY StoreTyped
<1>3. CASE Stored' = Stored
  BY <1>3
<1>4. ASSUME NEW t \in Paths, NEW r \in Seq(Yaws), Stored' = [Stored EXCEPT ![t] = r]
      PROVE  Stored' \in [Paths -> Seq(Yaws)]
  BY <1>4
<1>5. ASSUME NEW t \in Paths, Store!Touch(t)
      PROVE  Stored' \in [Paths -> Seq(Yaws)]
  <2>1. Stored' = [Stored EXCEPT ![t] = <<>>]
    BY <1>1, <1>5 DEF Store!Touch
  <2>2. <<>> \in Seq(Yaws)
    OBVIOUS
  <2> QED
    BY <1>4, <2>1, <2>2
<1>6. ASSUME NEW t \in Paths, Store!Save(t)
      PROVE  Stored' \in [Paths -> Seq(Yaws)]
  BY <1>1, <1>2, <1>4, <1>6 DEF Store!Save
<1>7. CASE Store!PowerLoss
  <2>1. PICK lost \in SUBSET Paths :
          Stored' = [p \in Paths |-> IF p \in lost THEN <<>> ELSE Stored[p]]
    BY <1>1, <1>7 DEF Store!PowerLoss
  <2>2. <<>> \in Seq(Yaws)
    OBVIOUS
  <2> QED
    BY <2>1, <2>2
<1>8. CASE Store!Discard \/ (\E w \in Yaws : Store!Sample(w)) \/ \E t \in Paths : Store!Clear(t)
  BY <1>1, <1>3, <1>8 DEF Store!Discard, Store!Sample, Store!Clear
<1> QED
  BY <1>3, <1>5, <1>6, <1>7, <1>8 DEF Store!Next

\* Every point of a path that is not being replaced is a heading.
LEMMA PointIsHeading ==
  ASSUME NagInv, HeadingsInv, NEW p \in Paths \ dirty, NEW i \in 1..PathIndex(p),
         PathIndex(p) \in Nat
  PROVE  Word(p, i) \in Yaws
<1>1. Content(p) \in Seq(Yaws)
  BY DEF HeadingsInv, Stored
<1>2. Content(p) = [j \in 1..PathIndex(p) |-> Word(p, j)]
  BY DEF Content, Word
<1>3. Len(Content(p)) = PathIndex(p) /\ Content(p)[i] = Word(p, i)
  BY <1>2
<1> QED
  BY <1>1, <1>3

\* The steps that a read of a path does not meet.
LEMMA LoadKept ==
  ASSUME LoadInv, UNCHANGED <<flash, meta, dirty, read, Nav_read, Nag_PathSelect>>,
         pc' # "readDone" \/ pc' = pc, Loading' => ~Abandoned
  PROVE  LoadInv'
<1>1. Loading' => Loading
  BY DEF Loading
<1>2. \A i : Word(Nag_PathSelect, i)' = Word(Nag_PathSelect, i)
  BY DEF Word
<1> QED
  BY <1>1, <1>2 DEF LoadInv

\* A read that is active belongs to PRELOAD: no write is under way.
LEMMA ReadAlone ==
  ASSUME NagInv, StoreInv, read.active, ~Abandoned
  PROVE  pc \notin {"pageErase", "pageWrite", "pageDone", "finish", "finalize"} \cup MetaSteps
<1>1. Nag_SystemRun_Index = "PRELOAD" /\ write = "NONE"
  BY DEF NagInv, RequestInv
<1>2. pc \in MetaSteps => local.then \in {"init", "finish"}
  BY DEF StoreInv, RewriteInv
<1> QED
  BY <1>1, <1>2 DEF NagInv, RequestInv, Abandoned, MetaSteps

LEMMA BeginLoad ==
  ASSUME NagInv, NagFlashRead
  PROVE  LoadInv'
<1> DEFINE index == MetaValues(meta)[Nag_PathSelect]
<1>1. index \in Nat /\ index <= Capacity(Nag_PathSelect)
  BY Typed, MetaValuesType DEF NagInv, TypeOK, FlashTypeOK
<1>2. Capacity(Nag_PathSelect) <= Read_MaxSize /\ Read_MaxSize \in Nat
  BY Typed, CapacityType, LayoutAssumption
<1>3. Min2(index, Read_MaxSize) = index
  BY <1>1, <1>2, Typed DEF Min2
<1>4. ~read.active /\ pc' = "readStep" /\ UNCHANGED <<meta, Nag_PathSelect>>
  BY DEF NagFlashRead, NagInv, RequestInv
<1>5. CASE read' = ReadAt(FALSE, read.active, read.page)
  BY <1>4, <1>5 DEF ReadAt, LoadInv, Loading
<1>6. CASE /\ read' = [pending |-> FALSE, active |-> TRUE,
                       page |-> StartPage[Nag_PathSelect],
                       count |-> Min2(index, Read_MaxSize)]
           /\ Nav_read' = <<>> /\ ~(index < 2)
  <2>1. /\ read'.count = MetaValues(meta')[Nag_PathSelect']
        /\ read'.page = StartPage[Nag_PathSelect'] /\ read'.count > 0
    BY <1>1, <1>3, <1>4, <1>6
  <2>2. Len(Nav_read') = 0 /\ (StartPage[Nag_PathSelect] - read'.page) * PointsPerPage = 0
    BY <1>6, <2>1, <1>4, Typed
  <2> QED
    BY <1>4, <2>1, <2>2 DEF LoadInv
<1> QED
  BY <1>5, <1>6 DEF NagFlashRead, get_path_start_page

LEMMA StepLoad ==
  ASSUME Blank \notin Yaws, NagInv, StoreInv, HeadingsInv, LoadInv, ReadStep
  PROVE  LoadInv'
<1> DEFINE p == Nag_PathSelect
           k == StartPage[p] - read.page
           n == Min2(PointsPerPage, read.count - Len(Nav_read))
<1>1. /\ pc = "readStep" /\ read.active
      /\ UNCHANGED <<flash, meta, dirty, Nag_PathSelect>>
  BY DEF ReadStep
<1> SUFFICES ASSUME p \notin dirty
             PROVE  LoadInv'
  BY <1>1 DEF LoadInv, Loading
<1>2. /\ read.count = MetaValues(meta)[p]
      /\ \A i \in 1..Len(Nav_read) : Nav_read[i] = Word(p, i)
      /\ Len(Nav_read) = k * PointsPerPage /\ Len(Nav_read) < read.count
  BY <1>1 DEF LoadInv, Loading, Abandoned, MetaSteps
<1>3. /\ read \in ReadType /\ read.page \in PathPages(p) /\ read.page \in Int
      /\ read.count \in Nat /\ read.count <= Capacity(p)
      /\ Nav_read \in Seq(Words)
  BY <1>1, ReadAtType DEF NagInv, TypeOK, ControlTypeOK, ReadPosition
<1>4. k \in Nat /\ PointsPerPage \in Nat \ {0} /\ Len(Nav_read) \in Nat
  BY <1>3, Typed DEF PathPages
<1>5. n \in 1..PointsPerPage /\ n <= read.count - Len(Nav_read)
  BY <1>2, <1>3, <1>4 DEF Min2
<1>6. read.page = StartPage[p] - k
  BY <1>3, Typed
<1>7. ASSUME NEW s \in 0..(n - 1)
      PROVE  Word(p, Len(Nav_read) + s + 1) = flash[read.page][s]
  <2>1. s \in Slots
    BY <1>4, <1>5 DEF Slots
  <2> HIDE DEF k, n
  <2>2. /\ (Len(Nav_read) + s + 1 - 1) \div PointsPerPage = k
        /\ (Len(Nav_read) + s + 1 - 1) % PointsPerPage = s
    BY <1>2, <1>4, <2>1, CurrentPage
  <2> QED
    BY <1>6, <2>2 DEF Word
<1>8. flash[read.page] # BlankPage
  <2>1. PathIndex(p) = read.count
    BY <1>1, <1>2 DEF PathIndex
  <2>2. Word(p, Len(Nav_read) + 0 + 1) = flash[read.page][0]
    BY <1>5, <1>7
  <2>3. Len(Nav_read) + 0 + 1 \in 1..PathIndex(p)
    BY <1>2, <1>3, <1>4, <2>1
  <2>4. flash[read.page][0] \in Yaws
    BY <1>3, <2>1, <2>2, <2>3, Typed, PointIsHeading
  <2>5. BlankPage[0] = Blank
    BY <1>4 DEF BlankPage, Slots
  <2> QED
    BY <2>4, <2>5
<1>9. /\ ~(Len(Nav_read) >= read.count) /\ ~(read.page < EndPage[Nag_PathSelect])
      /\ flash[read.page] # BlankPage
  <2>1. ~(Len(Nav_read) >= read.count)
    BY <1>2, <1>3, <1>4
  <2>2. ~(read.page < EndPage[Nag_PathSelect])
    BY <1>3, Typed DEF PathPages
  <2> QED
    BY <1>8, <2>1, <2>2
<1>10. /\ Len(Nav_read') = Len(Nav_read) + n
       /\ \A i \in 1..Len(Nav_read') : Nav_read'[i] = Word(p, i)
  <2> DEFINE word(i) == flash[read.page][i - 1]
             S == Words \cup {word(i) : i \in 1..n}
  <2>1. PageShare = [i \in 1..n |-> word(i)]
    BY DEF PageShare
  <2>2. Nav_read \in Seq(S) /\ \A i \in 1..n : word(i) \in S
    BY <1>3
  <2>3. \A i \in 1..n : word(i) = Word(p, Len(Nav_read) + i)
    <3>1. TAKE i \in 1..n
    <3>2. i - 1 \in 0..(n - 1) /\ Len(Nav_read) + (i - 1) + 1 = Len(Nav_read) + i
      BY <1>4, <1>5
    <3> HIDE DEF n
    <3> QED
      BY <1>7, <3>2
  <2> HIDE DEF S, word, n
  <2>4. PageShare \in Seq(S) /\ Len(PageShare) = n /\ \A i \in 1..n : PageShare[i] = word(i)
    BY <1>5, <2>1, <2>2
  <2>5. Len(Nav_read \o PageShare) = Len(Nav_read) + n
    BY <2>2, <2>4
  <2>6. ASSUME NEW i \in 1..(Len(Nav_read) + n)
        PROVE  (Nav_read \o PageShare)[i] = Word(p, i)
    <3>1. CASE i <= Len(Nav_read)
      BY <1>2, <1>4, <2>2, <2>4, <3>1
    <3>2. CASE i > Len(Nav_read)
      <4>1. /\ i - Len(Nav_read) \in 1..n
            /\ Len(Nav_read) + (i - Len(Nav_read)) = i
        BY <1>4, <1>5, <3>2
      <4>2. (Nav_read \o PageShare)[i] = PageShare[i - Len(Nav_read)]
        BY <1>4, <1>5, <2>2, <2>4, <3>2
      <4> QED
        BY <2>3, <2>4, <4>1, <4>2
    <3>3. i <= Len(Nav_read) \/ i > Len(Nav_read)
      BY <1>4, <1>5
    <3> QED
      BY <3>1, <3>2, <3>3
  <2>7. Nav_read' = Nav_read \o PageShare
    BY <1>9 DEF ReadStep
  <2>8. Len(Nav_read') = Len(Nav_read) + n
    BY <2>5, <2>7
  <2> QED
    BY <2>6, <2>7, <2>8
<1>11. read'.count = read.count
  BY DEF ReadStep, ReadAt
<1>12. \A i : Word(p, i)' = Word(p, i)
  BY <1>1 DEF Word
<1>13. CASE Len(Nav_read') >= read.count
  <2>1. Len(Nav_read') = read.count
    BY <1>3, <1>4, <1>5, <1>10, <1>13
  <2>2. pc' = "readDone" /\ ~read'.active
    BY <1>13 DEF ReadStep, ReadAt
  <2> QED
    BY <1>1, <1>2, <1>10, <1>11, <1>12, <2>1, <2>2 DEF LoadInv
<1>14. CASE ~(Len(Nav_read') >= read.count)
  <2>1. n = PointsPerPage
    BY <1>2, <1>3, <1>4, <1>10, <1>14 DEF Min2
  <2>2. Len(Nav_read') = k * PointsPerPage + PointsPerPage
    BY <1>2, <1>10, <2>1
  <2> DEFINE m == StartPage[p] - EndPage[p] + 1
  <2>3. m \in Nat /\ Capacity(p) <= m * PointsPerPage /\ Capacity(p) \in Nat
    BY Typed, CapacityType
  <2>4. k < m - 1
    <3>1. k * PointsPerPage + PointsPerPage < m * PointsPerPage
      BY <1>3, <1>4, <1>14, <2>2, <2>3
    <3>2. CASE m <= k + 1
      <4>1. m * PointsPerPage <= (k + 1) * PointsPerPage
        BY <1>4, <2>3, <3>2
      <4>2. (k + 1) * PointsPerPage = k * PointsPerPage + PointsPerPage
        BY <1>4
      <4> QED
        BY <1>4, <2>3, <3>1, <4>1, <4>2
    <3> QED
      BY <1>4, <2>3, <3>2
  <2>5. read.page > EndPage[p]
    BY <1>3, <2>4, Typed
  <2>6. pc' = "menu" /\ read' = ReadAt(read.pending, TRUE, read.page - 1)
    BY <1>9, <1>14, <2>5 DEF ReadStep
  <2>7. (StartPage[p] - (read.page - 1)) * PointsPerPage = k * PointsPerPage + PointsPerPage
    BY <1>3, <1>4, Typed
  <2>8. read'.page = read.page - 1
    BY <2>6 DEF ReadAt
  <2>9. Len(Nav_read') < read'.count
    BY <1>3, <1>4, <1>5, <1>10, <1>11, <1>14
  <2> QED
    BY <1>1, <1>2, <1>10, <1>11, <1>12, <2>2, <2>6, <2>7, <2>8, <2>9 DEF LoadInv
<1> QED
  BY <1>13, <1>14

LEMMA LoadStep ==
  ASSUME MaxGnssSaves = 0, Blank \notin Yaws, NagInv, StoreInv, HeadingsInv, LoadInv,
         [Next]_vars
  PROVE  LoadInv'
<1>1. CASE Interrupt
  <2>1. UNCHANGED <<flash, meta, dirty, Nav_read, Nag_PathSelect, pc, local>>
    BY <1>1 DEF Interrupt, Run_Nag_Save, EndRecording, RequestRead, Nag_Run
  <2>2. /\ read'.active => read.active
        /\ read'.count = read.count
        /\ read'.page = read.page
    BY <1>1 DEF Interrupt, Run_Nag_Save, EndRecording, RequestRead, Nag_Run, ReadAt
  <2>3. \A i : Word(Nag_PathSelect, i)' = Word(Nag_PathSelect, i)
    BY <2>1 DEF Word
  <2> QED
    BY <2>1, <2>2, <2>3 DEF LoadInv, Loading, Abandoned
<1>2. CASE \/ GnssIdle \/ ServiceIdle \/ ServiceWrite \/ ReadIdle \/ ReadNothing
           \/ MenuIdle \/ MenuSave
           \/ \E p \in Paths, op \in {"RECORD", "REPLAY", "CLEAR"} : MenuOpen(p, op)
  <2>1. /\ UNCHANGED <<flash, meta, dirty, read, Nav_read, Nag_PathSelect>>
        /\ pc' # "readDone"
        /\ pc \in {"gnss", "service", "read", "readStep", "menu"}
    BY <1>2 DEF GnssIdle, ServiceIdle, ServiceWrite, ReadIdle, ReadNothing, MenuIdle,
       MenuSave, MenuOpen
  <2> QED
    BY <2>1, LoadKept DEF Abandoned, MetaSteps
<1>3. CASE \/ PageErase \/ PageWrite \/ PageDone \/ Finish \/ Finalize
           \/ MetaErase \/ MetaWrite
  <2>1. /\ UNCHANGED read /\ pc' # "readDone"
        /\ pc \in {"pageErase", "pageWrite", "pageDone", "finish", "finalize"}
                   \cup MetaSteps
    BY <1>3 DEF PageErase, PageWrite, PageDone, Finish, Finalize, MetaErase, MetaWrite,
       MetaBegin, Advance, Move, MetaSteps, StoreInv, RewriteInv
  <2>2. Loading' => read.active
    BY <2>1 DEF Loading
  <2>3. Abandoned => Abandoned'
    BY <1>3 DEF PageErase, PageWrite, PageDone, Finish, Finalize, MetaErase, MetaWrite,
       Advance, Move, Abandoned, MetaSteps
  <2>4. ~Loading'
    BY <2>1, <2>2, <2>3, ReadAlone DEF Loading
  <2> QED
    BY <2>4 DEF LoadInv
<1>4. CASE ClearErase \/ ClearMeta \/ InitFirstHalf
  <2>1. Abandoned'
    BY <1>4 DEF ClearErase, ClearMeta, InitFirstHalf, MetaBegin, Move, Abandoned, MetaSteps
  <2> QED
    BY <2>1 DEF LoadInv, Loading
<1>5. CASE InitRest \/ PowerLoss \/ ReadDone
  <2>1. ~read'.active /\ pc' # "readDone"
    BY <1>5 DEF InitRest, PowerLoss, ReadDone, NoRead, NagInv, RequestInv
  <2> QED
    BY <2>1 DEF LoadInv, Loading
<1>6. CASE UNCHANGED vars
  <2>1. UNCHANGED <<flash, meta, dirty, read, Nav_read, Nag_PathSelect, pc, local>>
    BY <1>6 DEF vars
  <2> QED
    BY <2>1, LoadKept DEF Loading, Abandoned
<1>7. ~GnssBegin /\ ~GnssErase /\ ~GnssWrite /\ ~GnssDone
  BY NoGnss DEF StoreInv
<1> QED
  BY <1>1, <1>2, <1>3, <1>4, <1>5, <1>6, <1>7, BeginLoad, StepLoad DEF Next, MainLoop

\* The start of a replay.
LEMMA LoadedIsContent ==
  ASSUME NagInv, LoadInv, [Next]_vars, ReplayStarts, Nag_PathSelect \notin dirty
  PROVE  Nav_read = Content(Nag_PathSelect)
<1>1. ReadDone
  BY DEF ReplayStarts, Next, Interrupt, MainLoop, PowerLoss, Run_Nag_Save, EndRecording,
      RequestRead, Nag_Run, GnssIdle, GnssBegin, GnssErase, GnssWrite, GnssDone,
      MetaErase, MetaWrite, ServiceIdle, ServiceWrite, PageErase, PageWrite, PageDone,
      Finish, Finalize, ReadIdle, NagFlashRead, ReadNothing, ReadStep, MenuIdle,
      MenuSave, MenuOpen, ClearErase, ClearMeta, InitFirstHalf, InitRest, vars
<1>2. pc = "readDone"
  BY <1>1 DEF ReadDone
<1>3. /\ Len(Nav_read) = MetaValues(meta)[Nag_PathSelect]
      /\ \A i \in 1..Len(Nav_read) : Nav_read[i] = Word(Nag_PathSelect, i)
  BY <1>2 DEF LoadInv, Loading, Abandoned, MetaSteps
<1>4. Nav_read \in Seq(Words)
  BY DEF NagInv, TypeOK, ControlTypeOK
<1>5. Content(Nag_PathSelect) = [i \in 1..Len(Nav_read) |-> Word(Nag_PathSelect, i)]
  BY <1>2, <1>3 DEF Content, PathIndex, Word
<1> QED
  BY <1>3, <1>4, <1>5

LEMMA LoadInit == Init => HeadingsInv /\ LoadInv
<1> SUFFICES ASSUME Init PROVE HeadingsInv /\ LoadInv
  OBVIOUS
<1>1. Stored = [p \in Paths |-> <<>>]
  BY StoreBegins DEF Store!Init, Stored
<1>2. <<>> \in Seq(Yaws)
  OBVIOUS
<1> QED
  BY <1>1, <1>2 DEF HeadingsInv, LoadInv, Loading, Init, NoRead

(***************************************************************************)
(* A replay starts with exactly the points of the saved path, unless its   *)
(* pages were being replaced when it was read (Flash.c:450-560).  It needs *)
(* that no heading is stored as the erased word, since a page of such      *)
(* headings would end the loading, and that no fix is cached.              *)
(***************************************************************************)
THEOREM ReplayLoadsWhatWasSaved ==
  ASSUME MaxGnssSaves = 0, Blank \notin Yaws
  PROVE  Spec => ReplayLoadsSaved
<1>1. Init => StoreInv /\ HeadingsInv /\ LoadInv
  BY StoreInit, LoadInit
<1>2. NagInv /\ StoreInv /\ HeadingsInv /\ LoadInv /\ [Next]_vars
        => StoreInv' /\ HeadingsInv' /\ LoadInv'
  BY TrailStep, IndexStep, StoreStep, HeadingsStep, LoadStep DEF StoreInv
<1>3. NagInv /\ LoadInv /\ [Next]_vars
        => [ReplayStarts /\ Nag_PathSelect \notin dirty
              => Nav_read = Content(Nag_PathSelect)]_vars
  BY LoadedIsContent
<1> QED
  BY <1>1, <1>2, <1>3, NagInvariant, PTL DEF Spec, ReplayLoadsSaved
=============================================================================
