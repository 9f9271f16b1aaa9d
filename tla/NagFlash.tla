------------------------------ MODULE NagFlash ------------------------------
(***************************************************************************)
(* Layout of the work flash used by the inertial path recorder: which      *)
(* pages belong to which path, how many points a path may hold, and how    *)
(* the three save indexes are read back from the meta page (Flash.h,       *)
(* Flash.c:25-145).  A flash word is abstract: Blank is the erased word    *)
(* 0xFFFFFFFF, Yaws are the recorded headings, Fix is a word of the GNSS   *)
(* cache structure.                                                        *)
(***************************************************************************)
EXTENDS Integers, Sequences

CONSTANTS
  NumPaths,       \* NAG_PATH_COUNT
  StartPage,      \* NAG_PATHi_START, the first page written (highest number)
  EndPage,        \* NAG_PATHi_END, the last page written (lowest number)
  MetaPage,       \* NAG_META_PAGE
  PointsPerPage,  \* NAG_POINTS_PER_PAGE
  Read_MaxSize,   \* length of Nav_read
  Yaws,           \* the words a recorded heading can be
  Blank           \* the erased word

Paths == 1..NumPaths
Slots == 0..(PointsPerPage - 1)
PathPages(p) == EndPage[p]..StartPage[p]
DataPages == UNION {PathPages(p) : p \in Paths}
Words == Yaws \cup {Blank}

BlankPage == [s \in Slots |-> Blank]

Min2(a, b) == IF a <= b THEN a ELSE b

(***************************************************************************)
(* The page macros of Flash.h: every path has its pages above the meta     *)
(* page, and no two paths share one.                                       *)
(***************************************************************************)
ASSUME LayoutAssumption ==
  /\ NumPaths \in Nat \ {0}
  /\ StartPage \in [1..NumPaths -> Nat]
  /\ EndPage \in [1..NumPaths -> Nat]
  /\ MetaPage \in Nat
  /\ PointsPerPage \in Nat \ {0}
  /\ Read_MaxSize \in Nat \ {0}
  /\ \A p \in 1..NumPaths : MetaPage < EndPage[p] /\ EndPage[p] <= StartPage[p]
  /\ \A p, q \in 1..NumPaths :
       p # q => \/ StartPage[p] < EndPage[q]
                \/ StartPage[q] < EndPage[p]

-----------------------------------------------------------------------------
\* Slip: the default case of the switch taken for every path.
get_path_start_page_Default(p) == StartPage[1]

get_path_start_page(p) == StartPage[p]

Capacity(p) ==
  Min2((StartPage[p] - EndPage[p] + 1) * PointsPerPage, Read_MaxSize)

\* An erased index word is not an index: 0xFFFFFFFF is larger than any capacity.
ASSUME BlankAssumption == \A p \in 1..NumPaths : Blank \notin 0..Capacity(p)

ClampSaveIndex(p, word) ==
  IF word = Blank THEN 0 ELSE Min2(word, Capacity(p))

(***************************************************************************)
(* The meta page, in the order its words are programmed: one save index    *)
(* per path, then magic, version and sample length (one word here: any of  *)
(* them missing makes the page invalid), then the checksum, which stands   *)
(* for the indexes it was computed from.                                   *)
(***************************************************************************)
BlankMeta == [idx |-> [p \in Paths |-> Blank], magic |-> FALSE, sum |-> Blank]

MetaIsValid(m) ==
  /\ m.magic
  /\ m.sum = m.idx
  /\ \A p \in Paths : m.idx[p] # Blank /\ m.idx[p] <= Capacity(p)

(***************************************************************************)
(* nag_read_meta_values: a page with a magic word that does not validate   *)
(* yields zeros; a page without one is the layout of an older firmware and *)
(* its indexes are taken as they stand.                                    *)
(***************************************************************************)
MetaValues(m) ==
  [p \in Paths |-> IF m.magic /\ ~MetaIsValid(m)
                     THEN 0
                     ELSE ClampSaveIndex(p, m.idx[p])]
=============================================================================
