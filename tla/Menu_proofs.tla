----------------------------- MODULE Menu_proofs -----------------------------
(* For every table, every set of pages and whichever test pages may be over   *)
(* within the call that opens them: a page opened anew starts anew and the    *)
(* display shows the page the keys act on, but for pages that went home in    *)
(* the call that opened them.                                                 *)
EXTENDS Menu, TLAPS

\* Between the dispatch and the end of the callback.
InPage == pc \in {"page", "show", "check", "leave"}

\* Only the page last left may have its flag set, the page just opened once
\* its start has run, and the pages that went home in their opening call.
OnlyLast ==
    \A n \in Leaves : init_flag[n] =>
        \/ n \in stranded
        \/ n = last_index /\ (InPage => ~entering)
        \/ n = func_index /\ entering /\ pc \in {"show", "check", "leave"}

\* The display shows this page, or one that went to it in its opening call.
Shows(n) == drawn = n \/ (n = Home /\ drawn \in stranded)

\* The display shows the last page until the callback of the next one ran.
Shown ==
    /\ pc \in Keys \cup {"dispatch", "page"} => Shows(last_index)
    /\ pc \in {"page", "show", "check"} /\ ~entering => func_index = last_index
    /\ pc = "check" => drawn = func_index
    /\ pc = "leave" => IF entering THEN Shows(func_index) ELSE Shows(last_index)

IInv == MenuTypeOK /\ OnlyLast /\ Shown

\* The inductive invariant holds from the start.
LEMMA InitInv == MenuInit => IInv
  BY MenuAssumption DEF MenuInit, IInv, MenuTypeOK, OnlyLast, Shown, Shows, InPage, Keys

\* Type correctness is preserved by every step of the menu.
LEMMA NextType == MenuTypeOK /\ [MenuNext]_menuVars => MenuTypeOK'
<1> SUFFICES ASSUME MenuTypeOK, [MenuNext]_menuVars PROVE MenuTypeOK'
  OBVIOUS
<1> USE MenuAssumption DEF MenuTypeOK
<1>1. ASSUME NEW k \in Keys, KeyRead(k) PROVE MenuTypeOK'
  BY <1>1 DEF KeyRead
<1>2. ASSUME NEW k \in Keys, KeyClear(k) PROVE MenuTypeOK'
  BY <1>2 DEF KeyClear, After, Keys
<1>3. ASSUME NEW k \in Keys, KeyUp(k) PROVE MenuTypeOK'
  BY <1>3 DEF KeyUp, After, Keys
<1>4. ASSUME Transition PROVE MenuTypeOK'
  BY <1>4 DEF Transition
<1>5. ASSUME Refresh PROVE MenuTypeOK'
  BY <1>5 DEF Refresh, Keys
<1>6. ASSUME PageStart PROVE MenuTypeOK'
  BY <1>6 DEF PageStart
<1>7. ASSUME PageStarted PROVE MenuTypeOK'
  BY <1>7 DEF PageStarted
<1>8. ASSUME PageShow PROVE MenuTypeOK'
  BY <1>8 DEF PageShow
<1>9. ASSUME PageCheck PROVE MenuTypeOK'
  BY <1>9 DEF PageCheck
<1>10. ASSUME PageLeave PROVE MenuTypeOK'
  BY <1>10 DEF PageLeave, LeftPage, Keys
<1>11. ASSUME NEW k \in Keys, KeyScan(k) PROVE MenuTypeOK'
  BY <1>11 DEF KeyScan
<1>12. ASSUME NEW p \in Tests, WorkOver(p) PROVE MenuTypeOK'
  BY <1>12 DEF WorkOver
<1>13. CASE UNCHANGED menuVars
  BY <1>13 DEF menuVars
<1> QED
  BY <1>1, <1>2, <1>3, <1>4, <1>5, <1>6, <1>7, <1>8, <1>9, <1>10, <1>11, <1>12,
     <1>13 DEF MenuNext, Menu

\* The flags: a transition clears the only one that was set.
LEMMA NextOnlyLast == IInv /\ [MenuNext]_menuVars => OnlyLast'
<1> SUFFICES ASSUME IInv, [MenuNext]_menuVars PROVE OnlyLast'
  OBVIOUS
<1> USE MenuAssumption DEF IInv, MenuTypeOK, OnlyLast, InPage, Keys
<1>1. ASSUME NEW k \in Keys, KeyRead(k) PROVE OnlyLast'
  BY <1>1 DEF KeyRead
<1>2. ASSUME NEW k \in Keys, KeyClear(k) PROVE OnlyLast'
  BY <1>2 DEF KeyClear, After
<1>3. ASSUME NEW k \in Keys, KeyUp(k) PROVE OnlyLast'
  BY <1>3 DEF KeyUp, After
<1>4. ASSUME Transition PROVE OnlyLast'
  BY <1>4 DEF Transition, Resets
<1>5. ASSUME Refresh PROVE OnlyLast'
  BY <1>5 DEF Refresh
<1>6. ASSUME PageStart PROVE OnlyLast'
  BY <1>6 DEF PageStart, Shown
<1>7. ASSUME PageStarted PROVE OnlyLast'
  BY <1>7 DEF PageStarted
<1>8. ASSUME PageShow PROVE OnlyLast'
  BY <1>8 DEF PageShow
<1>9. ASSUME PageCheck PROVE OnlyLast'
  BY <1>9 DEF PageCheck, Shown
<1>10. ASSUME PageLeave PROVE OnlyLast'
  BY <1>10 DEF PageLeave, LeftPage
<1>11. ASSUME NEW k \in Keys, KeyScan(k) PROVE OnlyLast'
  BY <1>11 DEF KeyScan
<1>12. ASSUME NEW p \in Tests, WorkOver(p) PROVE OnlyLast'
  BY <1>12 DEF WorkOver
<1>13. CASE UNCHANGED menuVars
  BY <1>13 DEF menuVars
<1> QED
  BY <1>1, <1>2, <1>3, <1>4, <1>5, <1>6, <1>7, <1>8, <1>9, <1>10, <1>11, <1>12,
     <1>13 DEF MenuNext, Menu

\* The display: what is shown is the last page, until the next one's callback.
LEMMA NextShown == IInv /\ [MenuNext]_menuVars => Shown'
<1> SUFFICES ASSUME IInv, [MenuNext]_menuVars PROVE Shown'
  OBVIOUS
<1> USE MenuAssumption DEF IInv, MenuTypeOK, Shown, Shows, Keys
<1>1. ASSUME NEW k \in Keys, KeyRead(k) PROVE Shown'
  BY <1>1 DEF KeyRead
<1>2. ASSUME NEW k \in Keys, KeyClear(k) PROVE Shown'
  BY <1>2 DEF KeyClear, After
<1>3. ASSUME NEW k \in Keys, KeyUp(k) PROVE Shown'
  BY <1>3 DEF KeyUp, After
<1>4. ASSUME Transition PROVE Shown'
  BY <1>4 DEF Transition
<1>5. ASSUME Refresh PROVE Shown'
  BY <1>5 DEF Refresh
<1>6. ASSUME PageStart PROVE Shown'
  BY <1>6 DEF PageStart
<1>7. ASSUME PageStarted PROVE Shown'
  BY <1>7 DEF PageStarted
<1>8. ASSUME PageShow PROVE Shown'
  BY <1>8 DEF PageShow
<1>9. ASSUME PageCheck PROVE Shown'
  BY <1>9 DEF PageCheck
<1>10. ASSUME PageLeave PROVE Shown'
  BY <1>10 DEF PageLeave, LeftPage
<1>11. ASSUME NEW k \in Keys, KeyScan(k) PROVE Shown'
  BY <1>11 DEF KeyScan
<1>12. ASSUME NEW p \in Tests, WorkOver(p) PROVE Shown'
  BY <1>12 DEF WorkOver
<1>13. CASE UNCHANGED menuVars
  BY <1>13 DEF menuVars
<1> QED
  BY <1>1, <1>2, <1>3, <1>4, <1>5, <1>6, <1>7, <1>8, <1>9, <1>10, <1>11, <1>12,
     <1>13 DEF MenuNext, Menu

\* The variables of the menu keep their types, whatever the test pages do.
THEOREM MenuTypeCorrect == MenuSpec => []MenuTypeOK
<1>1. MenuInit => MenuTypeOK
  BY InitInv DEF IInv
<1> QED
  BY <1>1, NextType, PTL DEF MenuSpec

\* The inductive invariant.
LEMMA MenuInvariant == MenuSpec => []IInv
<1>1. IInv /\ [MenuNext]_menuVars => IInv'
  BY NextType, NextOnlyLast, NextShown DEF IInv
<1> QED
  BY <1>1, InitInv, PTL DEF MenuSpec

\* A page opened anew starts anew (Menu.c:317-330), unless it once went home in
\* the call that opened it.
THEOREM MenuFreshEntry == MenuSpec => []FreshEntry
<1>1. IInv => FreshEntry
  BY DEF IInv, OnlyLast, FreshEntry, InPage
<1> QED
  BY <1>1, MenuInvariant, PTL

\* Between two calls the display shows the page the keys act on, or a page that
\* went home in the call that opened it.
THEOREM MenuScreenFollows == MenuSpec => []ScreenFollows
<1>1. IInv => ScreenFollows
  BY DEF IInv, Shown, Shows, Stale, ScreenFollows, Keys
<1> QED
  BY <1>1, MenuInvariant, PTL
==============================================================================
