-------------------------------- MODULE Menu --------------------------------
(* Menu.c: the table-driven menu. Menu() runs in the main loop: it takes the *)
(* keys, dispatches the page and clears the init flag of the page it left.   *)
(* key_scan and the work a test page waits for run in timer interrupts, so   *)
(* either may fall between any two steps of a call.                          *)
CONSTANTS
    Nodes,      \* menu_node_t without its sentinel MENU_COUNT
    Leaves,     \* the level 3 pages: not static, with a one-shot start
    Goes,       \* Goes[k][n]: the up, down and enter columns of the table
    Root,       \* MENU_ROOT
    Sentinel,   \* MENU_COUNT
    Home,       \* MENU_L1_D, where a finished test page goes
    Tests,      \* the pages that go there: D2, D3, D4 and D6
    DoneAtOnce  \* those whose work may be over within the call that opened them

Keys == {"up", "down", "enter"}

ASSUME MenuAssumption ==
    /\ Goes \in [Keys -> [Nodes -> Nodes]]
    /\ Leaves \subseteq Nodes /\ Tests \subseteq Leaves /\ DoneAtOnce \subseteq Tests
    /\ {Root, Home} \subseteq Nodes \ Leaves
    /\ Sentinel \notin Nodes

VARIABLES
    pc,         \* next step of Menu(); "up" is where a call begins
    key_taken,      \* key that was read and whose flag is still to be cleared
    entering,   \* the call under way found func_index changed
    func_index, last_index, init_flag,
    drawn,      \* page the display shows
    key,        \* keyN_flag
    over,       \* the work of a test page is over
    stranded    \* observation: pages that went home in the call that opened them

menuVars == <<pc, key_taken, entering, func_index, last_index, init_flag, drawn, key,
              over, stranded>>

---------------------------------------------------------------------------
(* Phase 1: the keys, in the order of the code.                             *)

\* Slip: a call that took the enter key returns before its dispatch.
AfterEnterReturn == [k \in Keys |-> CASE k = "up" -> "down" [] k = "down" -> "enter"
    [] k = "enter" -> IF key_taken = "enter" THEN "up" ELSE "dispatch"]

After == [k \in Keys |-> CASE k = "up" -> "down" [] k = "down" -> "enter"
                           [] k = "enter" -> "dispatch"]

KeyRead(k) ==
    /\ pc = k /\ key_taken = "none" /\ key[k]
    /\ func_index' = Goes[k][func_index]
    /\ key_taken' = k
    /\ UNCHANGED <<pc, entering, last_index, init_flag, drawn, key, over, stranded>>

\* keyN_clear; a press after KeyRead is lost with it.
KeyClear(k) ==
    /\ pc = k /\ key_taken = k
    /\ key' = [key EXCEPT ![k] = FALSE]
    /\ key_taken' = "none"
    /\ pc' = After[k]
    /\ UNCHANGED <<entering, func_index, last_index, init_flag, drawn, over, stranded>>

KeyUp(k) ==
    /\ pc = k /\ key_taken = "none" /\ ~key[k]
    /\ pc' = After[k]
    /\ UNCHANGED <<key_taken, entering, func_index, last_index, init_flag, drawn,
                   key, over, stranded>>

---------------------------------------------------------------------------
(* Phases 2 and 3: the dispatch, and the page's callback.                   *)

\* Slip: only the flag of a test page is reset.
ResetsTests(n) == n = last_index /\ n \in Tests

\* Is this the flag a transition resets?
Resets(n) == n = last_index

Transition ==
    /\ pc = "dispatch" /\ func_index # last_index
    /\ init_flag' = [n \in Leaves |-> init_flag[n] /\ ~Resets(n)]
    /\ entering' = TRUE
    /\ pc' = "page"
    /\ UNCHANGED <<key_taken, func_index, last_index, drawn, key, over, stranded>>

Refresh ==
    /\ pc = "dispatch" /\ func_index = last_index
    /\ pc' = IF func_index \in Leaves THEN "page" ELSE "up"
    /\ entering' = FALSE
    /\ UNCHANGED <<key_taken, func_index, last_index, init_flag, drawn, key, over,
                   stranded>>

\* The one-shot start of a level 3 page; the start of a test begins its work.
PageStart ==
    /\ pc = "page" /\ func_index \in Leaves /\ ~init_flag[func_index]
    /\ init_flag' = [init_flag EXCEPT ![func_index] = TRUE]
    /\ over' = [p \in Tests |-> over[p] /\ p # func_index]
    /\ pc' = "show"
    /\ UNCHANGED <<key_taken, entering, func_index, last_index, drawn, key, stranded>>

PageStarted ==
    /\ pc = "page"
    /\ func_index \in Leaves => init_flag[func_index]
    /\ pc' = "show"
    /\ UNCHANGED <<key_taken, entering, func_index, last_index, init_flag, drawn,
                   key, over, stranded>>

PageShow ==
    /\ pc = "show"
    /\ drawn' = func_index
    /\ pc' = "check"
    /\ UNCHANGED <<key_taken, entering, func_index, last_index, init_flag, key, over,
                   stranded>>

\* The end of a test page's callback: is_done, and back to the main menu. In
\* the call that opened the page, Menu then notes the main menu as the last
\* page: the flag of this one is not reset, the main menu is not drawn.
PageCheck ==
    LET goes == func_index \in Tests /\ over[func_index]
    IN /\ pc = "check"
       /\ func_index' = IF goes THEN Home ELSE func_index
       /\ stranded' = IF goes /\ entering THEN stranded \cup {func_index}
                      ELSE stranded
       /\ pc' = "leave"
       /\ UNCHANGED <<key_taken, entering, last_index, init_flag, drawn, key, over>>

\* Slip: the page is noted after a refresh, too.
LeftAlways == func_index

\* What Menu() takes down as the last page.
LeftPage == IF entering THEN func_index ELSE last_index

PageLeave ==
    /\ pc = "leave"
    /\ last_index' = LeftPage
    /\ entering' = FALSE
    /\ pc' = "up"
    /\ UNCHANGED <<key_taken, func_index, init_flag, drawn, key, over,
                   stranded>>

Menu == \/ \E k \in Keys : KeyRead(k) \/ KeyClear(k) \/ KeyUp(k)
        \/ Transition \/ Refresh \/ PageStart \/ PageStarted \/ PageShow
        \/ PageCheck \/ PageLeave

---------------------------------------------------------------------------
(* The interrupts.                                                          *)

\* key_scan sees a key released.
KeyScan(k) ==
    /\ ~key[k]
    /\ key' = [key EXCEPT ![k] = TRUE]
    /\ UNCHANGED <<pc, key_taken, entering, func_index, last_index, init_flag, drawn,
                   over, stranded>>

\* The work of test p ends: by itself, or by remote_ctrl_force_stop, which may
\* fall into the very call that started it.
WorkOver(p) ==
    /\ init_flag[p] /\ ~over[p]
    /\ entering /\ pc \in {"show", "check"} /\ p = func_index => p \in DoneAtOnce
    /\ over' = [over EXCEPT ![p] = TRUE]
    /\ UNCHANGED <<pc, key_taken, entering, func_index, last_index, init_flag, drawn,
                   key, stranded>>

MenuInit ==
    /\ pc = "up" /\ key_taken = "none" /\ entering = FALSE
    /\ func_index = Root /\ last_index = Sentinel
    /\ init_flag = [n \in Leaves |-> FALSE]
    /\ drawn = Sentinel
    /\ key = [k \in Keys |-> FALSE]
    /\ over = [p \in Tests |-> FALSE]
    /\ stranded = {}

MenuNext == Menu \/ (\E k \in Keys : KeyScan(k)) \/ (\E p \in Tests : WorkOver(p))

MenuSpec == MenuInit /\ [][MenuNext]_menuVars

\* The main loop runs for ever.
MenuFairSpec == MenuSpec /\ WF_menuVars(Menu)

---------------------------------------------------------------------------
\* Type correctness of the menu.
MenuTypeOK ==
    /\ pc \in Keys \cup {"dispatch", "page", "show", "check", "leave"}
    /\ key_taken \in Keys \cup {"none"} /\ entering \in BOOLEAN
    /\ func_index \in Nodes /\ last_index \in Nodes \cup {Sentinel}
    /\ init_flag \in [Leaves -> BOOLEAN] /\ drawn \in Nodes \cup {Sentinel}
    /\ key \in [Keys -> BOOLEAN] /\ over \in [Tests -> BOOLEAN]
    /\ stranded \subseteq Tests

\* A page that is opened anew starts anew: its callback finds its init flag
\* cleared, whatever keys were pressed and whatever pages went home by
\* themselves since its last visit (Menu.c:317-330). The exception is a page
\* that once went home in the very call that opened it.
FreshEntry ==
    pc = "page" /\ entering /\ func_index \in Leaves =>
        ~init_flag[func_index] \/ func_index \in stranded

\* The display still shows a page that went home in the call that opened it.
Stale == func_index = Home /\ drawn \in stranded

\* Between two calls the display shows the page the keys act on, or the next
\* call will redraw it (Menu.c:317-341, static pages are drawn once), unless
\* the page it shows went home in the call that opened it.
ScreenFollows == pc = "up" /\ key_taken = "none" /\ func_index = last_index
                 => drawn = func_index \/ Stale

\* The display catches up with every key, and with every page that goes home by
\* itself in a later call than the one that opened it.
DisplayCatchesUp == func_index # drawn ~> func_index = drawn \/ Stale
=============================================================================
