------------------------------ MODULE OledTask ------------------------------
(***************************************************************************)
(* The OLED thread (OledTaskEntry in Oled1309.c with the pages of          *)
(* OledPage.c) and the three button call_backs, which run in the button    *)
(* thread.  They share pageInfor, pageSelect, reflash_flag and the         *)
(* backlight without a lock, and pageInfor also with the UART thread.      *)
(*                                                                         *)
(* The UART thread preempts both others at any instruction, the OLED       *)
(* thread preempts the button thread at any instruction, and a button      *)
(* call_back advances only while the OLED thread sleeps.  The build does   *)
(* not optimize: a read-modify-write is a load and a store, each a step.   *)
(* A register that is not read any more is cleared.                        *)
(***************************************************************************)
EXTENDS Common

CONSTANTS
    T1s,           \* 20: touchTime of the 1 s timer
    BacklightMax,  \* 60: 1 s ticks without a press before the light goes out
    UartPops       \* TRUE: the UART thread may leave a page of its own accord

ASSUME OledAssumption ==
    /\ T1s \in Nat \ {0} /\ BacklightMax \in Nat \ {0}
    /\ UartPops \in BOOLEAN

VARIABLES
    pageInfor, select,                    \* shared with the UART thread
    ctrlNew,                              \* module_info.ctrl differs from the copy
    pageSelect,                           \* [cusor_home, cusor_max, cusor, select]
    reflash_flag, backlightTime, light,   \* shared by pages and call_backs
    opc, nowPagePre, time1S,              \* the OLED thread
    oreg,                                 \* its register, a loaded pageInfor
    bpc, bval, breg,                      \* the button thread and its registers
    screen,                               \* the home page: not drawn, or drawn with
                                          \* the current or with old values
    posted                                \* event this step posts

uartVars   == <<select, ctrlNew>>
lightVars  == <<backlightTime, light>>
loopVars   == <<nowPagePre, time1S>>
buttonVars == <<bpc, bval, breg>>

vars == <<pageInfor, uartVars, pageSelect, reflash_flag, lightVars, opc, loopVars, oreg,
          buttonVars, screen, posted>>

NoPage == 255   \* 0xFF: nothing drawn yet
NoPost == "none"
Bottom == <<0, 0, 0, HOME_PAGE>>

nowPage == pageInfor[4]

(* The bitwise or of two page numbers, which are below 8.                  *)
Or(a, b) ==
    LET bit(i) == IF (a \div i) % 2 = 1 \/ (b \div i) % 2 = 1 THEN i ELSE 0
    IN  bit(4) + bit(2) + bit(1)

SendPages == {ONEKEY_MATCH_PAGE, LEARN_ON_PAGE, LEARN_OFF_PAGE}

(* setinfraredEvent; what does not call it is silent.                      *)
Posts(e) == posted' = e
Silent   == posted' = NoPost

OledInit ==
    /\ pageInfor = Bottom
    /\ select \in {"MATCH", "LEARN"} /\ ctrlNew \in BOOLEAN
    /\ pageSelect = [cusor_home |-> 0, cusor_max |-> 0, cusor |-> 0, select |-> FALSE]
    /\ reflash_flag = FALSE /\ backlightTime = 0 /\ light = FALSE
    /\ opc = "start" /\ nowPagePre = NoPage /\ time1S = 0
    /\ oreg = Bottom
    /\ bpc = "idle" /\ bval = 0 /\ breg = Bottom
    /\ screen = "none"
    /\ posted = NoPost

-----------------------------------------------------------------------------
(* The OLED thread.                                                        *)

(* The display is initialized; the home page, the light on.                *)
Start ==
    /\ opc = "start" /\ opc' = "look"
    /\ pageInfor' = Shl(pageInfor)
    /\ backlightTime' = 0 /\ light' = TRUE
    /\ Silent
    /\ UNCHANGED <<uartVars, pageSelect, reflash_flag, loopVars, oreg, buttonVars, screen>>

(* pageSelectSet, and the pages that use it; the others keep the cursor of *)
(* the page before.                                                        *)
CursorSet(max, cusor) ==
    [cusor_home |-> 1, cusor_max |-> max, cusor |-> cusor, select |-> pageSelect.select]

pageSetting(page) ==
    pageSelect' =
        IF page = HOME_PAGE THEN CursorSet(1, 1)
        ELSE IF page = SETTING_PAGE THEN CursorSet(4, 1)
        ELSE IF page \in {LEARN_MODE_PAGE, TEST_PAGE} THEN CursorSet(2, 1)
        ELSE IF page = SELECT_MODE_PAGE THEN CursorSet(2, IF select = "MATCH" THEN 1 ELSE 2)
        ELSE pageSelect

(* Head of the loop: a page not shown yet is set up and drawn, the old one *)
(* is drawn again if asked for.                                            *)
Look ==
    /\ opc = "look"
    /\ time1S' = TimerTask(time1S, T1s)
    /\ \/ /\ nowPagePre # nowPage
          /\ nowPagePre' = nowPage
          /\ pageSetting(nowPage)
          /\ opc' = "program"
       \/ /\ nowPagePre = nowPage
          /\ opc' = IF reflash_flag THEN "program" ELSE "tail"
          /\ UNCHANGED <<nowPagePre, pageSelect>>
    /\ Silent
    /\ UNCHANGED <<pageInfor, uartVars, reflash_flag, lightVars, oreg, buttonVars,
                   screen>>

(* Mutant: learn on opens the learn page again.                            *)
Items_Twice(page) ==
    IF page = HOME_PAGE THEN <<SETTING_PAGE>>
    ELSE IF page = SETTING_PAGE
         THEN <<SELECT_MODE_PAGE, ONEKEY_MATCH_PAGE, LEARN_MODE_PAGE, TEST_PAGE>>
    ELSE IF page = LEARN_MODE_PAGE THEN <<LEARN_MODE_PAGE, LEARN_OFF_PAGE>>
    ELSE <<>>

(* The pages behind the items of the page drawn.                           *)
Items(page) ==
    IF page = HOME_PAGE THEN <<SETTING_PAGE>>
    ELSE IF page = SETTING_PAGE
         THEN <<SELECT_MODE_PAGE, ONEKEY_MATCH_PAGE, LEARN_MODE_PAGE, TEST_PAGE>>
    ELSE IF page = LEARN_MODE_PAGE THEN <<LEARN_ON_PAGE, LEARN_OFF_PAGE>>
    ELSE <<>>

Item == Items(nowPagePre)[pageSelect.cusor]

Consumed == [pageSelect EXCEPT !.select = FALSE]

(* pageProgram is over: back in the loop.                                  *)
PageDone == opc' = "tail" /\ reflash_flag' = FALSE

(* HomePage, SettingPage and learnPage: draw, then open the chosen item:   *)
(* load pageInfor for the shift.                                           *)
MenuPage ==
    /\ nowPagePre \in {HOME_PAGE, SETTING_PAGE, LEARN_MODE_PAGE}
    /\ \/ /\ pageSelect.select /\ pageSelect.cusor \in DOMAIN Items(nowPagePre)
          /\ oreg' = pageInfor
          /\ opc' = "shift"
          /\ UNCHANGED <<pageSelect, reflash_flag>>
       \/ /\ ~(pageSelect.select /\ pageSelect.cusor \in DOMAIN Items(nowPagePre))
          /\ pageSelect' = Consumed
          /\ PageDone /\ UNCHANGED oreg
    /\ Silent
    /\ UNCHANGED select

(* oneKeyMatchPage, learnOnPage and learnOffPage post their event whenever *)
(* they are drawn, and leave pageSelect.select as it is.                   *)
SendPage ==
    /\ \/ nowPagePre = ONEKEY_MATCH_PAGE /\ Posts("SEND_MATCH")
       \/ nowPagePre = LEARN_ON_PAGE /\ Posts("SEND_LEARN_MODE_ON")
       \/ nowPagePre = LEARN_OFF_PAGE /\ Posts("SEND_LEARN_MODE_OFF")
    /\ PageDone /\ UNCHANGED <<select, pageSelect, oreg>>

(* The chosen mode is taken and the page left: load pageInfor for that.    *)
selectModePage ==
    /\ nowPagePre = SELECT_MODE_PAGE
    /\ \/ /\ pageSelect.select
          /\ select' = IF pageSelect.cusor = 1 THEN "MATCH"
                       ELSE IF pageSelect.cusor = 2 THEN "LEARN" ELSE select
          /\ oreg' = pageInfor
          /\ opc' = "return" /\ UNCHANGED reflash_flag
       \/ /\ ~pageSelect.select
          /\ PageDone /\ UNCHANGED <<select, oreg>>
    /\ Silent
    /\ UNCHANGED pageSelect

testPage ==
    /\ nowPagePre = TEST_PAGE
    /\ \/ pageSelect.select /\ pageSelect.cusor = 1 /\ Posts("SEND_ON_TEST")
       \/ pageSelect.select /\ pageSelect.cusor = 2 /\ Posts("SEND_OFF_TEST")
       \/ ~(pageSelect.select /\ pageSelect.cusor \in {1, 2}) /\ Silent
    /\ pageSelect' = Consumed
    /\ PageDone /\ UNCHANGED <<select, oreg>>

(* pageProgram on the page found at the head of the loop.                  *)
Program ==
    /\ opc = "program"
    /\ MenuPage \/ SendPage \/ selectModePage \/ testPage
    /\ screen' = IF nowPagePre = HOME_PAGE THEN "current" ELSE "none"
    /\ UNCHANGED <<pageInfor, ctrlNew, lightVars, loopVars, buttonVars>>

(* pageInfor <<= 8 is stored ...                                           *)
Shift ==
    /\ opc = "shift" /\ opc' = "load"
    /\ pageInfor' = Shl(oreg)
    /\ Silent
    /\ UNCHANGED <<uartVars, pageSelect, reflash_flag, lightVars, loopVars, oreg, buttonVars,
                   screen>>

(* ... loaded again ...                                                    *)
Load ==
    /\ opc = "load" /\ opc' = "or"
    /\ oreg' = pageInfor
    /\ Silent
    /\ UNCHANGED <<pageInfor, uartVars, pageSelect, reflash_flag, lightVars, loopVars,
                   buttonVars, screen>>

(* ... and stored with the item in its low byte.                           *)
OrItem ==
    /\ opc = "or"
    /\ pageInfor' = [oreg EXCEPT ![4] = Or(@, Item)]
    /\ oreg' = Bottom
    /\ pageSelect' = Consumed
    /\ PageDone
    /\ Silent
    /\ UNCHANGED <<uartVars, lightVars, loopVars, buttonVars, screen>>

(* selectModePage's pageReturn is stored.                                  *)
Return ==
    /\ opc = "return"
    /\ pageInfor' = Shr(oreg)
    /\ oreg' = Bottom
    /\ pageSelect' = Consumed
    /\ PageDone
    /\ Silent
    /\ UNCHANGED <<uartVars, lightVars, loopVars, buttonVars, screen>>

(* Mutant: the time is counted on.                                         *)
monitorBackLight_NoCap ==
    /\ backlightTime' = backlightTime + 1
    /\ light' = (light /\ backlightTime < BacklightMax)

(* Mutant: the time starts again when it is over.                          *)
monitorBackLight_Restart ==
    /\ backlightTime' = TimerTask(backlightTime, BacklightMax)
    /\ light' = (light /\ backlightTime < BacklightMax)

(* Mutant: the time never exceeds the bound it is compared with.           *)
monitorBackLight_Never ==
    /\ backlightTime' = IF backlightTime < BacklightMax THEN backlightTime + 1
                                                        ELSE backlightTime
    /\ light' = (light /\ backlightTime <= BacklightMax)

(* The light goes out after BacklightMax ticks without a short press.      *)
monitorBackLight ==
    /\ backlightTime' = IF backlightTime < BacklightMax THEN backlightTime + 1
                                                        ELSE backlightTime
    /\ light' = (light /\ backlightTime < BacklightMax)

(* Mutant: the home page is drawn again only when ctrl changes.            *)
TickRefreshes_NoHome == nowPagePre = SELECT_MODE_PAGE

TickRefreshes == nowPagePre \in {SELECT_MODE_PAGE, HOME_PAGE}

(* Tail of the loop: a changed command or a tick asks for a new drawing,   *)
(* then the thread sleeps.                                                 *)
LoopEnd ==
    /\ opc = "tail" /\ opc' = "sleep"
    /\ ctrlNew' = FALSE
    /\ reflash_flag' = (reflash_flag \/ ctrlNew \/ (Touched(time1S) /\ TickRefreshes))
    /\ IF Touched(time1S) THEN monitorBackLight ELSE UNCHANGED lightVars
    /\ Silent
    /\ UNCHANGED <<pageInfor, select, pageSelect, loopVars, oreg, buttonVars,
                   screen>>

Wake ==
    /\ opc = "sleep" /\ opc' = "look"
    /\ Silent
    /\ UNCHANGED <<pageInfor, uartVars, pageSelect, reflash_flag, lightVars, loopVars, oreg,
                   buttonVars, screen>>

-----------------------------------------------------------------------------
(* The button call_backs.                                                  *)
Sleeping == opc \in {"start", "sleep"}

(* A short press: wakeUpOledBackLight resets the time, then switches on.   *)
ShortPress(key) ==
    /\ Sleeping /\ bpc = "idle" /\ bpc' = key
    /\ backlightTime' = 0
    /\ Silent
    /\ UNCHANGED <<pageInfor, uartVars, pageSelect, reflash_flag, light, opc, loopVars, oreg,
                   bval, breg, screen>>

ButtonFrame ==
    /\ Sleeping
    /\ UNCHANGED <<uartVars, opc, loopVars, oreg, screen>>

(* Enter: pageSelect.select = YES.  Up, Down: load the cursor to compare.  *)
LightOn ==
    /\ light' = TRUE
    /\ \/ bpc = "enter" /\ bpc' = "select" /\ UNCHANGED bval
       \/ bpc = "up" /\ bpc' = "upCompare" /\ bval' = pageSelect.cusor
       \/ /\ bpc = "down" /\ pageSelect.cusor_max > 0
          /\ bpc' = "downCompare" /\ bval' = pageSelect.cusor
       \/ /\ bpc = "down" /\ pageSelect.cusor_max = 0
          /\ bpc' = "reflash" /\ UNCHANGED bval
    /\ Silent
    /\ UNCHANGED <<pageInfor, pageSelect, reflash_flag, backlightTime, breg>>

EnterSelect ==
    /\ bpc = "select" /\ bpc' = "reflash"
    /\ pageSelect' = [pageSelect EXCEPT !.select = TRUE]
    /\ Silent
    /\ UNCHANGED <<pageInfor, reflash_flag, lightVars, bval, breg>>

(* Compare, then load what is to be changed or copied: the cursor itself   *)
(* or the other end of the menu.                                           *)
UpCompare ==
    /\ bpc = "upCompare"
    /\ bpc' = IF bval > pageSelect.cusor_home THEN "upLoad" ELSE "upWrap"
    /\ bval' = 0
    /\ Silent
    /\ UNCHANGED <<pageInfor, pageSelect, reflash_flag, lightVars, breg>>

(* Mutant: one item too many.                                              *)
DownCompare_OneMore ==
    /\ bpc = "downCompare"
    /\ bpc' = IF bval <= pageSelect.cusor_max THEN "downLoad" ELSE "downWrap"
    /\ bval' = 0
    /\ Silent
    /\ UNCHANGED <<pageInfor, pageSelect, reflash_flag, lightVars, breg>>

DownCompare ==
    /\ bpc = "downCompare"
    /\ bpc' = IF bval < pageSelect.cusor_max THEN "downLoad" ELSE "downWrap"
    /\ bval' = 0
    /\ Silent
    /\ UNCHANGED <<pageInfor, pageSelect, reflash_flag, lightVars, breg>>

CursorLoad ==
    /\ bpc' = "store"
    /\ \/ bpc = "upLoad" /\ bval' = (pageSelect.cusor + 255) % 256
       \/ bpc = "downLoad" /\ bval' = (pageSelect.cusor + 1) % 256
       \/ bpc = "upWrap" /\ bval' = pageSelect.cusor_max
       \/ bpc = "downWrap" /\ bval' = pageSelect.cusor_home
    /\ Silent
    /\ UNCHANGED <<pageInfor, pageSelect, reflash_flag, lightVars, breg>>

CursorStore ==
    /\ bpc = "store" /\ bpc' = "reflash"
    /\ pageSelect' = [pageSelect EXCEPT !.cusor = bval]
    /\ bval' = 0
    /\ Silent
    /\ UNCHANGED <<pageInfor, reflash_flag, lightVars, breg>>

Reflash ==
    /\ bpc = "reflash" /\ bpc' = "idle"
    /\ reflash_flag' = TRUE
    /\ Silent
    /\ UNCHANGED <<pageInfor, pageSelect, lightVars, bval, breg>>

(* A long press of Enter leaves the page: it reads which, ...              *)
LongEnter ==
    /\ bpc = "idle" /\ bpc' = "over"
    /\ bval' = nowPage
    /\ Silent
    /\ UNCHANGED <<pageInfor, pageSelect, reflash_flag, lightVars, breg>>

(* ... ends the sending of a match or learn page, ...                      *)
LeaveOver ==
    /\ bpc = "over" /\ bpc' = "leaveLoad"
    /\ \/ bval = ONEKEY_MATCH_PAGE /\ Posts("SEND_MATCH_OVER")
       \/ bval = LEARN_ON_PAGE /\ Posts("SEND_LEARN_ON_OVER")
       \/ bval = LEARN_OFF_PAGE /\ Posts("SEND_LEARN_OFF_OVER")
       \/ bval \notin SendPages /\ Silent
    /\ bval' = 0
    /\ UNCHANGED <<pageInfor, pageSelect, reflash_flag, lightVars, breg>>

(* ... and drops the page: pageInfor is loaded ...                         *)
LeaveLoad ==
    /\ bpc = "leaveLoad" /\ bpc' = "leaveStore"
    /\ breg' = pageInfor
    /\ Silent
    /\ UNCHANGED <<pageInfor, pageSelect, reflash_flag, lightVars, bval>>

(* ... and stored.                                                         *)
LeaveStore ==
    /\ bpc = "leaveStore" /\ bpc' = "idle"
    /\ pageInfor' = Shr(breg)
    /\ breg' = Bottom
    /\ Silent
    /\ UNCHANGED <<pageSelect, reflash_flag, lightVars, bval>>

-----------------------------------------------------------------------------
(* The UART thread, as far as the pages can tell: it leaves a page when a  *)
(* save is confirmed or a learning times out, and changes what they read.  *)
UartReturn ==
    /\ UartPops
    /\ pageInfor' = Shr(pageInfor)
    /\ Silent
    /\ UNCHANGED <<uartVars, pageSelect, reflash_flag, lightVars, opc, loopVars, oreg,
                   buttonVars, screen>>

(* module_info.ctrl is written, to another value or to the one copied.     *)
UartCtrl(differs) ==
    /\ ctrlNew' = differs
    /\ Silent
    /\ UNCHANGED <<pageInfor, select, pageSelect, reflash_flag, lightVars, opc, loopVars,
                   oreg, buttonVars, screen>>

(* What getSwitchState and getNowTemp return changes.                      *)
UartShow ==
    /\ screen' = IF screen = "current" THEN "old" ELSE screen
    /\ Silent
    /\ UNCHANGED <<pageInfor, uartVars, pageSelect, reflash_flag, lightVars, opc, loopVars,
                   oreg, buttonVars>>

-----------------------------------------------------------------------------
OledStep ==
    Start \/ Look \/ Program \/ Shift \/ Load \/ OrItem \/ Return \/ LoopEnd \/ Wake

ButtonStep ==
    \/ \E key \in {"enter", "up", "down"} : ShortPress(key)
    \/ /\ \/ LightOn \/ EnterSelect \/ UpCompare \/ DownCompare \/ CursorLoad \/ CursorStore
          \/ Reflash \/ LongEnter \/ LeaveOver \/ LeaveLoad \/ LeaveStore
       /\ ButtonFrame

UartEffect == UartReturn \/ (\E differs \in BOOLEAN : UartCtrl(differs)) \/ UartShow

OledNext == OledStep \/ ButtonStep \/ UartEffect

OledSpec == OledInit /\ [][OledNext]_vars

(* The UART thread sleeps in every iteration, so the OLED thread always    *)
(* gets on.  Nothing is assumed of the user.                               *)
FairOledSpec == OledSpec /\ WF_vars(OledStep)

-----------------------------------------------------------------------------
(* TypeOK: every variable keeps its range, however the threads interleave; *)
(* only PanelEvents, which the UART thread counts on, are posted.          *)
TypeOK ==
    /\ pageInfor \in Stack /\ oreg \in Stack /\ breg \in Stack
    /\ select \in {"MATCH", "LEARN"} /\ ctrlNew \in BOOLEAN
    /\ pageSelect \in [cusor_home : u8, cusor_max : u8, cusor : u8, select : BOOLEAN]
    /\ reflash_flag \in BOOLEAN /\ backlightTime \in 0 .. BacklightMax /\ light \in BOOLEAN
    /\ opc \in {"start", "look", "program", "shift", "load", "or", "return", "tail", "sleep"}
    /\ nowPagePre \in Pages \cup {NoPage} /\ time1S \in 0 .. T1s
    /\ bpc \in {"idle", "enter", "up", "down", "select", "upCompare", "downCompare", "upLoad",
                "downLoad", "upWrap", "downWrap", "store", "reflash", "over", "leaveLoad",
                "leaveStore"}
    /\ bval \in u8 /\ screen \in {"none", "current", "old"}
    /\ posted \in PanelEvents \cup {NoPost}

(* StackFits: the four bytes of pageInfor hold every path through the      *)
(* pages: no shift ever loses a page, although a push can be torn by the   *)
(* UART thread and put a page where it does not belong.                    *)
StackFits == pageInfor[1] = 0 /\ oreg[1] = 0

(* MenuInBounds: SettingPage indexes its four names by the cursor; however *)
(* a cursor movement races with a change of page, it stays within them.    *)
MenuInBounds == pageSelect.cusor <= 4

(* DarkMeansIdle: the light is off only if the time has run out, or a      *)
(* press is about to switch it on.                                         *)
DarkMeansIdle ==
    ~light => \/ backlightTime = BacklightMax
              \/ bpc \in {"enter", "up", "down"}
              \/ opc = "start"

(* LightGoesOut: without short presses the light goes out for good.        *)
LightGoesOut == <>[](bpc = "idle") => <>[]~light

(* HomeCurrent: as long as the home page stays open, it is drawn with the  *)
(* values the UART thread set last, again and again: those change up to a  *)
(* second after module_info.ctrl, whose change asks for a drawing too.     *)
HomeCurrent == <>[](nowPage = HOME_PAGE) => []<>(screen = "current")
=============================================================================
