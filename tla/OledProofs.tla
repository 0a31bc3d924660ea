----------------------------- MODULE OledProofs -----------------------------
(***************************************************************************)
(* Proofs about the OLED thread and the button call_backs: however they    *)
(* and the UART thread interleave, the page stack fits its four bytes, the *)
(* cursor stays on the menu and the light is off only when it should be.   *)
(***************************************************************************)
EXTENDS OledTask, TLAPS

(* A stack between two pages: a page that opens another has room for it,   *)
(* whatever was lost below.                                                *)
Fits(s) ==
    /\ s[1] = 0
    /\ s[4] \in {HOME_PAGE, SETTING_PAGE} => s[2] = 0 /\ s[3] = 0
    /\ s[4] = LEARN_MODE_PAGE => s[2] = 0
    /\ s[3] \in {HOME_PAGE, SETTING_PAGE} => s[2] = 0

MenuPages == {HOME_PAGE, SETTING_PAGE, LEARN_MODE_PAGE}

(* A stack the menu page can push an item on: that of the page itself, or  *)
(* what the UART thread has left of it.                                    *)
Ready(page, s) ==
    /\ Fits(s)
    /\ page \in MenuPages =>
          /\ s[2] = 0
          /\ page = SETTING_PAGE => s[3] = 0
          /\ page = HOME_PAGE => s[3] = 0 /\ s[4] = 0

(* A shifted stack, or what the UART thread has left of it: the low byte   *)
(* is free, or holds a page that is about to be mixed with the item.       *)
Shifted(page, s) ==
    /\ s[1] = 0
    /\ s[3] \in {HOME_PAGE, SETTING_PAGE} => s[2] = 0
    /\ page = SETTING_PAGE => s[2] = 0
    /\ page = HOME_PAGE => s[2] = 0 /\ s[3] = 0 /\ s[4] = 0

(* The stacks, and the item that is being pushed.                          *)
StackInv ==
    /\ opc = "start" => pageInfor = Bottom /\ breg = Bottom
    /\ opc \in {"look", "tail", "sleep", "return"} => Fits(pageInfor)
    /\ opc \in {"program", "shift"} => Ready(nowPagePre, pageInfor)
    /\ opc \in {"shift", "load"} => Ready(nowPagePre, oreg)
    /\ opc \in {"load", "or"} => Shifted(nowPagePre, pageInfor)
    /\ opc = "or" => Shifted(nowPagePre, oreg)
    /\ opc = "return" => Fits(oreg)
    /\ opc \in {"start", "look", "program", "tail", "sleep"} => oreg = Bottom
    /\ Fits(breg)
    /\ opc \in {"shift", "load", "or"} =>
          nowPagePre \in MenuPages /\ pageSelect.cusor \in DOMAIN Items(nowPagePre)
    /\ opc \in {"program", "return"} => nowPagePre \in Pages

(* The cursor: what a call_back holds is of the menu on the screen or of   *)
(* the one before, whose successor starts at its first or second item.     *)
CursorInv ==
    /\ pageSelect.cusor <= 4 /\ pageSelect.cusor_max <= 4 /\ pageSelect.cusor_home <= 1
    /\ bpc \in {"upCompare", "downCompare"} =>
          bval <= 4 /\ (bval = pageSelect.cusor \/ pageSelect.cusor \in {1, 2})
    /\ bpc = "upLoad" => pageSelect.cusor >= 1
    /\ bpc = "downLoad" => pageSelect.cusor < 4
    /\ bpc = "store" => bval <= 4

OledInv == TypeOK /\ StackInv /\ CursorInv /\ DarkMeansIdle

-----------------------------------------------------------------------------
(* Stacks.                                                                 *)

LEMMA ShrStack ==
    ASSUME NEW s \in Stack
    PROVE  /\ Shr(s) \in Stack
           /\ Shr(s)[1] = 0 /\ Shr(s)[2] = s[1] /\ Shr(s)[3] = s[2] /\ Shr(s)[4] = s[3]
  BY DEF Shr, Stack, Pages, HOME_PAGE, TEST_PAGE

LEMMA ShlStack ==
    ASSUME NEW s \in Stack
    PROVE  /\ Shl(s) \in Stack
           /\ Shl(s)[1] = s[2] /\ Shl(s)[2] = s[3] /\ Shl(s)[3] = s[4] /\ Shl(s)[4] = 0
  BY DEF Shl, Stack, Pages, HOME_PAGE, TEST_PAGE

LEMMA BottomStack ==
    /\ Bottom \in Stack /\ Fits(Bottom) /\ Shl(Bottom) = Bottom /\ Shr(Bottom) = Bottom
    /\ Bottom[1] = 0
  BY DEF Bottom, Stack, Fits, Shl, Shr, Pages, HOME_PAGE, TEST_PAGE, SETTING_PAGE

(* Leaving a page, complete or in the middle of a push.                    *)
LEMMA ShrFits == ASSUME NEW s \in Stack, Fits(s) PROVE Fits(Shr(s))
  BY ShrStack DEF Fits, HOME_PAGE, SETTING_PAGE, LEARN_MODE_PAGE

LEMMA ShrReady ==
    ASSUME NEW s \in Stack, NEW page, Ready(page, s) PROVE Ready(page, Shr(s))
  BY ShrStack, ShrFits DEF Ready, Fits

LEMMA ShrShifted ==
    ASSUME NEW s \in Stack, NEW page, Shifted(page, s) PROVE Shifted(page, Shr(s))
  BY ShrStack DEF Shifted

(* Opening one.                                                            *)
LEMMA FitsReady ==
    ASSUME NEW s \in Stack, Fits(s) PROVE Ready(s[4], s)
  BY DEF Ready, Fits, MenuPages, HOME_PAGE, SETTING_PAGE, LEARN_MODE_PAGE

LEMMA ShlShifted ==
    ASSUME NEW s \in Stack, NEW page \in MenuPages, Ready(page, s)
    PROVE  Shifted(page, Shl(s))
  BY ShlStack DEF Ready, Shifted, Fits, HOME_PAGE, SETTING_PAGE, LEARN_MODE_PAGE

LEMMA OrPages ==
    ASSUME NEW a \in Pages, NEW b \in Pages
    PROVE  /\ Or(a, b) \in Pages
           /\ a = 0 => Or(a, b) = b
           /\ b \in {2, 3, 5, 6, 7} => Or(a, b) \notin {0, 1, 4}
           /\ b = 4 => Or(a, b) \notin {0, 1}
  BY SMT DEF Or, Pages, HOME_PAGE, TEST_PAGE

(* The item a menu page opens.                                             *)
LEMMA ItemPages ==
    ASSUME NEW page \in MenuPages, NEW n \in DOMAIN Items(page)
    PROVE  /\ Items(page)[n] \in Pages
           /\ page = HOME_PAGE => Items(page)[n] = SETTING_PAGE
           /\ page = SETTING_PAGE => Items(page)[n] \in {2, 3, 4, 7}
           /\ page = LEARN_MODE_PAGE => Items(page)[n] \in {5, 6}
  BY DEF MenuPages, Items, Pages, HOME_PAGE, SETTING_PAGE, ONEKEY_MATCH_PAGE,
         SELECT_MODE_PAGE, LEARN_MODE_PAGE, LEARN_ON_PAGE, LEARN_OFF_PAGE, TEST_PAGE

Pushed(s, item) == [s EXCEPT ![4] = Or(@, item)]

LEMMA PushedFits ==
    ASSUME NEW s \in Stack, NEW page \in MenuPages, NEW n \in DOMAIN Items(page),
           Shifted(page, s)
    PROVE  Pushed(s, Items(page)[n]) \in Stack /\ Fits(Pushed(s, Items(page)[n]))
  <1> DEFINE item == Items(page)[n]
             t == Pushed(s, item)
  <1>1. s[4] \in Pages /\ item \in Pages
    BY ItemPages DEF Stack
  <1>2. t \in Stack /\ t[1] = s[1] /\ t[2] = s[2] /\ t[3] = s[3] /\ t[4] = Or(s[4], item)
    BY <1>1, OrPages DEF Pushed, Stack
  <1>3. /\ page = HOME_PAGE => t[4] = 1
        /\ page = SETTING_PAGE => t[4] \notin {0, 1}
        /\ page = LEARN_MODE_PAGE => t[4] \notin {0, 1, 4}
    <2> HIDE DEF t, item
    <2>1. item \in Pages
          /\ (page = HOME_PAGE => item = SETTING_PAGE)
          /\ (page = SETTING_PAGE => item \in {2, 3, 4, 7})
          /\ (page = LEARN_MODE_PAGE => item \in {5, 6})
      BY ItemPages DEF item
    <2>2. page = HOME_PAGE => s[4] = 0
      BY DEF Shifted
    <2>3. QED
      BY <1>1, <1>2, <2>1, <2>2, OrPages DEF SETTING_PAGE
  <1> HIDE DEF t, item
  <1>4. Fits(t)
    BY <1>2, <1>3
       DEF Shifted, Fits, MenuPages, HOME_PAGE, SETTING_PAGE, LEARN_MODE_PAGE
  <1>5. QED
    BY <1>2, <1>4 DEF t, item
-----------------------------------------------------------------------------
(* Types, one lemma per group of variables: who writes them, and what.     *)

StackType == pageInfor \in Stack /\ oreg \in Stack /\ breg \in Stack

SelectType ==
    /\ pageSelect \in [cusor_home : u8, cusor_max : u8, cusor : u8, select : BOOLEAN]
    /\ bval \in u8

LoopType ==
    /\ select \in {"MATCH", "LEARN"} /\ ctrlNew \in BOOLEAN /\ reflash_flag \in BOOLEAN
    /\ opc \in {"start", "look", "program", "shift", "load", "or", "return", "tail", "sleep"}
    /\ bpc \in {"idle", "enter", "up", "down", "select", "upCompare", "downCompare", "upLoad",
                "downLoad", "upWrap", "downWrap", "store", "reflash", "over", "leaveLoad",
                "leaveStore"}
    /\ screen \in {"none", "current", "old"}
    /\ posted \in PanelEvents \cup {NoPost}

TimeType ==
    /\ backlightTime \in 0 .. BacklightMax /\ light \in BOOLEAN
    /\ nowPagePre \in Pages \cup {NoPage} /\ time1S \in 0 .. T1s

LEMMA TypeParts == TypeOK <=> StackType /\ SelectType /\ LoopType /\ TimeType
  BY Zenon DEF TypeOK, StackType, SelectType, LoopType, TimeType

(* What the OLED thread does with the stacks.                              *)
LEMMA ProgramLoads ==
    ASSUME Program
    PROVE  /\ opc = "program" /\ UNCHANGED <<pageInfor, breg, nowPagePre>>
           /\ \/ /\ opc' = "shift" /\ nowPagePre \in MenuPages /\ oreg' = pageInfor
                 /\ pageSelect' = pageSelect
                 /\ pageSelect.cusor \in DOMAIN Items(nowPagePre)
              \/ /\ opc' = "return" /\ nowPagePre = SELECT_MODE_PAGE /\ oreg' = pageInfor
                 /\ pageSelect' = pageSelect
              \/ /\ opc' = "tail" /\ oreg' = oreg
                 /\ pageSelect' \in {pageSelect, Consumed}
  <1>1. CASE MenuPage
    BY <1>1, Zenon DEF Program, MenuPage, PageDone, MenuPages, loopVars, buttonVars
  <1>2. CASE SendPage
    BY <1>2, Zenon DEF Program, SendPage, PageDone, loopVars, buttonVars
  <1>3. CASE selectModePage
    BY <1>3, Zenon DEF Program, selectModePage, PageDone, loopVars, buttonVars
  <1>4. CASE testPage
    BY <1>4, Zenon DEF Program, testPage, PageDone, loopVars, buttonVars
  <1>5. QED
    BY <1>1, <1>2, <1>3, <1>4, Zenon DEF Program
(* The steps that leave the stacks alone.                                  *)
Quiet ==
    /\ UNCHANGED <<pageInfor, oreg, breg, nowPagePre>>
    /\ \/ opc' = opc /\ pageSelect' = pageSelect
       \/ opc' = opc /\ Sleeping
       \/ opc = "tail" /\ opc' = "sleep"
       \/ opc = "sleep" /\ opc' = "look"

Leaves == (LeaveLoad \/ LeaveStore) /\ ButtonFrame

StackWriters ==
    Start \/ Look \/ Program \/ Shift \/ Load \/ OrItem \/ Return \/ UartReturn \/ Leaves

LEMMA WhoWritesStacks == [OledNext]_vars => StackWriters \/ Quiet
  <1> SUFFICES ASSUME [OledNext]_vars PROVE StackWriters \/ Quiet
    OBVIOUS
  <1>1. CASE LoopEnd \/ Wake
    BY <1>1, Zenon DEF LoopEnd, Wake, Quiet, loopVars, buttonVars
  <1>2. CASE \E key \in {"enter", "up", "down"} : ShortPress(key)
    BY <1>2, Zenon DEF ShortPress, Quiet, loopVars
  <1>3. CASE /\ \/ LightOn \/ EnterSelect \/ UpCompare \/ DownCompare \/ CursorLoad
                \/ CursorStore \/ Reflash \/ LongEnter \/ LeaveOver
             /\ ButtonFrame
    BY <1>3, Zenon DEF LightOn, EnterSelect, UpCompare, DownCompare, CursorLoad, CursorStore,
       Reflash, LongEnter, LeaveOver, ButtonFrame, Quiet, loopVars
  <1>4. CASE (\E differs \in BOOLEAN : UartCtrl(differs)) \/ UartShow
    BY <1>4, Zenon DEF UartCtrl, UartShow, Quiet, loopVars, buttonVars
  <1>5. CASE UNCHANGED vars
    BY <1>5, Zenon DEF vars, Quiet, loopVars, buttonVars
  <1>6. QED
    BY <1>1, <1>2, <1>3, <1>4, <1>5, Zenon
       DEF OledNext, OledStep, ButtonStep, UartEffect, StackWriters, Leaves

(* The stacks keep their type and their shape.                             *)
LEMMA StackStep == OledInv /\ [OledNext]_vars => StackType' /\ StackInv'
  <1> SUFFICES ASSUME OledInv, [OledNext]_vars PROVE StackType' /\ StackInv'
    OBVIOUS
  <1>0. StackType /\ StackInv
    BY TypeParts DEF OledInv
  <1> USE BottomStack
  <1>1. CASE Quiet
    <2>1. StackType'
      BY <1>0, <1>1, Zenon DEF Quiet, StackType
    <2>2. StackInv'
      BY <1>0, <1>1 DEF Quiet, StackInv, Sleeping
    <2>3. QED
      BY <2>1, <2>2
  <1>2. CASE Start
    <2>1. /\ opc = "start" /\ opc' = "look" /\ pageInfor' = Shl(pageInfor)
          /\ UNCHANGED <<oreg, breg, nowPagePre, pageSelect>>
      BY <1>2, Zenon DEF Start, loopVars, buttonVars
    <2>2. pageInfor = Bottom /\ breg = Bottom /\ oreg = Bottom
      BY <1>0, <2>1, Zenon DEF StackInv
    <2>3. QED
      BY <1>0, <2>1, <2>2 DEF StackType, StackInv
  <1>3. CASE Look
    <2>1. /\ opc = "look" /\ UNCHANGED <<pageInfor, oreg, breg>>
          /\ \/ opc' = "program" /\ nowPagePre' = nowPage
             \/ opc' = "tail" /\ UNCHANGED nowPagePre
      <3>1. /\ opc = "look" /\ UNCHANGED <<pageInfor, oreg, breg>>
            /\ \/ nowPagePre' = nowPage /\ opc' = "program"
               \/ /\ nowPagePre = nowPage /\ UNCHANGED nowPagePre
                  /\ opc' = IF reflash_flag THEN "program" ELSE "tail"
        BY <1>3, Zenon DEF Look, buttonVars
      <3>2. QED
        BY <3>1
    <2>2. Fits(pageInfor) /\ oreg = Bottom /\ Fits(breg) /\ nowPage \in Pages
      BY <1>0, <2>1 DEF StackInv, StackType, nowPage, Stack
    <2>3. Ready(nowPage, pageInfor)
      BY <1>0, <2>2, FitsReady DEF StackType, nowPage
    <2>4. StackInv'
      BY <2>1, <2>2, <2>3 DEF StackInv
    <2>5. QED
      BY <1>0, <2>1, <2>4 DEF StackType
  <1>4. CASE Program
    <2>1. opc = "program" /\ Ready(nowPagePre, pageInfor) /\ Fits(pageInfor)
          /\ nowPagePre \in Pages /\ oreg = Bottom /\ Fits(breg)
      BY <1>0, <1>4, ProgramLoads DEF StackInv, Ready
    <2>2. StackType'
      BY <1>0, <1>4, ProgramLoads DEF StackType
    <2>3. StackInv'
      BY <1>4, <2>1, ProgramLoads DEF StackInv
    <2>4. QED
      BY <2>2, <2>3
  <1>5. CASE Shift
    <2>1. /\ opc = "shift" /\ opc' = "load" /\ pageInfor' = Shl(oreg)
          /\ UNCHANGED <<oreg, breg, nowPagePre, pageSelect>>
      BY <1>5, Zenon DEF Shift, loopVars, buttonVars
    <2>2. /\ Ready(nowPagePre, oreg) /\ Fits(breg) /\ nowPagePre \in MenuPages
          /\ pageSelect.cusor \in DOMAIN Items(nowPagePre)
      BY <1>0, <2>1 DEF StackInv
    <2>3. pageInfor' \in Stack /\ Shifted(nowPagePre, pageInfor')
      BY <1>0, <2>1, <2>2, ShlStack, ShlShifted, Zenon DEF StackType
    <2>4. StackInv'
      BY <2>1, <2>2, <2>3 DEF StackInv
    <2>5. QED
      BY <1>0, <2>1, <2>3, <2>4 DEF StackType
  <1>6. CASE Load
    <2>1. /\ opc = "load" /\ opc' = "or" /\ oreg' = pageInfor
          /\ UNCHANGED <<pageInfor, breg, nowPagePre, pageSelect>>
      BY <1>6, Zenon DEF Load, loopVars, buttonVars
    <2>2. StackInv'
      BY <1>0, <2>1 DEF StackInv
    <2>3. QED
      BY <1>0, <2>1, <2>2 DEF StackType
  <1>7. CASE OrItem
    <2>1. /\ opc = "or" /\ opc' = "tail" /\ oreg' = Bottom
          /\ pageInfor' = Pushed(oreg, Item)
          /\ UNCHANGED <<breg, nowPagePre>>
      BY <1>7, Zenon DEF OrItem, Pushed, PageDone, loopVars, buttonVars
    <2>2. /\ Shifted(nowPagePre, oreg) /\ Fits(breg) /\ nowPagePre \in MenuPages
          /\ pageSelect.cusor \in DOMAIN Items(nowPagePre)
      BY <1>0, <2>1 DEF StackInv
    <2>3. pageInfor' \in Stack /\ Fits(pageInfor')
      BY <1>0, <2>1, <2>2, PushedFits, Zenon DEF StackType, Item
    <2>4. StackInv'
      BY <2>1, <2>2, <2>3 DEF StackInv
    <2>5. QED
      BY <1>0, <2>1, <2>3, <2>4 DEF StackType
  <1>8. CASE Return
    <2>1. /\ opc = "return" /\ opc' = "tail" /\ oreg' = Bottom
          /\ pageInfor' = Shr(oreg)
          /\ UNCHANGED <<breg, nowPagePre>>
      BY <1>8, Zenon DEF Return, PageDone, loopVars, buttonVars
    <2>2. Fits(oreg) /\ Fits(breg)
      BY <1>0, <2>1 DEF StackInv
    <2>3. pageInfor' \in Stack /\ Fits(pageInfor')
      BY <1>0, <2>1, <2>2, ShrStack, ShrFits, Zenon DEF StackType
    <2>4. StackInv'
      BY <2>1, <2>2, <2>3 DEF StackInv
    <2>5. QED
      BY <1>0, <2>1, <2>3, <2>4 DEF StackType
  <1>9. CASE UartReturn
    <2>1. /\ pageInfor' = Shr(pageInfor)
          /\ UNCHANGED <<opc, oreg, breg, nowPagePre, pageSelect>>
      BY <1>9, Zenon DEF UartReturn, loopVars, buttonVars
    <2>2. /\ pageInfor' \in Stack
          /\ pageInfor = Bottom => pageInfor' = Bottom
          /\ Fits(pageInfor) => Fits(pageInfor')
          /\ Ready(nowPagePre, pageInfor) => Ready(nowPagePre, pageInfor')
          /\ Shifted(nowPagePre, pageInfor) => Shifted(nowPagePre, pageInfor')
      BY <1>0, <2>1, ShrStack, ShrFits, ShrReady, ShrShifted, Zenon DEF StackType
    <2>3. StackInv'
      BY <1>0, <2>1, <2>2 DEF StackInv
    <2>4. QED
      BY <1>0, <2>1, <2>2, <2>3 DEF StackType
  <1>10. CASE Leaves
    <2>1. /\ opc \in {"start", "sleep"} /\ UNCHANGED <<opc, oreg, nowPagePre, pageSelect>>
          /\ \/ breg' = pageInfor /\ UNCHANGED pageInfor
             \/ pageInfor' = Shr(breg) /\ breg' = Bottom
      BY <1>10, Zenon
         DEF Leaves, LeaveLoad, LeaveStore, ButtonFrame, Sleeping, loopVars
    <2>2. Fits(pageInfor) /\ Fits(breg) /\ oreg = Bottom
      BY <1>0, <2>1 DEF StackInv
    <2>3. /\ pageInfor' \in Stack /\ breg' \in Stack /\ Fits(pageInfor') /\ Fits(breg')
          /\ opc = "start" => pageInfor' = Bottom /\ breg' = Bottom
      BY <1>0, <2>1, <2>2, ShrStack, ShrFits, Zenon DEF StackType, StackInv
    <2>4. StackInv'
      BY <2>1, <2>2, <2>3 DEF StackInv
    <2>5. QED
      BY <1>0, <2>1, <2>3, <2>4 DEF StackType
  <1>11. QED
    BY <1>1, <1>2, <1>3, <1>4, <1>5, <1>6, <1>7, <1>8, <1>9, <1>10, WhoWritesStacks, Zenon
       DEF StackWriters
-----------------------------------------------------------------------------
(* The cursor.                                                             *)

CursorQuiet ==
    /\ \/ pageSelect' = pageSelect
       \/ pageSelect' = Consumed
       \/ pageSelect' = [pageSelect EXCEPT !.select = TRUE]
    /\ \/ UNCHANGED <<bpc, bval>>
       \/ /\ bval' = bval \/ bval' = 0 \/ bval' = nowPage
          /\ bpc' \notin {"upCompare", "downCompare", "upLoad", "downLoad", "store"}

CursorWriters ==
    \/ Look
    \/ (LightOn \/ UpCompare \/ DownCompare \/ CursorLoad \/ CursorStore) /\ ButtonFrame

LEMMA WhoMovesCursor == [OledNext]_vars => CursorWriters \/ CursorQuiet
  <1> SUFFICES ASSUME [OledNext]_vars PROVE CursorWriters \/ CursorQuiet
    OBVIOUS
  <1>1. CASE Start \/ Shift \/ Load \/ LoopEnd \/ Wake
    BY <1>1, Zenon DEF Start, Shift, Load, LoopEnd, Wake, CursorQuiet, buttonVars
  <1>2. CASE OrItem \/ Return
    BY <1>2, Zenon DEF OrItem, Return, CursorQuiet, buttonVars
  <1>3. CASE Program
    <2>1. UNCHANGED <<bpc, bval>>
      BY <1>3, Zenon DEF Program, buttonVars
    <2>2. QED
      BY <1>3, <2>1, ProgramLoads, Zenon DEF CursorQuiet
  <1>4. CASE \E key \in {"enter", "up", "down"} : ShortPress(key)
    BY <1>4 DEF ShortPress, CursorQuiet
  <1>5. CASE EnterSelect \/ Reflash \/ LongEnter \/ LeaveOver \/ LeaveLoad \/ LeaveStore
    BY <1>5 DEF EnterSelect, Reflash, LongEnter, LeaveOver, LeaveLoad, LeaveStore, CursorQuiet
  <1>6. CASE UartEffect
    BY <1>6, Zenon DEF UartEffect, UartReturn, UartCtrl, UartShow, CursorQuiet, buttonVars
  <1>7. CASE UNCHANGED vars
    BY <1>7, Zenon DEF vars, CursorQuiet, buttonVars
  <1>8. QED
    BY <1>1, <1>2, <1>3, <1>4, <1>5, <1>6, <1>7, Zenon
       DEF OledNext, OledStep, ButtonStep, CursorWriters

LEMMA CursorStep == OledInv /\ [OledNext]_vars => SelectType' /\ CursorInv'
  <1> SUFFICES ASSUME OledInv, [OledNext]_vars PROVE SelectType' /\ CursorInv'
    OBVIOUS
  <1>0. SelectType /\ CursorInv /\ nowPage \in 0 .. 7
    BY TypeParts DEF OledInv, StackType, Stack, nowPage, Pages, HOME_PAGE, TEST_PAGE
  <1>1. CASE CursorQuiet
    <2>1. /\ pageSelect' \in [cusor_home : u8, cusor_max : u8, cusor : u8, select : BOOLEAN]
          /\ pageSelect'.cusor = pageSelect.cusor
          /\ pageSelect'.cusor_max = pageSelect.cusor_max
          /\ pageSelect'.cusor_home = pageSelect.cusor_home
      BY <1>0, <1>1 DEF CursorQuiet, Consumed, SelectType
    <2>2. bval' \in u8
      BY <1>0, <1>1, SMT DEF CursorQuiet, SelectType, u8
    <2>3. CursorInv'
      BY <1>0, <1>1, <2>1 DEF CursorQuiet, CursorInv
    <2>4. QED
      BY <2>1, <2>2, <2>3, Zenon DEF SelectType
  <1>2. CASE Look
    <2>1. /\ UNCHANGED <<bpc, bval>>
          /\ \/ UNCHANGED pageSelect
             \/ \E max \in {1, 2, 4}, cusor \in {1, 2} :
                     cusor <= max /\ pageSelect' = CursorSet(max, cusor)
      <3>1. /\ UNCHANGED <<bpc, bval>>
            /\ UNCHANGED pageSelect \/ pageSetting(nowPage)
        BY <1>2, Zenon DEF Look, buttonVars
      <3>2. QED
        BY <3>1 DEF pageSetting
    <2>2. QED
      BY <1>0, <2>1, SMT DEF CursorSet, SelectType, CursorInv, u8
  <1>3. CASE LightOn
    BY <1>0, <1>3, SMT DEF LightOn, SelectType, CursorInv, u8
  <1>4. CASE UpCompare \/ DownCompare
    BY <1>0, <1>4, SMT DEF UpCompare, DownCompare, SelectType, CursorInv, u8
  <1>5. CASE CursorLoad
    BY <1>0, <1>5, SMT DEF CursorLoad, SelectType, CursorInv, u8
  <1>6. CASE CursorStore
    BY <1>0, <1>6, SMT DEF CursorStore, SelectType, CursorInv, u8
  <1>7. QED
    BY <1>1, <1>2, <1>3, <1>4, <1>5, <1>6, WhoMovesCursor, Zenon DEF CursorWriters

-----------------------------------------------------------------------------
(* The light, and what is left of the types.                               *)

LEMMA TimeStep == OledInv /\ [OledNext]_vars => TimeType' /\ DarkMeansIdle'
  <1> SUFFICES ASSUME OledInv, [OledNext]_vars PROVE TimeType' /\ DarkMeansIdle'
    OBVIOUS
  <1>0. TimeType /\ DarkMeansIdle /\ nowPage \in Pages
    BY TypeParts DEF OledInv, StackType, Stack, nowPage
  <1> USE OledAssumption
  <1>1. CASE Start
    BY <1>0, <1>1 DEF Start, TimeType, DarkMeansIdle, loopVars
  <1>2. CASE Look
    <2>1. /\ UNCHANGED <<backlightTime, light, bpc>> /\ time1S' = TimerTask(time1S, T1s)
          /\ nowPagePre' = nowPage \/ UNCHANGED nowPagePre
          /\ opc = "look"
      BY <1>2, Zenon DEF Look, lightVars, buttonVars
    <2>2. QED
      BY <1>0, <2>1 DEF TimeType, DarkMeansIdle, TimerTask
  <1>3. CASE LoopEnd
    <2>1. /\ UNCHANGED <<nowPagePre, time1S, bpc>> /\ opc = "tail"
          /\ monitorBackLight \/ UNCHANGED <<backlightTime, light>>
      BY <1>3, Zenon DEF LoopEnd, lightVars, loopVars, buttonVars
    <2>2. QED
      <3>1. CASE monitorBackLight
        <4>1. /\ backlightTime' = IF backlightTime < BacklightMax THEN backlightTime + 1
                                                                 ELSE backlightTime
              /\ light' \in BOOLEAN
              /\ ~light' => ~light \/ ~(backlightTime < BacklightMax)
          BY <3>1, Zenon DEF monitorBackLight
        <4>2. /\ backlightTime' \in 0 .. BacklightMax
              /\ ~light' => backlightTime' = BacklightMax \/ bpc \in {"enter", "up", "down"}
          BY <1>0, <2>1, <4>1 DEF TimeType, DarkMeansIdle
        <4>3. QED
          BY <1>0, <2>1, <4>1, <4>2, Zenon DEF TimeType, DarkMeansIdle
      <3>2. CASE UNCHANGED <<backlightTime, light>>
        BY <1>0, <2>1, <3>2 DEF TimeType, DarkMeansIdle
      <3>3. QED
        BY <2>1, <3>1, <3>2
  <1>4. CASE Program \/ Shift \/ Load \/ OrItem \/ Return \/ Wake
    <2>1. opc # "start" /\ UNCHANGED <<backlightTime, light, nowPagePre, time1S, bpc>>
      BY <1>4, Zenon DEF Program, Shift, Load, OrItem, Return, Wake, lightVars, loopVars,
         buttonVars
    <2>2. QED
      BY <1>0, <2>1 DEF TimeType, DarkMeansIdle
  <1>5. CASE \E key \in {"enter", "up", "down"} : ShortPress(key)
    BY <1>0, <1>5 DEF ShortPress, TimeType, DarkMeansIdle, loopVars
  <1>6. CASE LightOn /\ ButtonFrame
    BY <1>0, <1>6 DEF LightOn, ButtonFrame, TimeType, DarkMeansIdle, loopVars
  <1>7. CASE /\ \/ EnterSelect \/ UpCompare \/ DownCompare \/ CursorLoad \/ CursorStore
                \/ Reflash \/ LongEnter \/ LeaveOver \/ LeaveLoad \/ LeaveStore
             /\ ButtonFrame
    <2>1. /\ bpc \notin {"enter", "up", "down"}
          /\ UNCHANGED <<backlightTime, light, nowPagePre, time1S, opc>>
      BY <1>7 DEF EnterSelect, UpCompare, DownCompare, CursorLoad, CursorStore, Reflash,
         LongEnter, LeaveOver, LeaveLoad, LeaveStore, ButtonFrame, lightVars, loopVars
    <2>2. QED
      BY <1>0, <2>1 DEF TimeType, DarkMeansIdle
  <1>8. CASE UartEffect \/ UNCHANGED vars
    <2>1. UNCHANGED <<backlightTime, light, nowPagePre, time1S, bpc, opc>>
      BY <1>8, Zenon DEF UartEffect, UartReturn, UartCtrl, UartShow, vars, lightVars, loopVars,
         buttonVars
    <2>2. QED
      BY <1>0, <2>1 DEF TimeType, DarkMeansIdle
  <1>9. QED
    BY <1>1, <1>2, <1>3, <1>4, <1>5, <1>6, <1>7, <1>8, Zenon
       DEF OledNext, OledStep, ButtonStep
LEMMA LoopStep == OledInv /\ [OledNext]_vars => LoopType'
  <1> SUFFICES ASSUME OledInv, [OledNext]_vars PROVE LoopType'
    OBVIOUS
  <1>0. LoopType
    BY TypeParts DEF OledInv
  <1> USE DEF LoopType, Silent, uartVars
  <1>1. CASE Start \/ Look \/ Shift \/ Load \/ Wake
    BY <1>0, <1>1, Zenon DEF Start, Look, Shift, Load, Wake, buttonVars
  <1>2. CASE OrItem \/ Return
    BY <1>0, <1>2, Zenon DEF OrItem, Return, PageDone, buttonVars
  <1>3. CASE LoopEnd
    BY <1>0, <1>3, Zenon DEF LoopEnd, buttonVars
  <1>4. CASE Program
    <2> USE DEF PageDone, Posts, PanelEvents, PageEvents, TestEvents, buttonVars
    <2>1. /\ screen' \in {"none", "current"} /\ UNCHANGED <<ctrlNew, bpc>>
      BY <1>4, Zenon DEF Program
    <2>2. CASE MenuPage
      BY <1>0, <2>1, <2>2, Zenon DEF MenuPage
    <2>3. CASE SendPage
      BY <1>0, <2>1, <2>3, Zenon DEF SendPage
    <2>4. CASE selectModePage
      BY <1>0, <2>1, <2>4, Zenon DEF selectModePage
    <2>5. CASE testPage
      BY <1>0, <2>1, <2>5, Zenon DEF testPage
    <2>6. QED
      BY <1>4, <2>2, <2>3, <2>4, <2>5, Zenon DEF Program
  <1>5. CASE \E key \in {"enter", "up", "down"} : ShortPress(key)
    BY <1>0, <1>5, Zenon DEF ShortPress
  <1>6. CASE (LightOn \/ EnterSelect \/ UpCompare \/ DownCompare) /\ ButtonFrame
    BY <1>0, <1>6, Zenon DEF LightOn, EnterSelect, UpCompare, DownCompare, ButtonFrame
  <1>7. CASE (CursorLoad \/ CursorStore \/ Reflash \/ LongEnter) /\ ButtonFrame
    BY <1>0, <1>7, Zenon DEF CursorLoad, CursorStore, Reflash, LongEnter, ButtonFrame
  <1>8. CASE (LeaveOver \/ LeaveLoad \/ LeaveStore) /\ ButtonFrame
    BY <1>0, <1>8, Zenon DEF LeaveOver, LeaveLoad, LeaveStore, ButtonFrame, Posts, PanelEvents,
       OverEvents
  <1>9. CASE UartEffect
    BY <1>0, <1>9, Zenon DEF UartEffect, UartReturn, UartCtrl, UartShow, buttonVars
  <1>10. CASE UNCHANGED vars
    BY <1>0, <1>10, Zenon DEF vars, buttonVars
  <1>11. QED
    BY <1>1, <1>2, <1>3, <1>4, <1>5, <1>6, <1>7, <1>8, <1>9, <1>10, Zenon
       DEF OledNext, OledStep, ButtonStep

-----------------------------------------------------------------------------
LEMMA OledStarts == OledInit => OledInv
  <1> SUFFICES ASSUME OledInit PROVE OledInv
    OBVIOUS
  <1> USE OledAssumption, BottomStack
  <1>1. StackType /\ StackInv
    BY DEF OledInit, StackType, StackInv
  <1>2. SelectType /\ CursorInv
    BY SMT DEF OledInit, SelectType, CursorInv, u8
  <1>3. LoopType
    BY Zenon DEF OledInit, LoopType
  <1>4. TimeType /\ DarkMeansIdle
    <2>1. backlightTime = 0 /\ time1S = 0 /\ nowPagePre = NoPage
      BY DEF OledInit
    <2>2. backlightTime \in 0 .. BacklightMax /\ time1S \in 0 .. T1s
      BY <2>1
    <2>3. QED
      BY <2>1, <2>2, Zenon DEF OledInit, TimeType, DarkMeansIdle
  <1>5. QED
    BY <1>1, <1>2, <1>3, <1>4, TypeParts, Zenon DEF OledInv

LEMMA OledInductive == OledSpec => []OledInv
  <1>1. OledInv /\ [OledNext]_vars => OledInv'
    <2> SUFFICES ASSUME OledInv, [OledNext]_vars PROVE OledInv'
      OBVIOUS
    <2>1. TypeOK' <=> StackType' /\ SelectType' /\ LoopType' /\ TimeType'
      BY Zenon DEF TypeOK, StackType, SelectType, LoopType, TimeType
    <2>2. QED
      BY <2>1, StackStep, CursorStep, LoopStep, TimeStep, Zenon DEF OledInv
  <1>2. QED
    BY <1>1, OledStarts, PTL DEF OledSpec

(* The ranges of the variables hold for every length of a second and of    *)
(* the lighted time, with or without the UART thread leaving pages.        *)
THEOREM OledTypeCorrect == OledSpec => []TypeOK
  <1>1. OledInv => TypeOK
    BY DEF OledInv
  <1>2. QED
    BY <1>1, OledInductive, PTL

(* No shift of pageInfor ever loses a page: three threads may tear each    *)
(* other's pushes and returns, and still no path is deeper than four.      *)
THEOREM PagesFit == OledSpec => []StackFits
  <1>1. OledInv => StackFits
    <2> SUFFICES ASSUME OledInv PROVE StackFits
      OBVIOUS
    <2>1. /\ StackInv
          /\ opc \in {"start", "look", "program", "shift", "load", "or", "return", "tail", "sleep"}
      BY Zenon DEF OledInv, TypeOK
    <2>2. CASE opc \in {"look", "tail", "sleep", "program", "shift", "return", "start"}
      BY <2>1, <2>2, BottomStack DEF StackInv, StackFits, Fits, Ready
    <2>3. CASE opc \in {"load", "or"}
      BY <2>1, <2>3 DEF StackInv, StackFits, Fits, Ready, Shifted
    <2>4. QED
      BY <2>1, <2>2, <2>3
  <1>2. QED
    BY <1>1, OledInductive, PTL

(* The cursor never leaves the four names of SettingPage, although it is   *)
(* compared, changed and stored in three steps and reset in between.       *)
THEOREM CursorOnMenu == OledSpec => []MenuInBounds
  <1>1. OledInv => MenuInBounds
    BY DEF OledInv, CursorInv, MenuInBounds
  <1>2. QED
    BY <1>1, OledInductive, PTL

(* The light is off only after its time, or in the two steps between the   *)
(* reset of the time and the switch.                                       *)
THEOREM DarkOnlyWhenIdle == OledSpec => []DarkMeansIdle
  <1>1. OledInv => DarkMeansIdle
    BY DEF OledInv
  <1>2. QED
    BY <1>1, OledInductive, PTL
=============================================================================
