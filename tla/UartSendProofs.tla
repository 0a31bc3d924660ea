--------------------------- MODULE UartSendProofs ---------------------------
(***************************************************************************)
(* Proofs about what the UART thread saves and what it sends to the        *)
(* infrared chip, for all values of the constants.                         *)
(***************************************************************************)
EXTENDS UartTypeProofs

(* The part of the iteration behind the save step.                         *)
AfterSave == {"100ms", "1s", "link", "ctrl", "5s", "10s"}

Key  == [addr |-> addr, brand_code |-> brand_code, select |-> select]
Zero == [addr |-> 0, brand_code |-> 0, select |-> "MATCH"]

(* modulePre is what module_info was at the save step, and the flash holds *)
(* it, except for the zeros modulePre starts with.                         *)
SaveInv ==
    /\ pc \in AfterSave => modulePre = Key
    /\ \/ modulePre = Zero
       \/ /\ flash.addr = modulePre.addr /\ flash.brand_code = modulePre.brand_code
          /\ flash.select = modulePre.select

(* The steps that do not save: they leave the saved fields alone, or are   *)
(* before the save step.                                                   *)
SaveQuiet ==
    /\ UNCHANGED store
    /\ pc' \in AfterSave => pc \in AfterSave /\ UNCHANGED <<addr, brand_code, select>>

LEMMA WhoSaves == [UartNext]_vars => SaveInfo \/ SaveQuiet
  <1> SUFFICES ASSUME [UartNext]_vars PROVE SaveInfo \/ SaveQuiet
    OBVIOUS
  <1> USE DEF SaveQuiet, AfterSave, module_info
  <1>1. CASE Interrupt
    BY <1>1, Zenon DEF Interrupt, Uart1_input, Uart2_input
  <1>2. CASE UiStep
    BY <1>2, Zenon DEF UiStep, UiPage, UiPost, UiStore, UiSelect, UiFrame, UiRuns
  <1>3. CASE Wake \/ (\E state \in Pins : IoCheckProgram(state))
    BY <1>3, Zenon DEF Wake, IoCheckProgram
  <1>4. CASE Uart1Poll \/ RegisterReply \/ Command \/ Uart1Clear
    BY <1>4, Zenon DEF Uart1Poll, RegisterReply, Command, Uart1Clear
  <1>5. CASE MatchReply \/ SaveReply \/ SaveShown \/ LearnReply \/ WildCall
    BY <1>5, Zenon DEF MatchReply, SaveReply, SaveShown, LearnReply, WildCall
  <1>6. CASE Uart2Skip \/ Uart2Clear
    BY <1>6, Zenon DEF Uart2Skip, Uart2Clear
  <1>7. CASE Blink \/ IrEvent \/ Link \/ Ctrl
    BY <1>7, Zenon DEF Blink, IrEvent, Link, Ctrl
  <1>8. CASE SkipSecond \/ FiveSeconds \/ TenSeconds
    BY <1>8, Zenon DEF SkipSecond, FiveSeconds, TenSeconds
  <1>9. CASE UNCHANGED vars
    BY <1>9, Zenon DEF vars
  <1>10. QED
    BY <1>1, <1>2, <1>3, <1>4, <1>5, <1>6, <1>7, <1>8, <1>9, Zenon DEF UartNext, UartStep

(* In every state behind the save step a restart would give back address,  *)
(* brand code and mode, whichever frames and page choices led there.       *)
THEOREM InfoIsPersisted == UartSpec => []Persisted
  <1>1. UartInit => SaveInv
    BY DEF UartInit, SaveInv, AfterSave, Zero
  <1>2. SaveInv /\ [UartNext]_vars => SaveInv'
    <2> SUFFICES ASSUME SaveInv, [UartNext]_vars PROVE SaveInv'
      OBVIOUS
    <2>1. CASE SaveInfo
      <3>1. /\ UNCHANGED <<addr, brand_code, select>>
            /\ \/ modulePre' = Key /\ flash' = saved_info
               \/ modulePre = Key /\ UNCHANGED <<modulePre, flash>>
        BY <2>1, Zenon DEF SaveInfo, Changed, Key, module_info, store
      <3>2. QED
        BY <3>1 DEF SaveInv, Key, saved_info
    <2>2. CASE SaveQuiet
      <3>1. /\ UNCHANGED <<modulePre, flash>>
            /\ pc' \in AfterSave => pc \in AfterSave /\ UNCHANGED <<addr, brand_code, select>>
        BY <2>2, Zenon DEF SaveQuiet, store
      <3>2. QED
        BY <3>1 DEF SaveInv, Key
    <2>3. QED
      BY <2>1, <2>2, WhoSaves
  <1>3. SaveInv => Persisted
    BY DEF SaveInv, Persisted, AfterSave, Key, Zero
  <1>4. QED
    BY <1>1, <1>2, <1>3, PTL DEF UartSpec
-----------------------------------------------------------------------------
(* What is repeated, and for which page.                                   *)

LearnModes == {"SEND_LEARN_MODE_ON", "SEND_LEARN_MODE_OFF"}

(* The event is one the page that asked last leads to.                     *)
Asked(e) ==
    /\ e \in {"SEND_MATCH", "SEND_SAVE"} => uiWants = "SEND_MATCH"
    /\ e \in LearnModes => uiWants \in LearnModes

(* The global event is asked for unless a wish was lost; the local copy    *)
(* only once a 1 s tick has taken the wish.                                *)
AskInv ==
    /\ wish # "lost" => Asked(infrared_event.event)
    /\ wish \notin {"lost", "fresh"} => Asked(local_event.event)

AskVars == <<infrared_event, local_event, uiWants, wish>>

LEMMA AskFrame ==
    ASSUME \/ Interrupt \/ Wake \/ (\E state \in Pins : IoCheckProgram(state))
           \/ Uart1Poll \/ RegisterReply \/ Command \/ Uart1Clear \/ WildCall \/ Uart2Skip
           \/ Uart2Clear \/ SaveInfo \/ Blink \/ Link \/ Ctrl \/ SkipSecond \/ FiveSeconds
           \/ TenSeconds \/ UNCHANGED vars
    PROVE  UNCHANGED AskVars
  <1> USE DEF AskVars, history
  <1>1. CASE Interrupt
    BY <1>1, Zenon DEF Interrupt, Uart1_input, Uart2_input
  <1>2. CASE \E state \in Pins : IoCheckProgram(state)
    BY <1>2, Zenon DEF IoCheckProgram
  <1>3. CASE Wake \/ Uart1Poll \/ RegisterReply \/ Command \/ Uart1Clear
    BY <1>3, Zenon DEF Wake, Uart1Poll, RegisterReply, Command, Uart1Clear
  <1>4. CASE WildCall \/ Uart2Skip \/ Uart2Clear \/ SaveInfo \/ Blink \/ Link
    BY <1>4, Zenon DEF WildCall, Uart2Skip, Uart2Clear, SaveInfo, Blink, Link
  <1>5. CASE Ctrl \/ SkipSecond \/ FiveSeconds \/ TenSeconds
    BY <1>5, Zenon DEF Ctrl, SkipSecond, FiveSeconds, TenSeconds
  <1>6. CASE UNCHANGED vars
    BY <1>6, Zenon DEF vars
  <1>7. QED
    BY <1>1, <1>2, <1>3, <1>4, <1>5, <1>6

LEMMA AskStep == AskInv /\ [UartNext]_vars => AskInv'
  <1> SUFFICES ASSUME AskInv, [UartNext]_vars PROVE AskInv'
    OBVIOUS
  <1> USE DEF AskInv, Asked, Event, LearnModes
  <1>1. CASE UNCHANGED AskVars
    BY <1>1 DEF AskVars
  <1>2. CASE UiStep
    <2>1. CASE \/ \E st \in UiStacks : UiPage(st)
               \/ \E mode \in UiSelects : UiSelect(mode)
      BY <1>1, <2>1, Zenon DEF UiPage, UiSelect, UiFrame, AskVars
    <2>2. ASSUME NEW e \in UiEvents, UiPost(e) PROVE AskInv'
      <3>1. e # "SEND_SAVE"
        BY UiAssumption DEF PanelEvents, PageEvents, TestEvents, OverEvents
      <3>2. /\ infrared_event' = Event(e, infrared_event.call_back)
            /\ uiWants' = e /\ wish' = "fresh"
        BY <2>2, Zenon DEF UiPost, setinfraredEvent
      <3>3. QED
        BY <3>1, <3>2
    <2>3. ASSUME NEW t \in Posters, UiStore(t) PROVE AskInv'
      <3>1. /\ infrared_event' = Event(infrared_event.event, storing[t])
            /\ UNCHANGED <<local_event, uiWants, wish>>
        BY <2>3, Zenon DEF UiStore, UiFrame
      <3>2. QED
        BY <3>1
    <2>4. QED
      BY <1>2, <2>1, <2>2, <2>3, Zenon DEF UiStep
  <1>3. CASE MatchReply
    <2>1. /\ local_event.event = "SEND_MATCH" /\ uiWants' = uiWants
          /\ local_event' = Event("SEND_SAVE", local_event.call_back)
          /\ infrared_event' = local_event'
          /\ wish' = IF wish = "fresh" THEN "lost" ELSE wish
      BY <1>3, Zenon DEF MatchReply, FromChip, WriteBack
    <2>2. QED
      BY <2>1
  <1>4. CASE SaveReply
    <2>1. /\ local_event' = Event("NULL", local_event.call_back)
          /\ UNCHANGED uiWants
          /\ \/ UNCHANGED <<infrared_event, wish>>
             \/ /\ infrared_event' = local_event'
                /\ wish' = IF wish = "fresh" THEN "lost" ELSE wish
      BY <1>4, Zenon DEF SaveReply, WriteBack, historyButWish
    <2>2. QED
      BY <2>1
  <1>5. CASE SaveShown
    <2>1. /\ infrared_event' = local_event /\ UNCHANGED <<local_event, uiWants>>
          /\ wish' = IF wish = "fresh" THEN "lost" ELSE wish
      BY <1>5, Zenon DEF SaveShown, WriteBack, historyButWish
    <2>2. QED
      BY <2>1
  <1>6. CASE LearnReply
    <2>1. /\ UNCHANGED uiWants
          /\ \/ /\ local_event' = local_event \/ local_event' = Event("NULL", local_event.call_back)
                /\ infrared_event' = local_event'
                /\ wish' = IF wish = "fresh" THEN "lost" ELSE wish
             \/ UNCHANGED <<infrared_event, local_event, wish>>
      BY <1>6, Zenon DEF LearnReply, WriteBack, historyButWish
    <2>2. QED
      BY <2>1
  <1>7. CASE IrEvent
    <2>1. /\ UNCHANGED uiWants
          /\ wish' = IF wish = "fresh" THEN "taken" ELSE wish
          /\ \/ /\ local_event' = Event("NULL", infrared_event.call_back)
                /\ infrared_event' = local_event'
             \/ local_event' = infrared_event /\ infrared_event' = infrared_event
      BY <1>7, Zenon DEF IrEvent, Finish
    <2>2. QED
      BY <2>1
  <1>8. QED
    BY <1>1, <1>2, <1>3, <1>4, <1>5, <1>6, <1>7, AskFrame DEF UartNext, UartStep

Periodic == {"match", "save", "learnMode"}

(* What the other steps send.                                              *)
LEMMA TestSends ==
    ASSUME NEW on \in BOOLEAN, SendTest(on) PROVE tx2'.cmd \notin Periodic
  BY DEF SendTest, ToChip, Periodic

LEMMA WhoRepeats ==
    ASSUME UartNext, tx2'.cmd \in Periodic
    PROVE  IrEvent /\ tx2' = Repeated(infrared_event.event)
  <1>1. NoTx.cmd \notin Periodic /\ Over.cmd \notin Periodic
    BY DEF NoTx, Over, ToChip, Periodic
  <1>2. CASE Interrupt
    BY <1>1, <1>2, Zenon DEF Interrupt, Uart1_input, Uart2_input
  <1>3. CASE UiStep
    BY <1>1, <1>3, Zenon DEF UiStep, UiPage, UiPost, UiStore, UiSelect, UiFrame, Quiet
  <1>4. CASE \E state \in Pins : IoCheckProgram(state)
    <2>1. tx2' = NoTx \/ \E on \in BOOLEAN : SendTest(on)
      BY <1>4, Zenon DEF IoCheckProgram
    <2>2. QED
      BY <1>1, <2>1, TestSends, Zenon
  <1>5. CASE Wake \/ Uart1Poll \/ RegisterReply \/ Uart1Clear \/ Uart2Skip \/ Uart2Clear
    BY <1>1, <1>5, Zenon DEF Wake, Uart1Poll, RegisterReply, Uart1Clear, Uart2Skip, Uart2Clear,
       Quiet
  <1>6. CASE MatchReply \/ SaveReply \/ SaveShown \/ LearnReply \/ WildCall \/ SaveInfo \/ Blink
    BY <1>1, <1>6, Zenon DEF MatchReply, SaveReply, SaveShown, LearnReply, WildCall, SaveInfo,
       Blink, Quiet
  <1>7. CASE Command \/ Link \/ SkipSecond \/ FiveSeconds \/ TenSeconds
    BY <1>1, <1>7, Zenon DEF Command, Link, SkipSecond, FiveSeconds, TenSeconds, Quiet
  <1>8. CASE Ctrl
    <2>1. \/ tx2' = NoTx \/ tx2' = ToChip("ctrl", brand_code, ctrl)
          \/ \E on \in BOOLEAN : SendTest(on)
      <3>1. IsOn(ctrl) \in BOOLEAN
        BY SMT DEF IsOn
      <3>2. QED
        BY <1>8, <3>1, Zenon DEF Ctrl, SendCtrl
    <2>2. ToChip("ctrl", brand_code, ctrl).cmd \notin Periodic
      BY DEF ToChip, Periodic
    <2>3. QED
      BY <1>1, <2>1, <2>2, TestSends, Zenon
  <1>9. CASE IrEvent
    <2>1. \/ tx2' = Over \/ (\E on \in BOOLEAN : SendTest(on))
          \/ tx2' = Repeated(infrared_event.event)
      BY <1>9, Zenon DEF IrEvent
    <2>2. QED
      BY <1>1, <1>9, <2>1, TestSends, Zenon
  <1>10. QED
    BY <1>2, <1>3, <1>4, <1>5, <1>6, <1>7, <1>8, <1>9, Zenon DEF UartNext, UartStep

(* Leaving a page stops its command, unless the event that says so was     *)
(* written over: for every chip, every user and every length of a second.  *)
THEOREM SendsWhatPagesAsk == UartSpec => SendsAsAsked
  <1>1. UartInit => AskInv
    BY DEF UartInit, AskInv, Asked, LearnModes, Event
  <1>2. AskInv /\ [UartNext]_vars =>
          [wish # "lost" =>
             /\ tx2'.cmd \in {"match", "save"} => uiWants = "SEND_MATCH"
             /\ tx2'.cmd = "learnMode" =>
                   uiWants \in {"SEND_LEARN_MODE_ON", "SEND_LEARN_MODE_OFF"}]_vars
    <2> SUFFICES ASSUME AskInv, UartNext, wish # "lost", tx2'.cmd \in Periodic
                 PROVE  /\ tx2'.cmd \in {"match", "save"} => uiWants = "SEND_MATCH"
                        /\ tx2'.cmd = "learnMode" => uiWants \in LearnModes
      BY DEF Periodic, LearnModes
    <2>1. tx2' = Repeated(infrared_event.event)
      BY WhoRepeats
    <2>2. /\ tx2'.cmd \in {"match", "save"} => infrared_event.event \in {"SEND_MATCH", "SEND_SAVE"}
          /\ tx2'.cmd = "learnMode" => infrared_event.event \in LearnModes
      BY <2>1 DEF Repeated, ToChip, NoTx, LearnModes
    <2>3. QED
      BY <2>2 DEF AskInv, Asked
  <1>3. QED
    BY <1>1, <1>2, AskStep, PTL DEF UartSpec, SendsAsAsked
-----------------------------------------------------------------------------
(* Commands for the air conditioner.                                       *)

(* What was sent last is shown; ctrl_pre and, at the end of the 1 s block, *)
(* ctrl itself have been sent, as the mode has it.                         *)
SentInv ==
    /\ unsent \in BOOLEAN
    /\ lastSent # NoCtrl => switchState = IsOn(lastSent) /\ nowTemp = getTempByCtrl(lastSent)
    /\ ctrl = ctrl_pre /\ ~unsent => lastSent = InMode(select, ctrl)
    /\ pc = "5s" /\ Touched(time1S) /\ ~unsent => lastSent = InMode(select, ctrl)

(* How many copies are out in match mode.                                  *)
CopyInv ==
    /\ copies \in Nat
    /\ select = "MATCH" => IF ctrl = ctrl_pre THEN copies <= sendCmdCnt + 1 ELSE copies = 0

CtrlInv == SentInv /\ CopyInv

CtrlVars == <<select, ctrl, ctrl_pre, sendCmdCnt, switchState, nowTemp, lastSent, copies, unsent>>

CtrlQuiet ==
    /\ UNCHANGED CtrlVars
    /\ pc' = "5s" /\ Touched(time1S') => pc = "5s" /\ UNCHANGED time1S

(* The fixed commands are a switch each, and 16 bits.                      *)
LEMMA FixedCtrl ==
    /\ IsOn(ON_CTRL) = TRUE /\ IsOn(OFF_CTRL) = FALSE /\ ON_CTRL # OFF_CTRL
    /\ NoCtrl \notin u16
  BY SMT DEF IsOn, ON_CTRL, OFF_CTRL, NoCtrl, u16

LEMMA CtrlFrame ==
    ASSUME \/ Interrupt \/ Wake \/ Uart1Poll \/ RegisterReply \/ Uart1Clear
           \/ MatchReply \/ SaveReply \/ SaveShown \/ LearnReply \/ WildCall \/ Uart2Skip
           \/ Uart2Clear \/ SaveInfo \/ Blink \/ Link \/ SkipSecond \/ FiveSeconds \/ TenSeconds
           \/ UNCHANGED vars
    PROVE  CtrlQuiet
  <1> USE DEF CtrlQuiet, CtrlVars, module_info, timers, repeat, show, history, historyButWish
  <1>1. CASE Interrupt
    BY <1>1, Zenon DEF Interrupt, Uart1_input, Uart2_input
  <1>2. CASE Wake \/ Uart1Poll \/ RegisterReply \/ Uart1Clear
    BY <1>2, Zenon DEF Wake, Uart1Poll, RegisterReply, Uart1Clear
  <1>3. CASE MatchReply \/ SaveReply \/ SaveShown \/ LearnReply \/ WildCall
    BY <1>3, Zenon DEF MatchReply, SaveReply, SaveShown, LearnReply, WildCall
  <1>4. CASE Uart2Skip \/ Uart2Clear \/ SaveInfo \/ Blink \/ Link
    BY <1>4, Zenon DEF Uart2Skip, Uart2Clear, SaveInfo, Blink, Link
  <1>5. CASE SkipSecond \/ FiveSeconds \/ TenSeconds
    BY <1>5, Zenon DEF SkipSecond, FiveSeconds, TenSeconds
  <1>6. CASE UNCHANGED vars
    BY <1>6, Zenon DEF vars
  <1>7. QED
    BY <1>1, <1>2, <1>3, <1>4, <1>5, <1>6

LEMMA UiFrameCtrl ==
    ASSUME UiStep PROVE CtrlQuiet \/ \E mode \in {"MATCH", "LEARN"} : UiSelect(mode)
  <1>1. CASE \/ \E s \in UiStacks : UiPage(s)
             \/ \E e \in UiEvents : UiPost(e)
             \/ \E t \in Posters : UiStore(t)
    BY <1>1, Zenon DEF UiPage, UiPost, UiStore, UiFrame, CtrlQuiet, CtrlVars, timers, repeat, show
  <1>2. QED
    BY <1>1, UiAssumption, Zenon DEF UiStep

(* The effect of sending c.                                                *)
Sends(c) ==
    /\ lastSent' = c /\ ctrl' = c /\ switchState' = IsOn(c) /\ nowTemp' = getTempByCtrl(c)
    /\ unsent' = FALSE /\ select' = select
    /\ c \in {ON_CTRL, OFF_CTRL} \/ (select = "MATCH" /\ c = ctrl)

LEMMA TestEffect ==
    ASSUME NEW on \in BOOLEAN, SendTest(on), unsent' = FALSE, select' = select
    PROVE  \E c \in {ON_CTRL, OFF_CTRL} : Sends(c)
  BY FixedCtrl, Zenon DEF SendTest, Sends

LEMMA SentAfterSending ==
    ASSUME SentInv, NEW c, Sends(c), TypeOK PROVE SentInv'
  <1>1. InMode(select, c)' = c
    BY FixedCtrl, Zenon DEF Sends, InMode
  <1>2. QED
    BY <1>1, Zenon DEF Sends, SentInv, TypeOK, InfoType
(* IO_CHECK and the test page send at once and start the copies anew.      *)
LEMMA TestKeeps ==
    ASSUME CtrlInv, TypeOK, NEW on \in BOOLEAN, SendTest(on), copies' = 0, unsent' = FALSE,
           UNCHANGED <<select, repeat>>
    PROVE  CtrlInv'
  <1>1. PICK c \in {ON_CTRL, OFF_CTRL} : Sends(c)
    BY TestEffect
  <1>2. SentInv'
    BY <1>1, SentAfterSending DEF CtrlInv
  <1>3. sendCmdCnt' \in 0 .. 2
    BY DEF repeat, TypeOK, SendType
  <1>4. ASSUME NEW n \in 0 .. 2 PROVE 0 \in Nat /\ 0 <= n + 1 /\ 0 <= n + 2 /\ 0 <= 1
    OBVIOUS
  <1>5. CopyInv'
    BY <1>3, <1>4, Zenon DEF CopyInv
  <1>6. QED
    BY <1>2, <1>5 DEF CtrlInv

(* A command of the hub: another one starts the copies anew; the one of    *)
(* ctrl_pre counts as sent if it is what was sent last.                    *)
LEMMA CommandKeeps == ASSUME CtrlInv, TypeOK, Command PROVE CtrlInv'
  <1>1. /\ pc' = "clear1"
        /\ UNCHANGED <<select, ctrl_pre, sendCmdCnt, switchState, nowTemp, lastSent>>
        /\ \/ UNCHANGED <<ctrl, copies, unsent>>
           \/ /\ copies' = IF ctrl' # ctrl THEN 0 ELSE copies
              /\ unsent' = IF ctrl' # ctrl
                           THEN ctrl' = ctrl_pre /\ lastSent # InMode(select, ctrl_pre)
                           ELSE unsent
    BY Zenon DEF Command, ReadMuti, WriteSingle, OtherFunction, repeat, show
  <1>2. CASE UNCHANGED <<ctrl, copies, unsent>>
    <2>1. SentInv'
      BY <1>1, <1>2, Zenon DEF CtrlInv, SentInv, InMode
    <2>2. CopyInv'
      BY <1>1, <1>2 DEF CtrlInv, CopyInv
    <2>3. QED
      BY <2>1, <2>2 DEF CtrlInv
  <1>3. CASE /\ ctrl' # ctrl /\ copies' = 0
             /\ unsent' = (ctrl' = ctrl_pre /\ lastSent # InMode(select, ctrl_pre))
    <2>1. ctrl_pre \in u16 /\ sendCmdCnt \in 0 .. 2 /\ select \in {"MATCH", "LEARN"}
      BY DEF TypeOK, SendType, InfoType
    <2>2. CopyInv'
      BY <1>1, <1>3, <2>1 DEF CopyInv
    <2>3. ctrl' = ctrl_pre => InMode(select, ctrl)' = InMode(select, ctrl_pre)
      BY <1>1, Zenon
    <2>4. SentInv'
      BY <1>1, <1>3, <2>3, Zenon DEF CtrlInv, SentInv
    <2>5. QED
      BY <2>2, <2>4 DEF CtrlInv
  <1>4. QED
    BY <1>1, <1>2, <1>3

(* The 1 s timer sends, or has nothing left to send.                       *)
LEMMA CtrlKeeps == ASSUME CtrlInv, TypeOK, Ctrl PROVE CtrlInv'
  <1>0. /\ select \in {"MATCH", "LEARN"} /\ sendCmdCnt \in 0 .. 2 /\ select' = select
        /\ IsOn(ctrl) \in BOOLEAN
    <2>1. IsOn(ctrl) \in BOOLEAN
      BY SMT DEF IsOn
    <2>2. QED
      BY <2>1 DEF Ctrl, TypeOK, SendType, InfoType
  <1>1. CASE ctrl_pre = ctrl /\ UNCHANGED <<repeat, show, ctrl, lastSent, copies, unsent>>
    BY <1>0, <1>1 DEF CtrlInv, SentInv, CopyInv, InMode, repeat, show
  <1>2. CASE /\ SendCtrl /\ copies' = copies + 1 /\ unsent' = FALSE
             /\ \/ ctrl_pre # ctrl /\ ctrl_pre' = ctrl /\ sendCmdCnt' = 0
                \/ /\ ctrl_pre = ctrl /\ ctrl_pre' = ctrl_pre
                   /\ sendCmdCnt' = sendCmdCnt + 1
    <2>1. PICK c : /\ Sends(c)
                   /\ select = "LEARN" => c \in {ON_CTRL, OFF_CTRL}
                   /\ select = "LEARN" /\ ctrl \in {ON_CTRL, OFF_CTRL} => c = ctrl
      <3>1. CASE select = "MATCH"
        <4>1. Sends(ctrl)
          BY <1>0, <1>2, <3>1, Zenon DEF SendCtrl, Sends
        <4>2. QED
          BY <3>1, <4>1
      <3>2. CASE select = "LEARN"
        <4>1. SendTest(IsOn(ctrl))
          BY <1>2, <3>2, Zenon DEF SendCtrl
        <4>2. PICK c \in {ON_CTRL, OFF_CTRL} : Sends(c)
          BY <1>0, <1>2, <4>1, TestEffect
        <4>3. ctrl' = (IF IsOn(ctrl) THEN ON_CTRL ELSE OFF_CTRL) /\ ctrl' = c
          BY <4>1, <4>2, Zenon DEF SendTest, Sends
        <4>4. ctrl \in {ON_CTRL, OFF_CTRL} => c = ctrl
          BY <4>3, FixedCtrl, Zenon
        <4>5. QED
          BY <4>2, <4>4
      <3>3. QED
        BY <1>0, <3>1, <3>2
    <2>2. SentInv'
      BY <2>1, SentAfterSending DEF CtrlInv
    <2>3. ctrl' = c /\ (select = "MATCH" => c = ctrl \/ c \in {ON_CTRL, OFF_CTRL})
      BY <2>1, Zenon DEF Sends
    <2>4. select = "MATCH" => ctrl' = ctrl
      BY <1>2, Zenon DEF SendCtrl
    <2>5. CopyInv'
      BY <1>0, <1>2, <2>1, <2>3, <2>4 DEF CtrlInv, CopyInv
    <2>6. QED
      BY <2>2, <2>5 DEF CtrlInv
  <1>3. QED
    BY <1>1, <1>2, Zenon DEF Ctrl

(* Another mode sends nothing by itself: what was sent before counts if it *)
(* is also what the new mode would send.                                   *)
LEMMA SelectKeeps ==
    ASSUME CtrlInv, TypeOK, NEW mode \in {"MATCH", "LEARN"}, UiSelect(mode) PROVE CtrlInv'
  <1>1. /\ pc' = pc /\ pc \in {"sleep", "saved"} /\ select' = mode
        /\ UNCHANGED <<ctrl, ctrl_pre, sendCmdCnt, switchState, nowTemp, lastSent>>
        /\ copies' = IF mode # select THEN 0 ELSE copies
        /\ unsent' = IF mode # select THEN ctrl = ctrl_pre /\ lastSent # InMode(mode, ctrl)
                                      ELSE unsent
    BY Zenon DEF UiSelect, UiFrame, UiRuns, repeat, show
  <1>2. CASE mode = select
    <2>1. UNCHANGED CtrlVars
      BY <1>1, <1>2, Zenon DEF CtrlVars
    <2>2. pc' # "5s"
      BY <1>1
    <2>3. QED
      BY <2>1, <2>2 DEF CtrlVars, CtrlInv, SentInv, CopyInv, InMode
  <1>3. CASE mode # select
    <2>1. copies' = 0 /\ unsent' = (ctrl = ctrl_pre /\ lastSent # InMode(mode, ctrl))
      BY <1>1, <1>3, Zenon
    <2>2. SentInv'
      <3>1. pc' # "5s"
        BY <1>1
      <3>2. InMode(select, ctrl)' = InMode(mode, ctrl)
        BY <1>1, Zenon
      <3>3. QED
        BY <1>1, <2>1, <3>1, <3>2, Zenon DEF CtrlInv, SentInv
    <2>3. CopyInv'
      <3>1. sendCmdCnt' \in 0 .. 2
        BY <1>1 DEF TypeOK, SendType
      <3>2. ASSUME NEW n \in 0 .. 2 PROVE 0 \in Nat /\ 0 <= n + 1 /\ 0 <= n + 2 /\ 0 <= 1
        OBVIOUS
      <3>3. QED
        BY <2>1, <3>1, <3>2, Zenon DEF CopyInv
    <2>4. QED
      BY <2>2, <2>3 DEF CtrlInv
  <1>4. QED
    BY <1>2, <1>3

LEMMA CtrlStep ==
    ASSUME CtrlInv, TypeOK, [UartNext]_vars PROVE CtrlInv'
  <1>1. CASE CtrlQuiet
    BY <1>1 DEF CtrlQuiet, CtrlVars, CtrlInv, SentInv, CopyInv, InMode, Touched
  <1>2. CASE \E state \in Pins : IoCheckProgram(state)
    <2>1. \/ CtrlQuiet
          \/ \E on \in BOOLEAN : SendTest(on) /\ copies' = 0 /\ unsent' = FALSE
                                 /\ UNCHANGED <<select, repeat>>
      BY <1>2, Zenon DEF IoCheckProgram, CtrlQuiet, CtrlVars, repeat, show
    <2>2. QED
      BY <1>1, <2>1, TestKeeps
  <1>3. CASE IrEvent
    <2>1. \/ CtrlQuiet
          \/ \E on \in BOOLEAN : SendTest(on) /\ copies' = 0 /\ unsent' = FALSE
                                 /\ UNCHANGED <<select, repeat>>
      BY <1>3, Zenon DEF IrEvent, CtrlQuiet, CtrlVars, repeat, show
    <2>2. QED
      BY <1>1, <2>1, TestKeeps
  <1>4. QED
    BY <1>1, <1>2, <1>3, CommandKeeps, CtrlKeeps, SelectKeeps, CtrlFrame, UiFrameCtrl
       DEF UartNext, UartStep

LEMMA CtrlInductive == UartSpec => []CtrlInv
  <1>1. UartInit => CtrlInv
    <2> SUFFICES ASSUME UartInit PROVE CtrlInv
      OBVIOUS
    <2>1. /\ unsent = TRUE /\ lastSent = NoCtrl /\ copies = 0 /\ sendCmdCnt = 2
          /\ ctrl_pre = ctrl /\ pc = "sleep"
      BY Zenon DEF UartInit
    <2>2. SentInv
      BY <2>1, Zenon DEF SentInv
    <2>3. CopyInv
      BY <2>1 DEF CopyInv
    <2>4. QED
      BY <2>2, <2>3 DEF CtrlInv
  <1>2. CtrlInv /\ TypeOK /\ [UartNext]_vars => CtrlInv'
    BY CtrlStep
  <1>3. QED
    BY <1>1, <1>2, UartTypeCorrect, PTL DEF UartSpec

(* What the hub wrote, what the air conditioner was sent last and what the *)
(* home page shows agree after every 1 s block, unless the command is      *)
(* ctrl_pre although something else, or nothing, was sent last (unsent):   *)
(* the comparison the code makes cannot see such a command.                *)
THEOREM CommandsReachAC == UartSpec => []CommandReachesAC
  <1>1. CtrlInv /\ TypeOK => CommandReachesAC
    <2> SUFFICES ASSUME CtrlInv, TypeOK, pc = "5s", Touched(time1S), ~unsent
                 PROVE  /\ lastSent = InMode(select, ctrl) /\ switchState = IsOn(ctrl)
                        /\ nowTemp = getTempByCtrl(InMode(select, ctrl))
      BY DEF CommandReachesAC
    <2>1. lastSent = InMode(select, ctrl)
      BY DEF CtrlInv, SentInv
    <2>2. ctrl \in u16 /\ ON_CTRL \in u16 /\ OFF_CTRL \in u16
      <3>1. ctrl \in u16
        BY DEF TypeOK, InfoType
      <3>2. ON_CTRL \in u16 /\ OFF_CTRL \in u16
        BY SMT DEF ON_CTRL, OFF_CTRL, u16
      <3>3. QED
        BY <3>1, <3>2
    <2>3. lastSent # NoCtrl /\ IsOn(InMode(select, ctrl)) = IsOn(ctrl)
      <3>1. InMode(select, ctrl) = ctrl \/ (IsOn(ctrl) /\ InMode(select, ctrl) = ON_CTRL)
            \/ (~IsOn(ctrl) /\ InMode(select, ctrl) = OFF_CTRL)
        BY Zenon DEF InMode
      <3>2. IsOn(ctrl) \in BOOLEAN
        BY SMT DEF IsOn
      <3>3. QED
        BY <2>1, <2>2, <3>1, <3>2, FixedCtrl, Zenon
    <2>4. QED
      BY <2>1, <2>3, Zenon DEF CtrlInv, SentInv
  <1>2. QED
    BY <1>1, CtrlInductive, UartTypeCorrect, PTL

(* In match mode no command is sent more often than three times, whichever *)
(* modes the user chose before and when.                                   *)
THEOREM NoCommandTooOften == UartSpec => []ThreeCopies
  <1>1. CtrlInv /\ TypeOK => ThreeCopies
    BY DEF CtrlInv, CopyInv, TypeOK, InfoType, SendType, ThreeCopies
  <1>2. QED
    BY <1>1, CtrlInductive, UartTypeCorrect, PTL
=============================================================================
