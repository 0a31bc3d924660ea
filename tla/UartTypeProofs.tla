--------------------------- MODULE UartTypeProofs ---------------------------
(***************************************************************************)
(* The type invariant of the UART thread, for all values of the constants: *)
(* addr stays a byte, ctrl 16 bits, no counter passes its limit, and the   *)
(* page stack holds pages only.                                            *)
(***************************************************************************)
EXTENDS UartTaskProofs

IoStep == \E state \in Pins : IoCheckProgram(state)

(* Which actions write which part of the state.                            *)
Writers ==
    /\ UNCHANGED timers \/ Wake
    /\ UNCHANGED io \/ IoStep
    /\ UNCHANGED find_location_cnt \/ Blink
    /\ UNCHANGED <<show, repeat>> \/ IoStep \/ IrEvent \/ Ctrl
    /\ UNCHANGED rx \/ Interrupt \/ Uart1Clear \/ Uart2Clear
    /\ UNCHANGED pageInfor \/ SaveShown \/ LearnReply \/ UiStep
    /\ UNCHANGED startFlag \/ Link
    /\ \/ UNCHANGED module_info
       \/ IoStep \/ RegisterReply \/ Command \/ MatchReply \/ Blink \/ IrEvent \/ Ctrl \/ UiStep

LEMMA WhoWrites == [UartNext]_vars => Writers
  <1> SUFFICES ASSUME [UartNext]_vars PROVE Writers
    OBVIOUS
  <1> USE DEF Writers, link
  <1>1. CASE Interrupt
    BY <1>1, Zenon DEF Interrupt, Uart1_input, Uart2_input
  <1>2. CASE UiStep
    BY <1>2, Zenon DEF UiStep, UiPage, UiPost, UiStore, UiSelect, UiFrame
  <1>3. CASE Wake
    BY <1>3, Zenon DEF Wake
  <1>4. CASE IoStep
    BY <1>4, Zenon DEF IoStep, IoCheckProgram
  <1>5. CASE Uart1Poll
    BY <1>5, Zenon DEF Uart1Poll
  <1>6. CASE RegisterReply
    BY <1>6, Zenon DEF RegisterReply
  <1>7. CASE Command
    BY <1>7, Zenon DEF Command
  <1>8. CASE Uart1Clear
    BY <1>8, Zenon DEF Uart1Clear
  <1>9. CASE MatchReply
    BY <1>9, Zenon DEF MatchReply
  <1>10. CASE SaveReply
    BY <1>10, Zenon DEF SaveReply
  <1>11. CASE SaveShown
    BY <1>11, Zenon DEF SaveShown
  <1>12. CASE LearnReply
    BY <1>12, Zenon DEF LearnReply
  <1>13. CASE Uart2Skip
    BY <1>13, Zenon DEF Uart2Skip
  <1>14. CASE Uart2Clear
    BY <1>14, Zenon DEF Uart2Clear
  <1>15. CASE SaveInfo
    BY <1>15, Zenon DEF SaveInfo
  <1>16. CASE Blink
    BY <1>16, Zenon DEF Blink
  <1>17. CASE IrEvent
    BY <1>17, Zenon DEF IrEvent
  <1>18. CASE Link
    BY <1>18, Zenon DEF Link
  <1>19. CASE Ctrl
    BY <1>19, Zenon DEF Ctrl
  <1>20. CASE SkipSecond
    BY <1>20, Zenon DEF SkipSecond
  <1>21. CASE FiveSeconds
    BY <1>21, Zenon DEF FiveSeconds
  <1>22. CASE TenSeconds
    BY <1>22, Zenon DEF TenSeconds
  <1>23. CASE UNCHANGED vars
    BY <1>23, Zenon DEF vars
  <1>24. CASE WildCall
    BY <1>24, Zenon DEF WildCall
  <1>25. QED
    BY <1>1, <1>2, <1>3, <1>4, <1>5, <1>6, <1>7, <1>8, <1>9, <1>10, <1>11, <1>12, <1>13,
       <1>14, <1>15, <1>16, <1>17, <1>18, <1>19, <1>20, <1>21, <1>22, <1>23, <1>24, Zenon
       DEF UartNext, UartStep, IoStep

-----------------------------------------------------------------------------
(* The parts, one lemma each.                                              *)

LEMMA TimerRange ==
    ASSUME NEW touchTime \in Nat, NEW time \in 0 .. touchTime
    PROVE  TimerTask(time, touchTime) \in 0 .. touchTime
  BY DEF TimerTask

LEMMA TimerStep == TypeOK /\ [UartNext]_vars => TimerType'
  <1> SUFFICES ASSUME TypeOK, [UartNext]_vars PROVE TimerType'
    OBVIOUS
  <1>1. CASE UNCHANGED timers
    BY <1>1 DEF TypeOK, TimerType, timers
  <1>2. CASE Wake
    <2>1. /\ time100ms' = TimerTask(time100ms, T100ms) /\ time1S' = TimerTask(time1S, T1s)
          /\ time5S' = TimerTask(time5S, T5s) /\ time10S' = TimerTask(time10S, T10s)
      BY <1>2, Zenon DEF Wake
    <2>2. QED
      BY <2>1, TimerRange, TimeAssumption DEF TypeOK, TimerType
  <1>3. QED
    BY <1>1, <1>2, WhoWrites, Zenon DEF Writers

LEMMA CountStep == TypeOK /\ [UartNext]_vars => CountType'
  <1> SUFFICES ASSUME TypeOK, [UartNext]_vars PROVE CountType'
    OBVIOUS
  <1>1. Laststate' \in {0, 1} /\ continueTime' \in 0 .. IoTime
    <2>1. CASE UNCHANGED io
      BY <2>1 DEF TypeOK, CountType, io
    <2>2. CASE IoStep
      <3>1. PICK state \in Pins : IoCheckProgram(state)
        BY <2>2 DEF IoStep
      <3>2. Laststate' = Laststate \/ Laststate' = state
        BY <3>1, Zenon DEF IoCheckProgram, io
      <3>3. \/ continueTime' = continueTime
            \/ continueTime < IoTime /\ continueTime' = continueTime + 1
            \/ continueTime' = 0
        BY <3>1, Zenon DEF IoCheckProgram, io
      <3>4. QED
        BY <3>2, <3>3, PinAssumption, TimeAssumption DEF TypeOK, CountType
    <2>3. QED
      BY <2>1, <2>2, WhoWrites, Zenon DEF Writers
  <1>2. find_location_cnt' \in 0 .. BlinkMax
    <2>1. CASE UNCHANGED find_location_cnt
      BY <2>1 DEF TypeOK, CountType
    <2>2. CASE Blink
      <3>1. \/ find_location_cnt < BlinkMax /\ find_location_cnt' = find_location_cnt + 1
            \/ find_location_cnt' = 0
            \/ find_location_cnt' = find_location_cnt
        BY <2>2, Zenon DEF Blink
      <3>2. QED
        BY <3>1, TimeAssumption DEF TypeOK, CountType
    <2>3. QED
      BY <2>1, <2>2, WhoWrites, Zenon DEF Writers
  <1>3. QED
    BY <1>1, <1>2 DEF CountType

LEMMA WordIsNat == u16 \subseteq Nat
  BY SMT DEF u16

LEMMA TempRange ==
    ASSUME NEW c \in Nat PROVE getTempByCtrl(c) \in 16 .. 30
  BY DEF getTempByCtrl

(* What a test command leaves behind.                                      *)
LEMMA TestRange ==
    ASSUME NEW on \in BOOLEAN, SendTest(on)
    PROVE  ctrl' \in u16 /\ switchState' \in BOOLEAN /\ nowTemp' \in 16 .. 30
  <1>1. ctrl' = (IF on THEN ON_CTRL ELSE OFF_CTRL) /\ nowTemp' = getTempByCtrl(ctrl')
        /\ switchState' = on
    BY DEF SendTest
  <1>2. ON_CTRL \in u16 /\ OFF_CTRL \in u16
    BY SMT DEF ON_CTRL, OFF_CTRL, u16
  <1>3. ctrl' \in u16
    BY <1>1, <1>2
  <1>4. QED
    BY <1>1, <1>3, WordIsNat, TempRange

(* What a command leaves behind, in either mode.                           *)
LEMMA CtrlRange ==
    ASSUME TypeOK, SendCtrl
    PROVE  ctrl' \in u16 /\ switchState' \in BOOLEAN /\ nowTemp' \in 16 .. 30
  <1>1. ctrl \in u16 /\ ctrl \in Nat
    BY WordIsNat DEF TypeOK, InfoType
  <1>0. IsOn(ctrl) \in BOOLEAN
    BY SMT DEF IsOn
  <1>2. CASE SendTest(IsOn(ctrl))
    BY <1>0, <1>2, TestRange
  <1>3. CASE ctrl' = ctrl /\ switchState' = IsOn(ctrl) /\ nowTemp' = getTempByCtrl(ctrl)
    BY <1>0, <1>1, <1>3, TempRange
  <1>4. QED
    BY <1>2, <1>3, Zenon DEF SendCtrl

LEMMA SendStep == TypeOK /\ [UartNext]_vars => SendType'
  <1> SUFFICES ASSUME TypeOK, [UartNext]_vars PROVE SendType'
    OBVIOUS
  <1>1. CASE UNCHANGED <<show, repeat>>
    BY <1>1 DEF TypeOK, SendType, show, repeat
  <1>2. CASE IoStep
    <2>1. PICK state \in Pins : IoCheckProgram(state)
      BY <1>2 DEF IoStep
    <2>2. UNCHANGED repeat /\ (UNCHANGED show \/ SendTest(state = 0))
      BY <2>1, Zenon DEF IoCheckProgram
    <2>3. QED
      BY <2>2, TestRange DEF TypeOK, SendType, show, repeat
  <1>3. CASE IrEvent
    <2>1. UNCHANGED repeat /\ (UNCHANGED show \/ SendTest(infrared_event.event = "SEND_ON_TEST"))
      BY <1>3, Zenon DEF IrEvent
    <2>2. QED
      BY <2>1, TestRange DEF TypeOK, SendType, show, repeat
  <1>4. CASE Ctrl
    <2>1. CASE UNCHANGED <<show, repeat>>
      BY <2>1, <1>1
    <2>2. CASE SendCtrl /\ ctrl_pre' = ctrl /\ sendCmdCnt' = 0
      BY <2>2, CtrlRange DEF TypeOK, InfoType, SendType
    <2>3. CASE SendCtrl /\ ctrl_pre' = ctrl_pre /\ sendCmdCnt < 2 /\ sendCmdCnt' = sendCmdCnt + 1
      BY <2>3, CtrlRange DEF TypeOK, SendType
    <2>4. QED
      BY <1>4, <2>1, <2>2, <2>3, Zenon DEF Ctrl, RepeatsLeft
  <1>5. QED
    BY <1>1, <1>2, <1>3, <1>4, WhoWrites, Zenon DEF Writers

LEMMA PageStep == TypeOK /\ [UartNext]_vars => PageType'
  <1> SUFFICES ASSUME TypeOK, [UartNext]_vars PROVE PageType'
    OBVIOUS
  <1>1. pageInfor \in Stack
    BY DEF TypeOK, PageType
  <1>2. pageReturn \in Stack
    BY <1>1 DEF pageReturn, Shr, Stack, Pages, HOME_PAGE, TEST_PAGE
  <1>3. CASE pageInfor' \in {pageInfor, pageReturn}
    BY <1>1, <1>2, <1>3 DEF PageType
  <1>4. CASE SaveShown \/ LearnReply
    BY <1>3, <1>4, Zenon DEF SaveShown, LearnReply
  <1>5. CASE UiStep
    <2>1. pageInfor' = pageInfor \/ \E s \in UiStacks : pageInfor' = s
      BY <1>5, Zenon DEF UiStep, UiPage, UiPost, UiStore, UiSelect
    <2>2. QED
      BY <1>1, <2>1, UiAssumption DEF PageType
  <1>6. QED
    BY <1>3, <1>4, <1>5, WhoWrites, Zenon DEF Writers

LEMMA RxStep == TypeOK /\ [UartNext]_vars => RxType'
  <1> SUFFICES ASSUME TypeOK, [UartNext]_vars PROVE RxType'
    OBVIOUS
  <1>1. /\ uart1_msg \in [messageFlag : BOOLEAN, size : Nat, data : [Words -> Nat]]
        /\ uart2_msg.messageFlag \in BOOLEAN /\ uart2_msg.code \in Nat
    BY DEF TypeOK, RxType
  <1>2. CASE UNCHANGED rx
    BY <1>1, <1>2 DEF RxType, rx
  <1>3. ASSUME NEW f \in HubFrames, Uart1_input(f) PROVE RxType'
    <2>1. PICK data : /\ data = [p \in Words |-> IF p \in DOMAIN f.words THEN f.words[p]
                                                                        ELSE uart1_msg.data[p]]
                      /\ uart1_msg' = [messageFlag |-> uart1_msg.messageFlag \/ Accepts(f, data[0]),
                                       size |-> f.size, data |-> data]
      BY <1>3 DEF Uart1_input
    <2>2. uart2_msg' = uart2_msg
      BY <1>3, Zenon DEF Uart1_input
    <2>3. data \in [Words -> Nat] /\ f.size \in Nat
      BY <1>1, <2>1, HubAssumption
    <2>4. (uart1_msg.messageFlag \/ Accepts(f, data[0])) \in BOOLEAN
      BY Zenon
    <2>5. QED
      BY <1>1, <2>1, <2>2, <2>3, <2>4 DEF RxType
  <1>4. ASSUME NEW f \in ChipFrames, Uart2_input(f) PROVE RxType'
    <2>1. /\ uart2_msg'.code = f.code
          /\ uart2_msg'.messageFlag = (uart2_msg.messageFlag \/ (f.size > 2 /\ f.start = "AA55"))
          /\ uart1_msg' = uart1_msg
      BY <1>4 DEF Uart2_input
    <2>2. QED
      BY <1>1, <2>1, ChipAssumption DEF RxType
  <1>5. CASE Uart1Clear
    <2>1. uart1_msg' = [uart1_msg EXCEPT !.messageFlag = FALSE] /\ uart2_msg' = uart2_msg
      BY <1>5, Zenon DEF Uart1Clear
    <2>2. QED
      BY <1>1, <2>1 DEF RxType
  <1>6. CASE Uart2Clear
    <2>1. uart2_msg' = [uart2_msg EXCEPT !.messageFlag = FALSE] /\ uart1_msg' = uart1_msg
      BY <1>6, Zenon DEF Uart2Clear
    <2>2. QED
      BY <1>1, <2>1 DEF RxType
  <1>7. QED
    BY <1>2, <1>3, <1>4, <1>5, <1>6, WhoWrites, Zenon DEF Writers, Interrupt

(* An event in the range of another one's call_back.                       *)
LEMMA EventRange ==
    ASSUME NEW old \in infrared_event_t, NEW e \in Events
    PROVE  Event(e, old.call_back) \in infrared_event_t
  BY DEF Event, infrared_event_t

LEMMA PostRange ==
    ASSUME NEW e \in Events, NEW cb \in CallBacks PROVE Event(e, cb) \in infrared_event_t
  BY DEF Event, infrared_event_t

LEMMA EventStep == TypeOK /\ [UartNext]_vars => EventType'
  <1> SUFFICES ASSUME TypeOK, [UartNext]_vars PROVE EventType'
    OBVIOUS
  <1> DEFINE Flags == /\ storing \in [Posters -> CallBacks \cup {"none"}]
                      /\ cut \in Posters \cup {"no", "yes"} /\ localCut \in BOOLEAN
  <1>1. infrared_event \in infrared_event_t /\ local_event \in infrared_event_t /\ Flags
    BY DEF TypeOK, EventType
  <1>2. "SEND_SAVE" \in Events /\ "NULL" \in Events
    BY DEF Events
  <1>3. CASE UNCHANGED EventVars
    BY <1>1, <1>3 DEF EventVars, EventType
  <1>4. CASE MatchReply \/ SaveReply \/ SaveShown \/ LearnReply
    <2>1. /\ \/ local_event' = local_event
             \/ local_event' = Event("SEND_SAVE", local_event.call_back)
             \/ local_event' = Event("NULL", local_event.call_back)
          /\ infrared_event' \in {infrared_event, local_event, local_event'}
          /\ cut' \in {cut, "yes", "no"} /\ UNCHANGED <<storing, localCut>>
      BY <1>4, Zenon DEF MatchReply, SaveReply, SaveShown, LearnReply, WriteBack, posting
    <2>2. local_event' \in infrared_event_t
      BY <1>1, <1>2, <2>1, EventRange
    <2>3. QED
      BY <1>1, <2>1, <2>2 DEF EventType
  <1>5. CASE IrEvent
    <2>1. /\ \/ local_event' = infrared_event
             \/ local_event' = Event("NULL", infrared_event.call_back)
          /\ infrared_event' \in {infrared_event, local_event'}
          /\ cut' \in {cut, "no"} /\ UNCHANGED storing /\ localCut' \in BOOLEAN
      BY <1>5, Zenon DEF IrEvent, Finish
    <2>2. local_event' \in infrared_event_t
      BY <1>1, <1>2, <2>1, EventRange
    <2>3. QED
      BY <1>1, <2>1, <2>2 DEF EventType
  <1>6. ASSUME NEW e \in UiEvents, UiPost(e) PROVE EventType'
    <2>1. e \in Events
      BY <1>6, UiAssumption DEF Events
    <2>2. /\ local_event' = local_event /\ localCut' = localCut
          /\ \E t \in Posters, cb \in CallBacks : Posts(t, e, cb)
      <3>1. "oled" \in Posters /\ "button" \in Posters
        BY DEF Posters
      <3>2. {"matchCallBack", "learnCallBack", "undefined"} \subseteq CallBacks
        BY DEF CallBacks
      <3>3. QED
        BY <1>6, <3>1, <3>2, WhatIsPosted
    <2>3. QED
      BY <1>1, <2>1, <2>2, EventRange DEF Posts, EventType
  <1>7. ASSUME NEW t \in Posters, UiStore(t) PROVE EventType'
    <2>1. /\ infrared_event' = Event(infrared_event.event, storing[t])
          /\ storing' = [storing EXCEPT ![t] = "none"] /\ storing[t] # "none"
          /\ cut' \in {"no", "yes"} /\ UNCHANGED <<local_event, localCut>>
      BY <1>7, Zenon DEF UiStore, UiFrame
    <2>2. infrared_event.event \in Events /\ storing[t] \in CallBacks
      BY <1>1, <2>1 DEF infrared_event_t
    <2>3. QED
      BY <1>1, <2>1, <2>2, PostRange DEF EventType
  <1>8. CASE UiStep
    <2>1. CASE \/ \E s \in UiStacks : UiPage(s)
               \/ \E mode \in UiSelects : UiSelect(mode)
      BY <1>3, <2>1, Zenon DEF UiPage, UiSelect, UiFrame, EventVars
    <2>2. QED
      BY <1>6, <1>7, <1>8, <2>1, Zenon DEF UiStep
  <1>9. QED
    BY <1>3, <1>4, <1>5, <1>8, EventFrame DEF UartNext, UartStep, vars, EventVars, posting

LEMMA PcStep == TypeOK /\ [UartNext]_vars => PcType'
  <1> SUFFICES ASSUME TypeOK, [UartNext]_vars PROVE PcType'
    OBVIOUS
  <1> USE DEF PcType
  <1>1. CASE pc' = pc
    BY <1>1 DEF TypeOK
  <1>2. CASE Interrupt \/ UiStep \/ UNCHANGED vars
    BY <1>1, <1>2, Zenon DEF Interrupt, Uart1_input, Uart2_input, UiStep, UiPage,
                             UiPost, UiStore, UiSelect, UiFrame, vars
  <1>3. CASE Wake \/ IoStep \/ Uart1Poll \/ RegisterReply \/ Command \/ Uart1Clear
    <2>1. pc' \in {"io", "uart1", "uart2", "register", "command", "clear1"}
      BY <1>3 DEF Wake, IoStep, IoCheckProgram, Uart1Poll, RegisterReply, Command, Uart1Clear
    <2>2. QED
      BY <2>1
  <1>4. CASE \/ MatchReply \/ SaveReply \/ SaveShown \/ LearnReply \/ WildCall
             \/ Uart2Skip \/ Uart2Clear
    <2>1. pc' \in {"clear2", "saved", "save", "fault"}
      BY <1>4, Zenon DEF MatchReply, SaveReply, SaveShown, LearnReply, WildCall, Uart2Skip,
                         Uart2Clear
    <2>2. QED
      BY <2>1
  <1>5. CASE SaveInfo \/ Blink \/ IrEvent \/ Link \/ Ctrl
    <2>1. pc' \in {"100ms", "1s", "link", "ctrl", "5s"}
      BY <1>5, Zenon DEF SaveInfo, Blink, IrEvent, Link, Ctrl
    <2>2. QED
      BY <2>1
  <1>6. CASE SkipSecond \/ FiveSeconds \/ TenSeconds
    <2>1. pc' \in {"5s", "10s", "sleep"}
      BY <1>6, Zenon DEF SkipSecond, FiveSeconds, TenSeconds
    <2>2. QED
      BY <2>1
  <1>7. QED
    BY <1>2, <1>3, <1>4, <1>5, <1>6, Zenon DEF UartNext, UartStep, IoStep

(* LinkInv already has the ranges of the registration logic but one.       *)
LEMMA LinkTypeStep == TypeOK /\ LinkInv' /\ [UartNext]_vars => LinkType'
  <1> SUFFICES ASSUME TypeOK, LinkInv', [UartNext]_vars PROVE LinkType'
    OBVIOUS
  <1>1. startFlag' = startFlag \/ startFlag' = TRUE
    BY WhoWrites, Zenon DEF Writers, Link
  <1>2. startFlag' \in BOOLEAN
    BY <1>1, Zenon DEF TypeOK, LinkType
  <1>3. QED
    BY <1>2, Zenon DEF LinkInv, LinkType

(* The only values written to a byte and to a word register are reduced.   *)
LEMMA Reduced ==
    ASSUME NEW n \in Nat PROVE n % 256 \in u8 /\ n % 65536 \in u16
  BY SMT DEF u8, u16

LEMMA WordsAreNat ==
    ASSUME TypeOK, NEW p \in Words PROVE uart1_msg.data[p] \in Nat
  BY DEF TypeOK, RxType

(* A command writes the address or ctrl, and marks the module registered.  *)
LEMMA CommandInfo ==
    ASSUME TypeOK, Command
    PROVE  addr' \in u8 /\ ctrl' \in u16 /\ find_location' \in BOOLEAN
  <1>1. addr \in u8 /\ ctrl \in u16 /\ find_location \in BOOLEAN
    BY DEF TypeOK, InfoType
  <1>2. uart1_msg.data[4] \in Nat
    BY WordsAreNat DEF Words
  <1>3. CASE ReadMuti
    <2>1. UNCHANGED <<addr, ctrl>> /\ find_location' \in BOOLEAN
      BY <1>3, Zenon DEF ReadMuti
    <2>2. QED
      BY <1>1, <2>1
  <1>4. CASE WriteSingle
    <2>1. setRegister(uart1_msg.data[2], uart1_msg.data[4]) /\ find_location' \in BOOLEAN
      BY <1>4, Zenon DEF WriteSingle
    <2>2. /\ addr' = addr \/ addr' = uart1_msg.data[4] % 256
          /\ ctrl' = ctrl \/ ctrl' = uart1_msg.data[4] % 65536
      BY <2>1, SMT DEF setRegister
    <2>3. QED
      BY <1>1, <1>2, <2>1, <2>2, Reduced, SMT
  <1>5. CASE OtherFunction
    <2>1. UNCHANGED <<addr, ctrl, find_location>>
      BY <1>5, Zenon DEF OtherFunction
    <2>2. QED
      BY <1>1, <2>1
  <1>6. QED
    BY <1>3, <1>4, <1>5, Zenon DEF Command

LEMMA InfoStep == TypeOK /\ [UartNext]_vars => InfoType'
  <1> SUFFICES ASSUME TypeOK, [UartNext]_vars PROVE InfoType'
    OBVIOUS
  <1>0. InfoType
    BY DEF TypeOK
  <1>1. CASE UNCHANGED module_info
    BY <1>0, <1>1 DEF InfoType, module_info
  <1>2. CASE IoStep
    <2>1. PICK state \in Pins : IoCheckProgram(state)
      BY <1>2 DEF IoStep
    <2>2. /\ UNCHANGED <<addr, register_state, brand_code, select, find_location>>
          /\ UNCHANGED ctrl \/ SendTest(state = 0)
      BY <2>1, Zenon DEF IoCheckProgram
    <2>3. ctrl' \in u16
      BY <1>0, <2>2, TestRange DEF InfoType
    <2>4. QED
      BY <1>0, <2>2, <2>3 DEF InfoType
  <1>3. CASE RegisterReply
    <2>1. /\ UNCHANGED <<brand_code, ctrl, select, find_location>>
          /\ register_state' = register_state \/ register_state' = TRUE
          /\ addr' = addr \/ addr' = uart1_msg.data[7] % 256
      BY <1>3, Zenon DEF RegisterReply
    <2>2. uart1_msg.data[7] \in Nat
      BY WordsAreNat DEF Words
    <2>3. addr' \in u8
      BY <1>0, <2>1, <2>2, Reduced, SMT DEF InfoType
    <2>4. QED
      BY <1>0, <2>1, <2>3 DEF InfoType
  <1>4. CASE Command
    <2>1. UNCHANGED <<brand_code, select>> /\ register_state' = TRUE
      BY <1>4, Zenon DEF Command
    <2>2. QED
      BY <1>0, <1>4, <2>1, CommandInfo DEF InfoType
  <1>5. CASE MatchReply
    <2>1. /\ UNCHANGED <<addr, register_state, ctrl, select, find_location>>
          /\ brand_code' = uart2_msg.code
      BY <1>5, Zenon DEF MatchReply
    <2>2. QED
      BY <1>0, <2>1 DEF InfoType, TypeOK, RxType
  <1>6. CASE Blink
    <2>1. /\ UNCHANGED <<addr, register_state, brand_code, ctrl, select>>
          /\ find_location' = find_location \/ find_location' = FALSE
      BY <1>6, Zenon DEF Blink
    <2>2. QED
      BY <1>0, <2>1 DEF InfoType
  <1>7. CASE IrEvent
    <2>1. /\ UNCHANGED <<addr, register_state, brand_code, select, find_location>>
          /\ UNCHANGED ctrl \/ SendTest(infrared_event.event = "SEND_ON_TEST")
      BY <1>7, Zenon DEF IrEvent
    <2>2. ctrl' \in u16
      BY <1>0, <2>1, TestRange DEF InfoType
    <2>3. QED
      BY <1>0, <2>1, <2>2 DEF InfoType
  <1>8. CASE Ctrl
    <2>1. /\ UNCHANGED <<addr, register_state, brand_code, select, find_location>>
          /\ UNCHANGED ctrl \/ SendCtrl
      BY <1>8, Zenon DEF Ctrl
    <2>2. ctrl' \in u16
      BY <1>0, <2>1, CtrlRange DEF InfoType
    <2>3. QED
      BY <1>0, <2>1, <2>2 DEF InfoType
  <1>9. CASE UiStep
    <2>1. /\ UNCHANGED <<addr, register_state, brand_code, ctrl, find_location>>
          /\ UNCHANGED select \/ \E mode \in UiSelects : select' = mode
      BY <1>9, Zenon DEF UiStep, UiPage, UiPost, UiStore, UiSelect, UiFrame
    <2>2. select' \in {"MATCH", "LEARN"}
      BY <1>0, <2>1, UiAssumption DEF InfoType
    <2>3. QED
      BY <1>0, <2>1, <2>2 DEF InfoType
  <1>10. QED
    BY <1>1, <1>2, <1>3, <1>4, <1>5, <1>6, <1>7, <1>8, <1>9, WhoWrites, Zenon DEF Writers

-----------------------------------------------------------------------------
LEMMA TypeInit == UartInit => TypeOK
  <1> SUFFICES ASSUME UartInit PROVE TypeOK
    OBVIOUS
  <1>0. /\ flash \in FlashImages
        /\ flash.addr \in u8 /\ flash.brand_code \in Nat /\ flash.ctrl \in u16
    BY FlashAssumption, Zenon DEF UartInit
  <1>1. InfoType
    <2>1. /\ addr \in {flash.addr, 1} /\ register_state = FALSE
          /\ brand_code = flash.brand_code /\ ctrl = flash.ctrl
          /\ find_location = FALSE
          /\ select = IF flash.select = "LEARN" THEN "LEARN" ELSE "MATCH"
      BY Zenon DEF UartInit, initModuleInfo
    <2>2. 1 \in u8
      BY SMT DEF u8
    <2>3. QED
      BY <1>0, <2>1, <2>2 DEF InfoType
  <1>2. EventType
    <2>1. /\ infrared_event = Event("NULL", "undefined")
          /\ local_event = Event("NULL", "undefined")
          /\ storing = [t \in Posters |-> "none"] /\ cut = "no" /\ localCut = FALSE
      BY Zenon DEF UartInit
    <2>2. Event("NULL", "undefined") \in infrared_event_t
      BY PostRange DEF Events, CallBacks
    <2>3. QED
      BY <2>1, <2>2 DEF EventType
  <1>3. PageType
    <2>1. pageInfor = <<0, 0, 0, HOME_PAGE>>
      BY Zenon DEF UartInit
    <2>2. QED
      BY <2>1 DEF PageType, Stack, Pages, HOME_PAGE, TEST_PAGE
  <1>4. PcType
    BY Zenon DEF UartInit, PcType
  <1>5. RxType
    <2>1. /\ uart1_msg = [messageFlag |-> FALSE, size |-> 0, data |-> [p \in Words |-> 0]]
          /\ uart2_msg = [messageFlag |-> FALSE, size |-> 0, start |-> "zero", command |-> 0,
                          code |-> 0]
      BY Zenon DEF UartInit
    <2>2. QED
      BY <2>1 DEF RxType
  <1>6. TimerType
    <2>1. time100ms = 0 /\ time1S = 0 /\ time5S = 0 /\ time10S = 0
      BY Zenon DEF UartInit
    <2>2. QED
      BY <2>1, TimeAssumption DEF TimerType
  <1>7. LinkType
    <2>1. /\ mater_envent = TRUE /\ master_event = FALSE
          /\ startFlag = FALSE /\ connect_monitor = 0
      BY Zenon DEF UartInit
    <2>2. connect_monitor \in 0 .. MonitorMax
      BY <2>1, TimeAssumption
    <2>3. QED
      BY <2>1, <2>2, Zenon DEF LinkType
  <1>8. SendType
    <2>1. /\ ctrl_pre = ctrl /\ sendCmdCnt = 2
          /\ switchState = FALSE /\ nowTemp = getTempByCtrl(OFF_CTRL)
      BY Zenon DEF UartInit
    <2>2. OFF_CTRL \in Nat
      BY SMT DEF OFF_CTRL
    <2>3. nowTemp \in 16 .. 30
      BY <2>1, <2>2, TempRange
    <2>4. sendCmdCnt \in 0 .. 2
      BY <2>1
    <2>5. ctrl_pre \in u16 /\ switchState \in BOOLEAN
      BY <1>1, <2>1, Zenon DEF InfoType
    <2>6. QED
      BY <2>3, <2>4, <2>5, Zenon DEF SendType
  <1>9. CountType
    <2>1. Laststate = 1 /\ continueTime = 0 /\ find_location_cnt = 0
      BY Zenon DEF UartInit
    <2>2. QED
      BY <2>1, TimeAssumption DEF CountType
  <1>10. QED
    BY <1>1, <1>2, <1>3, <1>4, <1>5, <1>6, <1>7, <1>8, <1>9, Zenon DEF TypeOK

(* The UART thread keeps every variable in the range its C type and use    *)
(* give it, whatever the hub, the chip, the pin and the user do: addr is a *)
(* byte, ctrl a word, no timer, repetition or blink counter passes its     *)
(* limit, no step index leaves the loop, and the page stack holds pages.   *)
THEOREM UartTypeCorrect == UartSpec => []TypeOK
  <1>1. UartInit => TypeOK /\ LinkInv
    BY TypeInit, LinkInit
  <1>2. TypeOK /\ LinkInv /\ [UartNext]_vars => (TypeOK /\ LinkInv)'
    BY LinkStep, InfoStep, EventStep, PageStep, PcStep, RxStep, TimerStep, LinkTypeStep,
       SendStep, CountStep, Zenon DEF TypeOK
  <1>3. QED
    BY <1>1, <1>2, PTL DEF UartSpec
=============================================================================
