--------------------------- MODULE UartTaskProofs ---------------------------
(***************************************************************************)
(* Proofs about the UART thread, for all timer lengths, all frames on both *)
(* lines, with or without a hub that waits, and all page choices.          *)
(***************************************************************************)
EXTENDS UartTask, TLAPS

(* All variables that the registration logic does not touch.               *)
LinkVars == <<register_state, mater_envent, master_event, startFlag, connect_monitor,
              quiet, answered>>

(* The registration logic, as an inductive invariant: the monitor counts   *)
(* the silence, the global event is justified at any time, and the local   *)
(* copy was justified when it was taken unless an answer has come since.   *)
LinkInv ==
    /\ register_state \in BOOLEAN /\ mater_envent \in BOOLEAN /\ master_event \in BOOLEAN
    /\ answered \in BOOLEAN
    /\ connect_monitor \in 0 .. MonitorMax
    /\ quiet = connect_monitor
    /\ mater_envent => ~register_state \/ quiet >= MonitorMax
    /\ master_event => ~register_state \/ quiet >= MonitorMax \/ answered

LEMMA LinkInit == UartInit => LinkInv
  <1> SUFFICES ASSUME UartInit PROVE LinkInv
    OBVIOUS
  <1>1. /\ register_state = FALSE /\ mater_envent = TRUE /\ master_event = FALSE
        /\ answered = FALSE /\ connect_monitor = 0 /\ quiet = 0
    BY Zenon DEF UartInit, initModuleInfo
  <1>2. MonitorMax \in Nat
    BY TimeAssumption
  <1>3. connect_monitor \in 0 .. MonitorMax
    BY <1>1, <1>2
  <1>4. QED
    BY <1>1, <1>3, Zenon DEF LinkInv

LEMMA LinkUnchanged == LinkInv /\ UNCHANGED LinkVars => LinkInv'
  BY DEF LinkInv, LinkVars

(* Steps that leave the registration logic alone.                          *)
LEMMA LinkFrame ==
    ASSUME \/ Interrupt \/ UiStep \/ Wake \/ (\E state \in Pins : IoCheckProgram(state))
           \/ Uart1Poll \/ Uart1Clear \/ MatchReply \/ SaveReply \/ SaveShown \/ LearnReply
           \/ WildCall \/ Uart2Skip \/ Uart2Clear \/ SaveInfo \/ Blink \/ Ctrl \/ SkipSecond \/ TenSeconds
    PROVE  UNCHANGED LinkVars
  <1> USE DEF LinkVars, module_info, rx, timers, link, repeat, show, io, store, history
  <1>1. CASE Interrupt
    BY <1>1 DEF Interrupt, Uart1_input, Uart2_input
  <1>2. CASE UiStep
    BY <1>2 DEF UiStep, UiPage, UiPost, UiStore, UiSelect, UiFrame
  <1>3. CASE Wake
    BY <1>3 DEF Wake
  <1>4. CASE \E state \in Pins : IoCheckProgram(state)
    BY <1>4 DEF IoCheckProgram
  <1>5. CASE Uart1Poll \/ Uart1Clear \/ Uart2Skip \/ Uart2Clear
    BY <1>5 DEF Uart1Poll, Uart1Clear, Uart2Skip, Uart2Clear
  <1>6. CASE MatchReply \/ SaveReply \/ SaveShown \/ LearnReply \/ WildCall
    BY <1>6 DEF MatchReply, SaveReply, SaveShown, LearnReply, WildCall, historyButWish
  <1>7. CASE SaveInfo \/ Blink \/ Ctrl \/ SkipSecond \/ TenSeconds
    BY <1>7 DEF SaveInfo, Blink, Ctrl, SkipSecond, TenSeconds
  <1>8. QED
    BY <1>1, <1>2, <1>3, <1>4, <1>5, <1>6, <1>7

LEMMA LinkStep == LinkInv /\ [UartNext]_vars => LinkInv'
  <1> SUFFICES ASSUME LinkInv, [UartNext]_vars PROVE LinkInv'
    OBVIOUS
  <1>0. MonitorMax \in Nat
    BY TimeAssumption
  <1>1. CASE RegisterReply
    <2>1. master_event' = master_event /\ connect_monitor' = connect_monitor /\ quiet' = quiet
      BY <1>1, Zenon DEF RegisterReply
    <2>2. CASE /\ mater_envent' = FALSE /\ answered' = TRUE
               /\ register_state' = TRUE \/ register_state' = register_state
      <3>1. register_state' \in BOOLEAN
        BY <2>2, Zenon DEF LinkInv
      <3>2. QED
        BY <2>1, <2>2, <3>1, Zenon DEF LinkInv
    <2>3. CASE /\ mater_envent' = mater_envent /\ answered' = answered
               /\ register_state' = register_state
      BY <2>1, <2>3, Zenon DEF LinkInv
    <2>4. QED
      BY <1>1, <2>2, <2>3, Zenon DEF RegisterReply
  <1>2. CASE Command
    <2>1. /\ register_state' = TRUE /\ mater_envent' = FALSE /\ answered' = TRUE
          /\ connect_monitor' = 0 /\ quiet' = 0 /\ master_event' = master_event
      BY <1>2, Zenon DEF Command
    <2>2. connect_monitor' \in 0 .. MonitorMax
      BY <2>1, <1>0
    <2>3. QED
      BY <2>1, <2>2, Zenon DEF LinkInv
  <1>3. CASE IrEvent
    <2>1. /\ master_event' = mater_envent /\ answered' = FALSE
          /\ UNCHANGED <<register_state, mater_envent, connect_monitor, quiet>>
      BY <1>3, Zenon DEF IrEvent
    <2>2. QED
      BY <2>1, <1>0 DEF LinkInv
  <1>4. CASE Link
    <2>1. /\ UNCHANGED <<register_state, master_event, answered>>
          /\ quiet' = IF quiet < MonitorMax THEN quiet + 1 ELSE quiet
          /\ \/ /\ connect_monitor < MonitorMax /\ connect_monitor' = connect_monitor + 1
                /\ mater_envent' = mater_envent
             \/ /\ connect_monitor >= MonitorMax /\ connect_monitor' = connect_monitor
                /\ mater_envent' = TRUE
      BY <1>4, <1>0 DEF Link, MonitorExpired, AskAgain, module_info, LinkInv
    <2>2. /\ connect_monitor' \in 0 .. MonitorMax
          /\ quiet' = connect_monitor'
          /\ quiet >= MonitorMax => quiet' >= MonitorMax
          /\ mater_envent' = mater_envent \/ quiet' >= MonitorMax
      BY <2>1, <1>0 DEF LinkInv
    <2>3. mater_envent' \in BOOLEAN
      BY <2>1, Zenon DEF LinkInv
    <2>4. /\ register_state' = register_state /\ master_event' = master_event
          /\ answered' = answered
      BY <2>1
    <2>5. mater_envent' => ~register_state' \/ quiet' >= MonitorMax
      BY <2>2, <2>4, Zenon DEF LinkInv
    <2>6. master_event' => ~register_state' \/ quiet' >= MonitorMax \/ answered'
      BY <2>2, <2>4, Zenon DEF LinkInv
    <2>7. QED
      BY <2>2, <2>3, <2>4, <2>5, <2>6, Zenon DEF LinkInv
  <1>5. CASE FiveSeconds
    BY <1>5 DEF FiveSeconds, WantsRegister, LinkInv, module_info, history
  <1>6. CASE UNCHANGED vars
    BY <1>6, LinkUnchanged DEF vars, LinkVars, module_info, link, history
  <1>7. QED
    BY <1>1, <1>2, <1>3, <1>4, <1>5, <1>6, LinkFrame, LinkUnchanged DEF UartNext, UartStep

(* Only the first registration and the 10 s timer register.                *)
LEMMA WhoRegisters ==
    ASSUME UartNext, tx1'.cmd = "register"
    PROVE  (Link /\ ~startFlag) \/ TenSeconds
  <1>1. NoTx.cmd # "register"
    BY DEF NoTx
  <1>2. CASE Interrupt
    BY <1>1, <1>2, Zenon DEF Interrupt, Uart1_input, Uart2_input
  <1>3. CASE UiStep
    BY <1>1, <1>3, Zenon DEF UiStep, UiPage, UiPost, UiStore, UiSelect, UiFrame, Quiet
  <1>4. CASE \E state \in Pins : IoCheckProgram(state)
    BY <1>1, <1>4, Zenon DEF IoCheckProgram
  <1>5. CASE Wake \/ Uart1Poll \/ RegisterReply \/ Uart1Clear \/ Uart2Skip \/ Uart2Clear
    BY <1>1, <1>5, Zenon DEF Wake, Uart1Poll, RegisterReply, Uart1Clear, Uart2Skip, Uart2Clear,
                             Quiet
  <1>6. CASE MatchReply \/ SaveReply \/ SaveShown \/ LearnReply \/ WildCall
    BY <1>1, <1>6, Zenon DEF MatchReply, SaveReply, SaveShown, LearnReply, WildCall, Quiet
  <1>7. CASE SaveInfo \/ Blink \/ IrEvent \/ Ctrl \/ SkipSecond \/ FiveSeconds
    BY <1>1, <1>7, Zenon DEF SaveInfo, Blink, IrEvent, Ctrl, SkipSecond, FiveSeconds, Quiet
  <1>8. CASE Command
    <2>1. CASE ReadMuti
      BY <1>1, <2>1 DEF ReadMuti, ToHub
    <2>2. CASE WriteSingle
      <3>1. tx1' = ToHub("write", addr', uart1_msg.data[2], 2)
        BY <2>2 DEF WriteSingle
      <3>2. QED
        BY <3>1 DEF ToHub
    <2>3. CASE OtherFunction
      BY <1>1, <2>3 DEF OtherFunction
    <2>4. QED
      BY <1>8, <2>1, <2>2, <2>3, Zenon DEF Command
  <1>9. CASE Link
    <2>1. startFlag => tx1' = NoTx
      BY <1>9 DEF Link
    <2>2. QED
      BY <1>1, <1>9, <2>1
  <1>10. QED
    BY <1>2, <1>3, <1>4, <1>5, <1>6, <1>7, <1>8, <1>9, Zenon DEF UartNext, UartStep

(* After the first registration another one needs a reason: the module is  *)
(* not registered, or the hub has been silent for MonitorMax seconds, or   *)
(* its answer came within the second for which the local event is stale.   *)
THEOREM RegistrationIsJustified == UartSpec => RegisterJustified
  <1>1. LinkInv /\ [UartNext]_vars =>
          [tx1'.cmd = "register" /\ startFlag
             => ~register_state \/ quiet >= MonitorMax \/ answered]_vars
    <2> SUFFICES ASSUME LinkInv, UartNext, tx1'.cmd = "register", startFlag
                 PROVE  ~register_state \/ quiet >= MonitorMax \/ answered
      OBVIOUS
    <2>1. TenSeconds
      BY WhoRegisters
    <2>2. master_event
      BY <2>1 DEF TenSeconds, NoTx
    <2>3. QED
      BY <2>2 DEF LinkInv
  <1>2. QED
    BY <1>1, LinkInit, LinkStep, PTL DEF UartSpec, RegisterJustified

-----------------------------------------------------------------------------
(* Events and their call_backs.  CallBackFits says nothing of a post under *)
(* way; PostInv adds that it will fit if nobody comes in between: then the *)
(* call_back still to be stored is that of the event already stored.       *)
EventVars == <<infrared_event, local_event, storing, cut, localCut>>

PostInv == \A t \in Posters : cut = t => Fits(Event(infrared_event.event, storing[t]))

FitsInv ==
    /\ storing \in [Posters -> CallBacks \cup {"none"}]
    /\ localCut \in BOOLEAN
    /\ CallBackFits /\ PostInv

LEMMA FitsNothing ==
    ASSUME NEW e \in Events \ {"SEND_MATCH", "SEND_SAVE", "SEND_LEARN_MODE_ON",
                               "SEND_LEARN_MODE_OFF"}, NEW cb
    PROVE  Fits(Event(e, cb))
  BY DEF Fits, Event, Events

LEMMA FitsMatch == Fits(Event("SEND_MATCH", "matchCallBack"))
  BY DEF Fits, Event

LEMMA FitsLearn ==
    /\ Fits(Event("SEND_LEARN_MODE_ON", "learnCallBack"))
    /\ Fits(Event("SEND_LEARN_MODE_OFF", "learnCallBack"))
  BY DEF Fits, Event

LEMMA EventFrame ==
    ASSUME \/ Interrupt \/ Wake \/ (\E state \in Pins : IoCheckProgram(state))
           \/ Uart1Poll \/ RegisterReply \/ Command \/ Uart1Clear \/ WildCall \/ Uart2Skip
           \/ Uart2Clear \/ SaveInfo \/ Blink \/ Link \/ Ctrl \/ SkipSecond \/ FiveSeconds
           \/ TenSeconds
    PROVE  UNCHANGED EventVars
  <1> USE DEF EventVars, posting
  <1>1. CASE Interrupt
    BY <1>1, Zenon DEF Interrupt, Uart1_input, Uart2_input
  <1>2. CASE \E state \in Pins : IoCheckProgram(state)
    BY <1>2, Zenon DEF IoCheckProgram
  <1>3. CASE Wake \/ Uart1Poll \/ RegisterReply \/ Command \/ Uart1Clear
    BY <1>3, Zenon DEF Wake, Uart1Poll, RegisterReply, Command, Uart1Clear
  <1>4. CASE WildCall \/ Uart2Skip \/ Uart2Clear \/ SaveInfo \/ Blink \/ Link
    BY <1>4, Zenon DEF WildCall, Uart2Skip, Uart2Clear, SaveInfo, Blink, Link
  <1>5. CASE Ctrl \/ SkipSecond \/ FiveSeconds \/ TenSeconds
    BY <1>5, Zenon DEF Ctrl, SkipSecond, FiveSeconds, TenSeconds
  <1>6. QED
    BY <1>1, <1>2, <1>3, <1>4, <1>5

(* What a thread is about to post.                                         *)
Posts(t, e, cb) ==
    /\ infrared_event' = Event(e, infrared_event.call_back)
    /\ storing' = [storing EXCEPT ![t] = cb]
    /\ cut' = t

LEMMA WhatIsPosted ==
    ASSUME NEW e, UiPost(e)
    PROVE  /\ local_event' = local_event /\ localCut' = localCut
           /\ \/ e = "SEND_MATCH" /\ Posts("oled", e, "matchCallBack")
              \/ /\ e \in {"SEND_LEARN_MODE_ON", "SEND_LEARN_MODE_OFF"}
                 /\ Posts("oled", e, "learnCallBack")
              \/ e \in TestEvents /\ Posts("oled", e, "undefined")
              \/ e \in OverEvents /\ Posts("button", e, "undefined")
  BY Zenon DEF UiPost, UiFrame, setinfraredEvent, Posts

(* The first store: the event does not fit yet, but will.                  *)
LEMMA PostKeeps == ASSUME FitsInv, NEW e, UiPost(e) PROVE FitsInv'
  <1>1. PICK t \in Posters, cb \in CallBacks : Posts(t, e, cb) /\ Fits(Event(e, cb))
    <2>1. "oled" \in Posters /\ "button" \in Posters
      BY DEF Posters
    <2>2. {"matchCallBack", "learnCallBack", "undefined"} \subseteq CallBacks
      BY DEF CallBacks
    <2>3. e \in TestEvents \cup OverEvents => Fits(Event(e, "undefined"))
      BY FitsNothing DEF TestEvents, OverEvents, PanelEvents, Events
    <2>4. QED
      BY <2>1, <2>2, <2>3, WhatIsPosted, FitsMatch, FitsLearn
  <1>2. local_event' = local_event /\ localCut' = localCut
    BY WhatIsPosted
  <1>3. storing' \in [Posters -> CallBacks \cup {"none"}] /\ storing'[t] = cb
    BY <1>1 DEF FitsInv, Posts
  <1>4. CallBackFits'
    <2>1. cut' # "no"
      BY <1>1 DEF Posts, Posters
    <2>2. QED
      BY <1>2, <2>1 DEF FitsInv, CallBackFits, Fits
  <1>5. PostInv'
    <2>1. infrared_event'.event = e /\ cut' = t
      BY <1>1 DEF Posts, Event
    <2>2. QED
      BY <1>1, <1>3, <2>1 DEF PostInv
  <1>6. QED
    BY <1>2, <1>3, <1>4, <1>5 DEF FitsInv

(* The second store completes the pair, or mixes two posts.                *)
LEMMA StoreKeeps == ASSUME FitsInv, NEW t \in Posters, UiStore(t) PROVE FitsInv'
  <1>1. /\ infrared_event' = Event(infrared_event.event, storing[t])
        /\ storing' = [storing EXCEPT ![t] = "none"]
        /\ cut' = IF cut = t THEN "no" ELSE "yes"
        /\ local_event' = local_event /\ localCut' = localCut
    BY Zenon DEF UiStore, UiFrame
  <1>2. CallBackFits'
    <2>1. cut' = "no" => Fits(infrared_event')
      BY <1>1 DEF FitsInv, PostInv
    <2>2. QED
      BY <1>1, <2>1 DEF FitsInv, CallBackFits, Fits
  <1>3. PostInv'
    BY <1>1 DEF PostInv, Posters
  <1>4. storing' \in [Posters -> CallBacks \cup {"none"}]
    BY <1>1 DEF FitsInv
  <1>5. QED
    BY <1>1, <1>2, <1>3, <1>4 DEF FitsInv

(* Writing back the local copy, with its event or a later one of the same  *)
(* flow.                                                                   *)
LEMMA WriteBackKeeps ==
    ASSUME FitsInv, WriteBack,
           \/ local_event' = local_event
           \/ local_event' = Event("NULL", local_event.call_back)
           \/ /\ local_event.event = "SEND_MATCH"
              /\ local_event' = Event("SEND_SAVE", local_event.call_back)
    PROVE  FitsInv'
  <1>1. /\ infrared_event' = local_event' /\ storing' = storing /\ localCut' = localCut
        /\ cut' = IF localCut THEN "yes" ELSE "no"
    BY Zenon DEF WriteBack
  <1>2. ~localCut => Fits(local_event')
    BY DEF FitsInv, CallBackFits, Fits, Event
  <1>3. CallBackFits'
    BY <1>1, <1>2 DEF FitsInv, CallBackFits, Fits
  <1>4. PostInv'
    BY <1>1 DEF PostInv, Posters
  <1>5. QED
    BY <1>1, <1>3, <1>4 DEF FitsInv

LEMMA FitsStep == FitsInv /\ [UartNext]_vars => FitsInv'
  <1> SUFFICES ASSUME FitsInv, [UartNext]_vars PROVE FitsInv'
    OBVIOUS
  <1>0. ASSUME UNCHANGED EventVars PROVE FitsInv'
    BY <1>0 DEF FitsInv, CallBackFits, PostInv, Fits, Event, EventVars
  <1>1. CASE MatchReply
    BY <1>1, WriteBackKeeps, Zenon DEF MatchReply, FromChip
  <1>2. CASE SaveReply
    <2>1. /\ local_event' = Event("NULL", local_event.call_back)
          /\ UNCHANGED <<infrared_event, storing, cut, localCut>> \/ WriteBack
      BY <1>2, Zenon DEF SaveReply, posting
    <2>2. CASE UNCHANGED <<infrared_event, storing, cut, localCut>>
      BY <2>1, <2>2 DEF FitsInv, CallBackFits, PostInv, Fits, Event
    <2>3. QED
      BY <2>1, <2>2, WriteBackKeeps
  <1>3. CASE SaveShown
    BY <1>3, WriteBackKeeps, Zenon DEF SaveShown
  <1>4. CASE LearnReply
    BY <1>0, <1>4, WriteBackKeeps, Zenon DEF LearnReply, EventVars, posting
  <1>5. CASE IrEvent
    <2>1. /\ \/ /\ local_event' = Event("NULL", infrared_event.call_back)
                /\ infrared_event' = local_event' /\ cut' = "no"
             \/ local_event' = infrared_event /\ UNCHANGED <<infrared_event, cut>>
          /\ storing' = storing /\ localCut' = (cut' # "no")
      BY <1>5, Zenon DEF IrEvent, Finish
    <2>2. CASE local_event' = infrared_event /\ UNCHANGED <<infrared_event, cut>>
      BY <2>1, <2>2 DEF FitsInv, CallBackFits, PostInv, Fits, Event
    <2>3. CASE /\ local_event' = Event("NULL", infrared_event.call_back)
               /\ infrared_event' = local_event' /\ cut' = "no"
      <3>1. Fits(local_event') /\ \A t \in Posters : cut' # t
        BY <2>3 DEF Fits, Event, Posters
      <3>2. CallBackFits' /\ PostInv'
        BY <2>3, <3>1 DEF CallBackFits, PostInv, Fits
      <3>3. QED
        BY <2>1, <2>3, <3>2 DEF FitsInv
    <2>4. QED
      BY <2>1, <2>2, <2>3
  <1>6. CASE UiStep
    <2>1. CASE \E s \in UiStacks : UiPage(s)
      BY <1>0, <2>1, Zenon DEF UiPage, UiFrame, EventVars
    <2>2. CASE \E mode \in UiSelects : UiSelect(mode)
      BY <1>0, <2>2, Zenon DEF UiSelect, UiFrame, EventVars
    <2>3. QED
      BY <1>6, <2>1, <2>2, PostKeeps, StoreKeeps, Zenon DEF UiStep
  <1>7. CASE UNCHANGED vars
    BY <1>0, <1>7 DEF vars, EventVars, posting
  <1>8. QED
    BY <1>0, <1>1, <1>2, <1>3, <1>4, <1>5, <1>6, <1>7, EventFrame DEF UartNext, UartStep

(* Matching, saving and learning call through a foreign or uninitialized   *)
(* call_back only if a post was cut in two: the UART thread copied or      *)
(* wrote the event between its two stores, or the display thread posted    *)
(* between those of a button's.  A complete post fits, and so does all     *)
(* that is copied from it and written back later.                          *)
THEOREM CallBacksFit == UartSpec => []CallBackFits
  <1>1. UartInit => FitsInv
    <2> SUFFICES ASSUME UartInit PROVE FitsInv
      OBVIOUS
    <2>1. /\ infrared_event = Event("NULL", "undefined")
          /\ local_event = Event("NULL", "undefined")
          /\ storing = [t \in Posters |-> "none"] /\ cut = "no" /\ localCut = FALSE
      BY Zenon DEF UartInit
    <2>2. QED
      BY <2>1 DEF FitsInv, CallBackFits, PostInv, Fits, Event, Posters
  <1>2. FitsInv => CallBackFits
    BY DEF FitsInv
  <1>3. QED
    BY <1>1, <1>2, FitsStep, PTL DEF UartSpec
=============================================================================
