------------------------------ MODULE UartTask ------------------------------
(***************************************************************************)
(* The UART thread (UartTaskEntry in Uart/Uart.c with module.c and         *)
(* infrared.c): every UART_PERIOD it polls the frames the two receive      *)
(* interrupts left in uart1_msg (hub) and uart2_msg (infrared chip), saves *)
(* module_info to flash, and runs the work of its four software timers.    *)
(*                                                                         *)
(* The interrupts can strike between any two steps.  The page threads have *)
(* lower priority, so they run only while this thread sleeps: between two  *)
(* iterations (pc = "sleep") and in the one-second delay of matchCallBack  *)
(* (pc = "saved").  They can be interrupted between any two stores.        *)
(***************************************************************************)
EXTENDS ModuleInfo, TLC

CONSTANTS
    T100ms, T1s, T5s, T10s, \* touchTime of the timers (2, 20, 100, 200)
    MonitorMax,             \* 30: 1 s ticks without a command before registering
    BlinkMax,               \* 600: 100 ms ticks the LED blinks
    IoTime,                 \* 30: periods an IO level must last
    MyId,                   \* uuid of this module, <<high word, low word>>
    FlashImages,            \* possible flash contents at power on
    HubFrames,              \* frames that may be seen on the hub's bus
    HubWaits,               \* TRUE: no frame while an accepted one is pending
    ChipFrames,             \* frames the infrared chip may send
    Pins,                   \* levels IO_CHECK may have
    UiStacks,               \* page stacks the pages may leave
    UiEvents,               \* events the pages may post
    UiSelects               \* modes the pages may select

REGISTER_CODE == 250

ASSUME TimeAssumption ==
    /\ T100ms \in Nat \ {0} /\ T1s \in Nat \ {0}
    /\ T5s \in Nat \ {0} /\ T10s \in Nat \ {0}
    /\ MonitorMax \in Nat /\ BlinkMax \in Nat /\ IoTime \in Nat

ASSUME FlashAssumption ==
    \A f \in FlashImages :
        /\ f.addr \in u8
        /\ f.brand_code \in Nat
        /\ f.ctrl \in u16
        /\ f.select \in {"MATCH", "LEARN", "erased"}

ASSUME HubAssumption ==
    /\ HubWaits \in BOOLEAN
    /\ \A f \in HubFrames :
          /\ f.size \in Nat
          /\ f.ok \in BOOLEAN
          /\ \A p \in DOMAIN f.words : f.words[p] \in Nat

ASSUME ChipAssumption == \A f \in ChipFrames : f.size \in Nat /\ f.code \in Nat

ASSUME PinAssumption == Pins \subseteq {0, 1}

ASSUME UiAssumption ==
    /\ UiStacks \subseteq Stack
    /\ UiEvents \subseteq PanelEvents
    /\ UiSelects \subseteq {"MATCH", "LEARN"}

VARIABLES
    pc,                                  \* next part of the iteration
    uart1_msg,                           \* [messageFlag, size, data]
    uart2_msg,                           \* [messageFlag, size, start, command, code]
    time100ms, time1S, time5S, time10S,  \* software timers
    mater_envent,                        \* global event for the hub, TRUE: EVENT_REGISTER
    master_event,                        \* local copy, refreshed every second
    local_event,                         \* local copy of infrared_event, likewise
    startFlag,                           \* the first registration has been sent
    connect_monitor,                     \* 1 s ticks without a command
    ctrl_pre, sendCmdCnt,                \* last command sent and its repetitions
    switchState, nowTemp,                \* what the home page shows
    Laststate, continueTime,             \* IO_CHECK debouncing, in periods
    find_location_cnt,                   \* 100 ms ticks blinked
    modulePre, flash,                    \* what was saved, and the flash itself
    storing,                             \* call_back a thread's post has yet to store
    tx1, tx2                             \* what this step sends to hub and chip

(* History variables: what happened, for the properties to refer to.       *)
VARIABLES
    quiet,      \* 1 s ticks since a command of the hub was handled
    answered,   \* a frame has cleaned the register event since the last 1 s tick
    accepted,   \* the frame whose acceptance set uart1_msg.messageFlag
    lastSent,   \* command last sent to the air conditioner, NoCtrl if none
    commanded,  \* the hub has written the control register
    copies,     \* periodic sends since ctrl or the mode last changed
    unsent,     \* ctrl is ctrl_pre, but something else, or nothing, was sent last
    saveSent,   \* a save command was sent since the last match result
    cut,        \* "no": both fields of infrared_event are of one post; a thread: its
                \* post has stored the event only; "yes": they are of two posts
    localCut,   \* local_event was copied from, or with, such a pair
    uiWants,    \* event the pages asked for last
    wish        \* and whether it is "fresh", "taken" by a 1 s tick, or "lost"

timers  == <<time100ms, time1S, time5S, time10S>>
rx      == <<uart1_msg, uart2_msg>>
link    == <<mater_envent, master_event, startFlag, connect_monitor>>
show    == <<switchState, nowTemp>>
repeat  == <<ctrl_pre, sendCmdCnt>>
io      == <<Laststate, continueTime>>
store   == <<modulePre, flash>>
tx      == <<tx1, tx2>>
posting == <<storing, cut, localCut>>
history == <<quiet, answered, accepted, lastSent, commanded, copies, unsent,
            saveSent, uiWants, wish>>

vars == <<module_info, infrared_event, posting, pageInfor, pc, rx, timers, link, local_event,
          repeat, show, io, find_location_cnt, store, tx, history>>

(* The threads that post events, the display thread before the buttons.    *)
Posters == {"oled", "button"}

NoTx    == [cmd |-> "none"]
NoCtrl  == -1
NoFrame == [size |-> 0, data |-> <<>>]

(* Words of a hub frame that the code reads, by byte offset: address or    *)
(* REGISTER_CODE, function, register or high uuid, value or low uuid, and  *)
(* the address in a registration reply.                                    *)
Words == {0, 1, 2, 4, 7}

(* Function codes and registers of the hub's commands.                     *)
READ_MUTI         == 3
WRITE_SINGLE      == 6
REGISTER_LOCATION == 0
REGISTER_ADDR     == 6
REGISTER_CTRL     == 256

(* The messages for the hub: registration and replies, with the address    *)
(* they carry and, in replies, the first register and the length field.    *)
ToHub(cmd, a, reg, len) == [cmd |-> cmd, addr |-> a, reg |-> reg, len |-> len]

(* The messages for the chip: a command, with the brand code and the       *)
(* control word it carries.                                                *)
ToChip(cmd, b, c) == [cmd |-> cmd, brand_code |-> b, ctrl |-> c]

(* What sendRegisterToMaster sends, and what the three over commands are:  *)
(* the same bytes.                                                         *)
Registration == ToHub("register", addr, 0, 6)
Over         == ToChip("over", 0, 0)

saved_info == [addr |-> addr, brand_code |-> brand_code, ctrl |-> ctrl, select |-> select]

-----------------------------------------------------------------------------
(* The address is reset when the stored CRC disagrees.  That CRC is        *)
(* computed over memory behind module_info, so its outcome is not a        *)
(* function of the image.                                                  *)
initModuleInfo == addr \in {flash.addr, 1} /\ register_state = FALSE

(* Power on up to the loop: module_info from flash, all else from its      *)
(* initializer.                                                            *)
UartInit ==
    /\ flash \in FlashImages
    /\ initModuleInfo
    /\ brand_code = flash.brand_code
    /\ ctrl = flash.ctrl
    /\ select = IF flash.select = "LEARN" THEN "LEARN" ELSE "MATCH"
    /\ find_location = FALSE
    /\ infrared_event = Event("NULL", "undefined")
    /\ local_event = Event("NULL", "undefined")
    /\ pageInfor = <<0, 0, 0, HOME_PAGE>>
    /\ pc = "sleep"
    /\ uart1_msg = [messageFlag |-> FALSE, size |-> 0, data |-> [p \in Words |-> 0]]
    /\ uart2_msg = [messageFlag |-> FALSE, size |-> 0, start |-> "zero", command |-> 0, code |-> 0]
    /\ time100ms = 0 /\ time1S = 0 /\ time5S = 0 /\ time10S = 0
    /\ mater_envent = TRUE /\ master_event = FALSE
    /\ startFlag = FALSE /\ connect_monitor = 0
    /\ ctrl_pre = ctrl /\ sendCmdCnt = 2
    /\ switchState = FALSE /\ nowTemp = getTempByCtrl(OFF_CTRL)
    /\ Laststate = 1 /\ continueTime = 0
    /\ find_location_cnt = 0
    /\ modulePre = [addr |-> 0, brand_code |-> 0, select |-> "MATCH"]
    /\ tx1 = NoTx /\ tx2 = NoTx
    /\ quiet = 0
    /\ answered = FALSE /\ accepted = NoFrame
    /\ lastSent = NoCtrl /\ commanded = FALSE /\ copies = 0 /\ unsent = TRUE
    /\ saveSent = FALSE /\ uiWants = "NULL" /\ wish = "taken"
    /\ storing = [t \in Posters |-> "none"] /\ cut = "no" /\ localCut = FALSE

-----------------------------------------------------------------------------
(* Interrupts.                                                             *)

(* Mutant: the CRC is not checked.                                         *)
Accepts_NoCrc(f, first) == f.size >= 2 /\ first \in {REGISTER_CODE, addr}

(* The filter: the frame starts with REGISTER_CODE or our address, and its *)
(* CRC is right.                                                           *)
Accepts(f, first) == f.size >= 2 /\ first \in {REGISTER_CODE, addr} /\ f.ok

(* The frame is copied over uart1_msg before it is filtered; bytes beyond  *)
(* its size keep their old values.  Only the flag depends on the filter.   *)
Uart1_input(f) ==
    /\ HubWaits => ~uart1_msg.messageFlag
    /\ LET data == [p \in Words |-> IF p \in DOMAIN f.words THEN f.words[p]
                                                            ELSE uart1_msg.data[p]]
       IN  /\ uart1_msg' = [messageFlag |-> uart1_msg.messageFlag \/ Accepts(f, data[0]),
                            size |-> f.size, data |-> data]
           /\ accepted' = IF f.ok /\ f.size >= 2 /\ data[0] \in {REGISTER_CODE, addr}
                          THEN [size |-> f.size, data |-> data] ELSE accepted
    /\ tx1' = NoTx /\ tx2' = NoTx
    /\ UNCHANGED <<module_info, infrared_event, posting, pageInfor, pc, uart2_msg, timers,
                   link, local_event, repeat, show, io, find_location_cnt, store, quiet,
                   answered, lastSent, commanded, copies, unsent, saveSent, uiWants, wish>>

Uart2_input(f) ==
    /\ uart2_msg' = [messageFlag |-> uart2_msg.messageFlag \/ (f.size > 2 /\ f.start = "AA55"),
                     size |-> f.size, start |-> f.start, command |-> f.command, code |-> f.code]
    /\ tx1' = NoTx /\ tx2' = NoTx
    /\ UNCHANGED <<module_info, infrared_event, posting, pageInfor, pc, uart1_msg, timers,
                   link, local_event, repeat, show, io, find_location_cnt, store, history>>

-----------------------------------------------------------------------------
(* The iteration.  Every step says what it sends, none by default.         *)
Quiet == tx1' = NoTx /\ tx2' = NoTx

(* rt_thread_mdelay ends; the four timers advance.                         *)
Wake ==
    /\ pc = "sleep" /\ pc' = "io"
    /\ time100ms' = TimerTask(time100ms, T100ms)
    /\ time1S' = TimerTask(time1S, T1s)
    /\ time5S' = TimerTask(time5S, T5s)
    /\ time10S' = TimerTask(time10S, T10s)
    /\ Quiet
    /\ UNCHANGED <<module_info, infrared_event, posting, pageInfor, rx, link, local_event,
                   repeat, show, io, find_location_cnt, store, history>>

(* sendMatchOnTest, sendMatchOffTest, sendlearnOn and sendlearnOff: send   *)
(* the fixed command of the selected mode, adopt it as ctrl and show it.   *)
SendTest(on) ==
    LET c == IF on THEN ON_CTRL ELSE OFF_CTRL
    IN  /\ tx2' = IF select = "MATCH" THEN ToChip("ctrl", brand_code, c) ELSE ToChip("learn", 0, c)
        /\ switchState' = on
        /\ ctrl' = c
        /\ nowTemp' = getTempByCtrl(c)
        /\ lastSent' = c

(* IoCheckProgram: a level of IO_CHECK that outlasts IoTime periods is a   *)
(* command of its own, as long as the module is not registered.            *)
IoCheckProgram(state) ==
    /\ pc = "io" /\ pc' = "uart1"
    /\ tx1' = NoTx
    /\ \/ /\ ~register_state /\ Laststate # state /\ continueTime >= IoTime
          /\ Laststate' = state
          /\ SendTest(state = 0)
          /\ copies' = 0 /\ unsent' = FALSE
          /\ UNCHANGED continueTime
       \/ /\ ~register_state /\ Laststate # state /\ continueTime < IoTime
          /\ continueTime' = continueTime + 1
          /\ tx2' = NoTx /\ UNCHANGED <<Laststate, show, ctrl, lastSent, copies, unsent>>
       \/ /\ ~register_state /\ Laststate = state
          /\ continueTime' = 0
          /\ tx2' = NoTx /\ UNCHANGED <<Laststate, show, ctrl, lastSent, copies, unsent>>
       \/ /\ register_state
          /\ tx2' = NoTx /\ UNCHANGED <<io, show, ctrl, lastSent, copies, unsent>>
    /\ UNCHANGED <<addr, register_state, brand_code, select, find_location, infrared_event,
                   posting, pageInfor, rx, timers, link, local_event, repeat,
                   find_location_cnt, store, quiet, answered, accepted, commanded, saveSent,
                   uiWants, wish>>

(* The flag and the first byte choose the handler.                         *)
Uart1Poll ==
    /\ pc = "uart1"
    /\ \/ ~uart1_msg.messageFlag /\ pc' = "uart2"
       \/ /\ uart1_msg.messageFlag /\ uart1_msg.data[0] = REGISTER_CODE
          /\ pc' = "register"
       \/ /\ uart1_msg.messageFlag /\ uart1_msg.data[0] # REGISTER_CODE
          /\ pc' = IF uart1_msg.data[0] = addr THEN "command" ELSE "clear1"
    /\ Quiet
    /\ UNCHANGED <<module_info, infrared_event, posting, pageInfor, rx, timers, link,
                   local_event, repeat, show, io, find_location_cnt, store, history>>

(* A registration reply; one for another module cleans the event as well.  *)
RegisterReply ==
    /\ pc = "register" /\ pc' = "clear1"
    /\ \/ /\ uart1_msg.size >= 6
          /\ \/ /\ <<uart1_msg.data[2], uart1_msg.data[4]>> = MyId
                /\ register_state' = TRUE
                /\ addr' = uart1_msg.data[7] % 256
             \/ /\ <<uart1_msg.data[2], uart1_msg.data[4]>> # MyId
                /\ UNCHANGED <<register_state, addr>>
          /\ mater_envent' = FALSE
          /\ answered' = TRUE
       \/ /\ uart1_msg.size < 6
          /\ UNCHANGED <<register_state, addr, mater_envent, answered>>
    /\ Quiet
    /\ UNCHANGED <<brand_code, ctrl, select, find_location, infrared_event, posting, pageInfor,
                   rx, timers, master_event, startFlag, connect_monitor, local_event, repeat,
                   show, io, find_location_cnt, store, quiet, accepted, lastSent, commanded,
                   copies, unsent, saveSent, uiWants, wish>>

(* getRegister has a side effect: reading REGISTER_LOCATION starts the     *)
(* blinking.                                                               *)
ReadsLocation(reg, num) == \E i \in 0 .. num - 1 : (reg + i) % 65536 = REGISTER_LOCATION

(* READ_MUTI: num is the low byte of the fourth word; without registers    *)
(* rt_malloc returns no buffer and there is no reply.  The length of the   *)
(* reply is a byte.                                                        *)
ReadMuti ==
    LET reg == uart1_msg.data[2]
        num == uart1_msg.data[4] % 256
    IN  /\ uart1_msg.data[1] = READ_MUTI
        /\ find_location' = (find_location \/ ReadsLocation(reg, num))
        /\ tx1' = IF num = 0 THEN NoTx ELSE ToHub("read", addr, reg, (num * 2) % 256)
        /\ UNCHANGED <<addr, ctrl, commanded, copies, unsent>>

(* What is sent for c in a mode: learn mode has just its on and off.       *)
InMode(mode, c) == IF mode = "MATCH" THEN c ELSE IF IsOn(c) THEN ON_CTRL ELSE OFF_CTRL

(* Two registers can be written; the address is a byte.                    *)
setRegister(reg, data) ==
    /\ addr' = IF reg = REGISTER_ADDR THEN data % 256 ELSE addr
    /\ ctrl' = IF reg = REGISTER_CTRL THEN data % 65536 ELSE ctrl

(* WRITE_SINGLE: setRegister, then a reply that reads the register back.   *)
WriteSingle ==
    LET reg   == uart1_msg.data[2]
        value == uart1_msg.data[4]
    IN  /\ uart1_msg.data[1] = WRITE_SINGLE /\ uart1_msg.size = 8
        /\ setRegister(reg, value)
        /\ find_location' = (find_location \/ reg = REGISTER_LOCATION)
        /\ tx1' = ToHub("write", addr', reg, 2)
        /\ commanded' = (commanded \/ reg = REGISTER_CTRL)
        /\ copies' = IF ctrl' # ctrl THEN 0 ELSE copies
        /\ unsent' = IF ctrl' # ctrl THEN ctrl' = ctrl_pre /\ lastSent # InMode(select, ctrl_pre)
                                     ELSE unsent

(* Any other function, or a WRITE_SINGLE of the wrong size: no effect.     *)
OtherFunction ==
    /\ uart1_msg.data[1] # READ_MUTI
    /\ uart1_msg.data[1] # WRITE_SINGLE \/ uart1_msg.size # 8
    /\ tx1' = NoTx
    /\ UNCHANGED <<addr, ctrl, find_location, commanded, copies, unsent>>

(* A frame to our address: analyzeMasterData, and the hub is connected.    *)
Command ==
    /\ pc = "command" /\ pc' = "clear1"
    /\ ReadMuti \/ WriteSingle \/ OtherFunction
    /\ register_state' = TRUE
    /\ mater_envent' = FALSE
    /\ connect_monitor' = 0
    /\ quiet' = 0 /\ answered' = TRUE
    /\ tx2' = NoTx
    /\ UNCHANGED <<brand_code, select, infrared_event, posting, pageInfor, rx, timers,
                   master_event, startFlag, local_event, repeat, show, io, find_location_cnt,
                   store, accepted, lastSent, saveSent, uiWants, wish>>

Uart1Clear ==
    /\ pc = "clear1" /\ pc' = "uart2"
    /\ uart1_msg' = [uart1_msg EXCEPT !.messageFlag = FALSE]
    /\ Quiet
    /\ UNCHANGED <<module_info, infrared_event, posting, pageInfor, uart2_msg, timers, link,
                   local_event, repeat, show, io, find_location_cnt, store, history>>

-----------------------------------------------------------------------------
(* A pending chip frame is judged by the local copy of the event.          *)
FromChip(e) == pc = "uart2" /\ uart2_msg.messageFlag /\ local_event.event = e

(* Both reply structures are 7 bytes long.                                 *)
IsReply == uart2_msg.size = 7

(* The local event replaces the global one, posted anew or not.            *)
WriteBack ==
    /\ infrared_event' = local_event'
    /\ cut' = IF localCut THEN "yes" ELSE "no"
    /\ wish' = IF wish = "fresh" THEN "lost" ELSE wish
    /\ UNCHANGED <<storing, localCut>>

historyButWish == <<quiet, answered, accepted, lastSent, commanded, copies, unsent, saveSent,
                    uiWants>>

(* A match result: adopt the brand code and go on to save it.              *)
IsMatch == IsReply /\ uart2_msg.start # "zero" /\ uart2_msg.command = 65

MatchReply ==
    /\ FromChip("SEND_MATCH") /\ IsMatch
    /\ pc' = "clear2"
    /\ brand_code' = uart2_msg.code
    /\ local_event' = Event("SEND_SAVE", local_event.call_back)
    /\ saveSent' = FALSE
    /\ WriteBack
    /\ Quiet
    /\ UNCHANGED <<addr, register_state, ctrl, select, find_location, pageInfor, rx, timers,
                   link, repeat, show, io, find_location_cnt, store, quiet, answered,
                   accepted, lastSent, commanded, copies, unsent, uiWants>>

(* Any reply ends the saving: matchCallBack shows the result for a second  *)
(* (pc = "saved"), and only then returns to the parent page and the event  *)
(* is written back.  learnCallBack, which a torn post can leave in its     *)
(* place, does nothing with this result.                                   *)
SaveReply ==
    /\ FromChip("SEND_SAVE") /\ IsReply
    /\ local_event' = Event("NULL", local_event.call_back)
    /\ \/ /\ local_event.call_back # "learnCallBack"
          /\ pc' = "saved"
          /\ UNCHANGED <<infrared_event, posting, wish>>
       \/ /\ local_event.call_back # "matchCallBack"
          /\ pc' = "clear2"
          /\ WriteBack
    /\ Quiet
    /\ UNCHANGED <<module_info, pageInfor, rx, timers, link, repeat, show, io,
                   find_location_cnt, store, historyButWish>>

SaveShown ==
    /\ pc = "saved" /\ pc' = "clear2"
    /\ pageInfor' = pageReturn
    /\ UNCHANGED local_event
    /\ WriteBack
    /\ Quiet
    /\ UNCHANGED <<module_info, rx, timers, link, repeat, show, io, find_location_cnt, store,
                   historyButWish>>

(* Learning: state 1 confirms the mode and writes the event back, state 3  *)
(* is its timeout.                                                         *)
LearnReply ==
    /\ FromChip("SEND_LEARN_MODE_ON") \/ FromChip("SEND_LEARN_MODE_OFF")
    /\ IsReply
    /\ pc' = "clear2"
    /\ \/ /\ uart2_msg.code % 256 = 1
          /\ UNCHANGED <<local_event, pageInfor>>
          /\ WriteBack
       \/ /\ uart2_msg.code % 256 = 3
          /\ local_event' = Event("NULL", local_event.call_back)
          /\ WriteBack
          /\ pageInfor' = pageReturn
       \/ /\ uart2_msg.code % 256 \notin {1, 3}
          /\ UNCHANGED <<local_event, infrared_event, posting, pageInfor, wish>>
    /\ Quiet
    /\ UNCHANGED <<module_info, rx, timers, link, repeat, show, io, find_location_cnt,
                   store, historyButWish>>

(* A call through a pointer nobody has set: the zero of power on, or what  *)
(* a button call_back or the test page left uninitialized.  If it points   *)
(* to one of the call_backs the steps above happen, otherwise a hard fault *)
(* ends everything; what the handler had written by then no one reads.     *)
WildCall ==
    /\ local_event.call_back = "undefined"
    /\ \/ FromChip("SEND_MATCH") /\ IsMatch
       \/ FromChip("SEND_SAVE") /\ IsReply
       \/ /\ FromChip("SEND_LEARN_MODE_ON") \/ FromChip("SEND_LEARN_MODE_OFF")
          /\ IsReply /\ uart2_msg.code % 256 = 1
    /\ pc' = "fault"
    /\ Quiet
    /\ UNCHANGED <<module_info, infrared_event, posting, pageInfor, rx, timers, link,
                   local_event, repeat, show, io, find_location_cnt, store, history>>

(* No frame, or one the event in progress has no use for.                  *)
Uart2Skip ==
    /\ pc = "uart2"
    /\ \/ ~uart2_msg.messageFlag /\ pc' = "save"
       \/ /\ uart2_msg.messageFlag /\ pc' = "clear2"
          /\ local_event.event = "SEND_MATCH" => ~IsMatch
          /\ local_event.event \in {"SEND_SAVE", "SEND_LEARN_MODE_ON", "SEND_LEARN_MODE_OFF"}
                => ~IsReply
    /\ Quiet
    /\ UNCHANGED <<module_info, infrared_event, posting, pageInfor, rx, timers, link,
                   local_event, repeat, show, io, find_location_cnt, store, history>>

Uart2Clear ==
    /\ pc = "clear2" /\ pc' = "save"
    /\ uart2_msg' = [uart2_msg EXCEPT !.messageFlag = FALSE]
    /\ Quiet
    /\ UNCHANGED <<module_info, infrared_event, posting, pageInfor, uart1_msg, timers, link,
                   local_event, repeat, show, io, find_location_cnt, store, history>>

(* Mutant: a new brand code does not count as a change.                    *)
Changed_NoBrand == modulePre.addr # addr \/ modulePre.select # select

(* Mutant: a new address does not count as a change.                       *)
Changed_NoAddr == modulePre.brand_code # brand_code \/ modulePre.select # select

(* module_info goes to flash when one of three fields has changed.         *)
Changed ==
    modulePre # [addr |-> addr, brand_code |-> brand_code, select |-> select]

SaveInfo ==
    /\ pc = "save" /\ pc' = "100ms"
    /\ \/ /\ Changed
          /\ modulePre' = [addr |-> addr, brand_code |-> brand_code, select |-> select]
          /\ flash' = saved_info
       \/ ~Changed /\ UNCHANGED store
    /\ Quiet
    /\ UNCHANGED <<module_info, infrared_event, posting, pageInfor, rx, timers, link,
                   local_event, repeat, show, io, find_location_cnt, history>>

(* Mutant: the ticks are not counted.                                      *)
Blink_Stuck ==
    /\ pc = "100ms" /\ pc' = "1s"
    /\ \/ /\ Touched(time100ms) /\ find_location /\ find_location_cnt >= BlinkMax
          /\ find_location_cnt' = 0
          /\ find_location' = FALSE
       \/ /\ ~Touched(time100ms) \/ ~find_location \/ find_location_cnt < BlinkMax
          /\ UNCHANGED <<find_location, find_location_cnt>>
    /\ Quiet
    /\ UNCHANGED <<addr, register_state, brand_code, ctrl, select, infrared_event, posting,
                   pageInfor, rx, timers, link, local_event, repeat, show, io, store, history>>

(* The 100 ms timer counts the blinking down.                              *)
Blink ==
    /\ pc = "100ms" /\ pc' = "1s"
    /\ \/ /\ Touched(time100ms) /\ find_location /\ find_location_cnt < BlinkMax
          /\ find_location_cnt' = find_location_cnt + 1
          /\ UNCHANGED find_location
       \/ /\ Touched(time100ms) /\ find_location /\ find_location_cnt >= BlinkMax
          /\ find_location_cnt' = 0
          /\ find_location' = FALSE
       \/ /\ ~Touched(time100ms) \/ ~find_location
          /\ UNCHANGED <<find_location, find_location_cnt>>
    /\ Quiet
    /\ UNCHANGED <<addr, register_state, brand_code, ctrl, select, infrared_event, posting,
                   pageInfor, rx, timers, link, local_event, repeat, show, io, store, history>>

-----------------------------------------------------------------------------
(* The 1 s timer: refresh the local events, act on the infrared event.     *)

(* Mutant: the command of the old copy.                                    *)
Repeated_Local(e) ==
    CASE local_event.event = "SEND_MATCH" -> ToChip("match", 0, 0)
      [] local_event.event = "SEND_SAVE" -> ToChip("save", brand_code, 0)
      [] local_event.event = "SEND_LEARN_MODE_ON" -> ToChip("learnMode", 0, ON_CTRL)
      [] local_event.event = "SEND_LEARN_MODE_OFF" -> ToChip("learnMode", 0, OFF_CTRL)
      [] OTHER -> NoTx

(* Commands repeated every second until a reply moves the event on.        *)
Repeated(e) ==
    CASE e = "SEND_MATCH" -> ToChip("match", 0, 0)
      [] e = "SEND_SAVE" -> ToChip("save", brand_code, 0)
      [] e = "SEND_LEARN_MODE_ON" -> ToChip("learnMode", 0, ON_CTRL)
      [] e = "SEND_LEARN_MODE_OFF" -> ToChip("learnMode", 0, OFF_CTRL)
      [] OTHER -> NoTx

(* A one-shot event is done once its command is out.                       *)
Finish(e) ==
    /\ local_event' = Event("NULL", e.call_back)
    /\ infrared_event' = local_event'
    /\ cut' = "no"
    /\ UNCHANGED storing

IrEvent ==
    LET e == infrared_event
    IN  /\ pc = "1s" /\ Touched(time1S) /\ pc' = "link"
        /\ master_event' = mater_envent
        /\ tx1' = NoTx
        /\ \/ /\ e.event \in TestEvents
              /\ SendTest(e.event = "SEND_ON_TEST")
              /\ copies' = 0 /\ unsent' = FALSE
              /\ Finish(e)
           \/ /\ e.event \in OverEvents
              /\ tx2' = Over
              /\ Finish(e)
              /\ UNCHANGED <<show, ctrl, lastSent, copies, unsent>>
           \/ /\ e.event \notin TestEvents \cup OverEvents
              /\ tx2' = Repeated(e.event)
              /\ local_event' = e
              /\ UNCHANGED <<infrared_event, storing, cut, show, ctrl, lastSent, copies,
                             unsent>>
        /\ localCut' = (cut' # "no")
        /\ saveSent' = (saveSent \/ e.event = "SEND_SAVE")
        /\ wish' = IF wish = "fresh" THEN "taken" ELSE wish
        /\ answered' = FALSE
        /\ UNCHANGED <<addr, register_state, brand_code, select, find_location, pageInfor, rx,
                       timers, mater_envent, startFlag, connect_monitor, repeat, io,
                       find_location_cnt, store, quiet, accepted, commanded, uiWants>>

(* Mutant: the monitor expires one tick late.                              *)
MonitorExpired_Late == connect_monitor > MonitorMax

MonitorExpired == connect_monitor >= MonitorMax

(* Mutant: only an unregistered module asks for registration.              *)
AskAgain_IfNew == mater_envent' = (mater_envent \/ ~register_state)

AskAgain == mater_envent' = TRUE

(* Still in the 1 s block: the first registration, and the monitor that    *)
(* asks for another one when no command has come for MonitorMax ticks.     *)
Link ==
    /\ pc = "link" /\ pc' = "ctrl"
    /\ tx1' = IF startFlag THEN NoTx ELSE Registration
    /\ startFlag' = TRUE
    /\ \/ /\ ~MonitorExpired
          /\ connect_monitor' = connect_monitor + 1
          /\ UNCHANGED mater_envent
       \/ /\ MonitorExpired
          /\ AskAgain
          /\ UNCHANGED connect_monitor
    /\ quiet' = IF quiet < MonitorMax THEN quiet + 1 ELSE quiet
    /\ tx2' = NoTx
    /\ UNCHANGED <<module_info, infrared_event, posting, pageInfor, rx, timers, master_event,
                   local_event, repeat, show, io, find_location_cnt, store, answered, accepted,
                   lastSent, commanded, copies, unsent, saveSent, uiWants, wish>>

(* Mutant: the home page is not told the temperature.                      *)
SendCtrl_NoTemp ==
    \/ /\ select = "MATCH"
       /\ tx2' = ToChip("ctrl", brand_code, ctrl)
       /\ switchState' = IsOn(ctrl)
       /\ lastSent' = ctrl
       /\ UNCHANGED <<ctrl, nowTemp>>
    \/ select = "LEARN" /\ SendTest(IsOn(ctrl))

(* sendCtrlCommandToCodeData: in match mode the command itself, in learn   *)
(* mode the learned on or off, which also overwrites ctrl.                 *)
SendCtrl ==
    \/ /\ select = "MATCH"
       /\ tx2' = ToChip("ctrl", brand_code, ctrl)
       /\ switchState' = IsOn(ctrl)
       /\ nowTemp' = getTempByCtrl(ctrl)
       /\ lastSent' = ctrl
       /\ UNCHANGED ctrl
    \/ select = "LEARN" /\ SendTest(IsOn(ctrl))

(* Mutant: one repetition too many.                                        *)
RepeatsLeft_OneMore == sendCmdCnt <= 2

RepeatsLeft == sendCmdCnt < 2

(* End of the 1 s block: a changed command is sent now and twice again.    *)
Ctrl ==
    /\ pc = "ctrl" /\ pc' = "5s"
    /\ \/ /\ ctrl_pre # ctrl
          /\ ctrl_pre' = ctrl
          /\ sendCmdCnt' = 0
          /\ SendCtrl
          /\ copies' = copies + 1 /\ unsent' = FALSE
       \/ /\ ctrl_pre = ctrl /\ RepeatsLeft
          /\ sendCmdCnt' = sendCmdCnt + 1
          /\ SendCtrl
          /\ copies' = copies + 1 /\ unsent' = FALSE
          /\ UNCHANGED ctrl_pre
       \/ /\ ctrl_pre = ctrl /\ ~RepeatsLeft
          /\ tx2' = NoTx
          /\ UNCHANGED <<repeat, show, ctrl, lastSent, copies, unsent>>
    /\ tx1' = NoTx
    /\ UNCHANGED <<addr, register_state, brand_code, select, find_location, infrared_event,
                   posting, pageInfor, rx, timers, link, local_event, io, find_location_cnt,
                   store, quiet, answered, accepted, commanded, saveSent, uiWants, wish>>

SkipSecond ==
    /\ pc = "1s" /\ ~Touched(time1S) /\ pc' = "5s"
    /\ Quiet
    /\ UNCHANGED <<module_info, infrared_event, posting, pageInfor, rx, timers, link,
                   local_event, repeat, show, io, find_location_cnt, store, history>>

(* Mutant: a registered module wants to register too.                      *)
WantsRegister_Always == Touched(time5S)

WantsRegister == Touched(time5S) /\ ~register_state

(* The 5 s timer: an unregistered module wants to register.                *)
FiveSeconds ==
    /\ pc = "5s" /\ pc' = "10s"
    /\ mater_envent' = (mater_envent \/ WantsRegister)
    /\ Quiet
    /\ UNCHANGED <<module_info, infrared_event, posting, pageInfor, rx, timers, master_event,
                   startFlag, connect_monitor, local_event, repeat, show, io,
                   find_location_cnt, store, history>>

(* The 10 s timer: register if the event of the last second said so.       *)
TenSeconds ==
    /\ pc = "10s" /\ pc' = "sleep"
    /\ tx1' = IF Touched(time10S) /\ master_event THEN Registration ELSE NoTx
    /\ tx2' = NoTx
    /\ UNCHANGED <<module_info, infrared_event, posting, pageInfor, rx, timers, link,
                   local_event, repeat, show, io, find_location_cnt, store, history>>

-----------------------------------------------------------------------------
(* The page threads, as far as this thread can tell them apart: OledTask   *)
(* models them.  They may leave any stack of pages, even one torn by a     *)
(* race, post any of their events with the call_back that belongs to it,   *)
(* and select a mode.                                                      *)
UiRuns == pc \in {"sleep", "saved"}

UiFrame ==
    /\ UiRuns
    /\ Quiet
    /\ UNCHANGED <<addr, register_state, brand_code, ctrl, find_location, pc, rx, timers, link,
                   local_event, repeat, show, io, find_location_cnt, store, quiet, answered,
                   accepted, lastSent, commanded, saveSent, localCut>>

(* In the middle of its post the display thread does nothing else, and the *)
(* button thread, of lower priority, nothing at all.                       *)
OledFree == storing["oled"] = "none"

UiPage(s) ==
    /\ OledFree
    /\ pageInfor' = s
    /\ UiFrame /\ UNCHANGED <<select, infrared_event, storing, cut, copies, unsent, uiWants, wish>>

(* Mutant: the old call_back is kept.                                      *)
setinfraredEvent_OldCallBack(t, e, cb) ==
    /\ storing[t] = "none"
    /\ infrared_event' = Event(e, infrared_event.call_back)
    /\ storing' = [storing EXCEPT ![t] = infrared_event.call_back]
    /\ cut' = t
    /\ uiWants' = e /\ wish' = "fresh"

(* The structure is copied word by word: first the event, and then, in     *)
(* UiStore, the call_back.                                                 *)
setinfraredEvent(t, e, cb) ==
    /\ storing[t] = "none"
    /\ infrared_event' = Event(e, infrared_event.call_back)
    /\ storing' = [storing EXCEPT ![t] = cb]
    /\ cut' = t
    /\ uiWants' = e /\ wish' = "fresh"

(* The pages post from the display thread, leaving one from a button's.    *)
UiPost(e) ==
    /\ OledFree
    /\ \/ e = "SEND_MATCH" /\ setinfraredEvent("oled", e, "matchCallBack")
       \/ /\ e \in {"SEND_LEARN_MODE_ON", "SEND_LEARN_MODE_OFF"}
          /\ setinfraredEvent("oled", e, "learnCallBack")
       \/ e \in TestEvents /\ setinfraredEvent("oled", e, "undefined")
       \/ e \in OverEvents /\ setinfraredEvent("button", e, "undefined")
    /\ UiFrame /\ UNCHANGED <<select, pageInfor, copies, unsent>>

UiStore(t) ==
    /\ storing[t] # "none"
    /\ t = "button" => OledFree
    /\ infrared_event' = Event(infrared_event.event, storing[t])
    /\ storing' = [storing EXCEPT ![t] = "none"]
    /\ cut' = IF cut = t THEN "no" ELSE "yes"
    /\ UiFrame /\ UNCHANGED <<select, pageInfor, copies, unsent, uiWants, wish>>

UiSelect(mode) ==
    /\ OledFree
    /\ select' = mode
    /\ copies' = IF mode # select THEN 0 ELSE copies
    /\ unsent' = IF mode # select THEN ctrl = ctrl_pre /\ lastSent # InMode(mode, ctrl)
                                     ELSE unsent
    /\ UiFrame /\ UNCHANGED <<pageInfor, infrared_event, storing, cut, uiWants, wish>>

-----------------------------------------------------------------------------
(* The hard fault's handler never returns, and lets no interrupt in.       *)
Interrupt ==
    /\ pc # "fault"
    /\ \/ \E f \in HubFrames : Uart1_input(f)
       \/ \E f \in ChipFrames : Uart2_input(f)

UartStep ==
    \/ Wake \/ (\E state \in Pins : IoCheckProgram(state))
    \/ Uart1Poll \/ RegisterReply \/ Command \/ Uart1Clear
    \/ MatchReply \/ SaveReply \/ SaveShown \/ LearnReply \/ WildCall \/ Uart2Skip \/ Uart2Clear
    \/ SaveInfo \/ Blink \/ IrEvent \/ Link \/ Ctrl \/ SkipSecond
    \/ FiveSeconds \/ TenSeconds

UiStep ==
    \/ \E s \in UiStacks : UiPage(s)
    \/ \E e \in UiEvents : UiPost(e)
    \/ \E t \in Posters : UiStore(t)
    \/ \E mode \in UiSelects : UiSelect(mode)

UartNext == Interrupt \/ UartStep \/ UiStep

UartSpec == UartInit /\ [][UartNext]_vars

(* The scheduler always returns to the thread once its delay is over.      *)
FairUartSpec == UartSpec /\ WF_vars(UartStep)

-----------------------------------------------------------------------------
(* The parts of the type invariant.                                        *)
InfoType ==
    /\ addr \in u8 /\ register_state \in BOOLEAN /\ brand_code \in Nat
    /\ ctrl \in u16 /\ select \in {"MATCH", "LEARN"} /\ find_location \in BOOLEAN

EventType ==
    /\ infrared_event \in infrared_event_t /\ local_event \in infrared_event_t
    /\ storing \in [Posters -> CallBacks \cup {"none"}]
    /\ cut \in Posters \cup {"no", "yes"} /\ localCut \in BOOLEAN

PageType == pageInfor \in Stack

PcType ==
    pc \in {"sleep", "io", "uart1", "register", "command", "clear1", "uart2", "saved",
            "clear2", "save", "100ms", "1s", "link", "ctrl", "5s", "10s", "fault"}

RxType ==
    /\ uart1_msg \in [messageFlag : BOOLEAN, size : Nat, data : [Words -> Nat]]
    /\ uart2_msg.messageFlag \in BOOLEAN /\ uart2_msg.code \in Nat

TimerType ==
    /\ time100ms \in 0 .. T100ms /\ time1S \in 0 .. T1s
    /\ time5S \in 0 .. T5s /\ time10S \in 0 .. T10s

LinkType ==
    /\ mater_envent \in BOOLEAN /\ master_event \in BOOLEAN /\ startFlag \in BOOLEAN
    /\ connect_monitor \in 0 .. MonitorMax

SendType ==
    /\ ctrl_pre \in u16 /\ sendCmdCnt \in 0 .. 2
    /\ switchState \in BOOLEAN /\ nowTemp \in 16 .. 30

CountType ==
    /\ Laststate \in {0, 1} /\ continueTime \in 0 .. IoTime
    /\ find_location_cnt \in 0 .. BlinkMax

(* TypeOK: every variable keeps the range its C type and use give it.      *)
TypeOK ==
    /\ InfoType /\ EventType /\ PageType /\ PcType /\ RxType
    /\ TimerType /\ LinkType /\ SendType /\ CountType

(* RegisterJustified: after the first one, a registration goes out only if *)
(* the module is not registered, or no command has come for MonitorMax     *)
(* seconds, or the answer came too late for this second's copy of the      *)
(* event: the stale local master_event can cost one needless registration  *)
(* and no more.                                                            *)
RegisterJustified ==
    [][tx1'.cmd = "register" /\ startFlag
         => ~register_state \/ quiet >= MonitorMax \/ answered]_vars

(* RegistersWhenSilent: unless the hub keeps cleaning the event, the       *)
(* module registers again and again (1 s, 5 s and 10 s timers together).   *)
RegistersWhenSilent == []<>answered \/ []<>(tx1.cmd = "register")

(* OnlyAcceptedFrames: the frame a handler works on is the one that passed *)
(* the address filter and the CRC check of Uart1_input.                    *)
Pending == uart1_msg.size = accepted.size /\ uart1_msg.data = accepted.data

OnlyAcceptedFrames == pc \in {"register", "command"} => Pending

(* CallBackFits: an event whose replies invoke its call_back carries the   *)
(* call_back of its own page, in the global event and in the local copy,   *)
(* however old that is and wherever it is written back; a wild or foreign  *)
(* call is due to a post that another thread's tick, write-back or post    *)
(* cut in two, and to nothing else.                                        *)
Fits(e) ==
    /\ e.event \in {"SEND_MATCH", "SEND_SAVE"} => e.call_back = "matchCallBack"
    /\ e.event \in {"SEND_LEARN_MODE_ON", "SEND_LEARN_MODE_OFF"} => e.call_back = "learnCallBack"

CallBackFits ==
    /\ cut = "no" => Fits(infrared_event)
    /\ ~localCut => Fits(local_event)

(* CommandReachesAC: at the end of every 1 s block the register the hub    *)
(* wrote, the last command sent to the air conditioner and the home page   *)
(* agree, up to what the mode can express.  The exception is a command     *)
(* equal to ctrl_pre although that was not sent last: the one the flash    *)
(* kept, after a restart, one that undoes a command of IO_CHECK or of the  *)
(* test page within the second, and one sent before the mode changed.      *)
CommandReachesAC ==
    pc = "5s" /\ Touched(time1S) /\ commanded /\ ~unsent =>
        /\ lastSent = InMode(select, ctrl)
        /\ switchState = IsOn(ctrl)
        /\ nowTemp = getTempByCtrl(InMode(select, ctrl))

(* ThreeCopies: in match mode a command is sent three times by the 1 s     *)
(* timer, no more, whenever the mode was chosen.  Learn mode, where the    *)
(* first sending replaces the command and starts the repetitions again,    *)
(* sends it a fourth time and is not covered.                              *)
ThreeCopies == select = "MATCH" => copies <= 3

(* SavedMeansSent: the save flow ends only after the save command has been *)
(* sent.                                                                   *)
SavedMeansSent == pc = "saved" => saveSent

(* SendsAsAsked: a command is repeated every second only for the page that *)
(* asked last, so leaving a page stops it; unless what was posted last has *)
(* been written over before a 1 s tick could take it.                      *)
SendsAsAsked ==
    [][wish # "lost" =>
         /\ tx2'.cmd \in {"match", "save"} => uiWants = "SEND_MATCH"
         /\ tx2'.cmd = "learnMode" => uiWants \in {"SEND_LEARN_MODE_ON", "SEND_LEARN_MODE_OFF"}]_vars

(* Persisted: after the save step, restarting from the flash would give    *)
(* back the address, the brand code and the mode; unless all three are     *)
(* zero, as in modulePre before the first save.                            *)
Persisted ==
    pc \in {"100ms", "1s", "link", "ctrl", "5s", "10s"} =>
        \/ addr = 0 /\ brand_code = 0 /\ select = "MATCH"
        \/ /\ flash.addr = addr
           /\ flash.brand_code = brand_code
           /\ flash.select = "LEARN" <=> select = "LEARN"

(* BlinkEnds: the LED stops blinking, however often the hub asks.          *)
BlinkEnds == find_location ~> ~find_location
=============================================================================
