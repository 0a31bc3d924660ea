------------------------------- MODULE Common -------------------------------
(***************************************************************************)
(* What every thread of the module knows: the numbers of the pages and of  *)
(* the events for the infrared chip, and the pure helpers on the page      *)
(* stack, the software timers and the command word.                        *)
(***************************************************************************)
EXTENDS Integers, Sequences

u8  == 0 .. 255
u16 == 0 .. 65535

-----------------------------------------------------------------------------
(* Pages, by their one-byte numbers.                                       *)
HOME_PAGE         == 0
SETTING_PAGE      == 1
ONEKEY_MATCH_PAGE == 2
SELECT_MODE_PAGE  == 3
LEARN_MODE_PAGE   == 4
LEARN_ON_PAGE     == 5
LEARN_OFF_PAGE    == 6
TEST_PAGE         == 7

Pages == HOME_PAGE .. TEST_PAGE

(* The four bytes of a u32 of pages, the current page last, and what the   *)
(* shifts by eight do to them.                                             *)
Stack  == [1 .. 4 -> Pages]
Shl(s) == <<s[2], s[3], s[4], 0>>
Shr(s) == <<0, s[1], s[2], s[3]>>

-----------------------------------------------------------------------------
(* Events for the infrared chip.  A call_back an event's writer leaves     *)
(* uninitialized is "undefined".                                           *)
TestEvents == {"SEND_ON_TEST", "SEND_OFF_TEST"}
OverEvents == {"SEND_MATCH_OVER", "SEND_LEARN_ON_OVER", "SEND_LEARN_OFF_OVER"}
PageEvents == {"SEND_MATCH", "SEND_LEARN_MODE_ON", "SEND_LEARN_MODE_OFF"}

(* The events the pages and the button call_backs post.                    *)
PanelEvents == TestEvents \cup OverEvents \cup PageEvents

Events == PanelEvents \cup {"NULL", "SEND_SAVE"}
CallBacks == {"undefined", "matchCallBack", "learnCallBack"}

infrared_event_t == [event : Events, call_back : CallBacks]

Event(e, cb) == [event |-> e, call_back |-> cb]

-----------------------------------------------------------------------------
(* TimerTask advances *time below touchTime and otherwise resets it and    *)
(* raises the flag: the flag of a call is YES exactly when the time it     *)
(* leaves is 0, so a timer fires on every (touchTime + 1)-th call.         *)
TimerTask(time, touchTime) == IF time < touchTime THEN time + 1 ELSE 0
Touched(time) == time = 0

(* Bit 15 of ctrl is the switch, bits 8-11 the temperature above 16.       *)
IsOn(c) == c \div 32768 = 1
getTempByCtrl(c) ==
    LET temp == 16 + ((c \div 256) % 16)
    IN  IF temp > 30 \/ temp < 16 THEN 25 ELSE temp

ON_CTRL  == 57344   \* 0xE000
OFF_CTRL == 24576   \* 0x6000
=============================================================================
