----------------------------- MODULE ButtonTask -----------------------------
(***************************************************************************)
(* The button thread (Button/ButtonTask.c): every Period milliseconds it   *)
(* samples the pins of all buttons, times the presses in a 16-bit counter  *)
(* and calls each button's call_back with the type it derives.  The type   *)
(* stored after a sample is the argument of that sample's call_back.       *)
(*                                                                         *)
(* Lines 24-33 of the source compare on_set, which is KEY_ON = 0 for every *)
(* button, with a static that starts at 0; the test never succeeds, so     *)
(* btn_cooling only ever counts up from power on.                          *)
(*                                                                         *)
(* hold is a history variable about the hand on the button: how long the   *)
(* current (or last) hold has lasted, which reports it has received and    *)
(* for how many samples (up to 2) the button has been released since.      *)
(***************************************************************************)
EXTENDS Naturals

CONSTANTS
    Buttons,    \* the BUTTON_MAX entries of buttonList
    Period,     \* BUTTON_TASK_PERIOD, ms between samples
    ShortTime,  \* SHORT_TIME
    LongTime,   \* LONG_TIME
    BandTime,   \* BAND_TIME
    CoolTime,   \* BTN_COOL_TIME, in samples
    Wrap,       \* 2^16, continue_time is a u16
    MaxHold,    \* bound: no hold lasts longer (ms)
    MinGap      \* environment: samples a release lasts at least (1 = any)

ASSUME ButtonAssumption ==
    /\ Period \in Nat \ {0}
    /\ ShortTime \in Nat \ {0}
    /\ LongTime \in Nat \ {0}
    /\ BandTime \in Nat
    /\ BandTime <= LongTime
    /\ CoolTime \in Nat
    /\ Wrap \in Nat
    /\ LongTime + 2 * Period <= Wrap
    /\ MaxHold \in Nat /\ Period <= MaxHold
    /\ MinGap \in 1 .. 2

VARIABLES
    buttonList,   \* struct buttonInfo per button
    btn_cooling,  \* released samples seen since power on, up to CoolTime
    hold          \* history: [time, gap, told] per button

vars == <<buttonList, btn_cooling, hold>>

NULL_PRESS  == "NULL_PRESS"
SHORT_PRESS == "SHORT_PRESS"
LONG_PRESS  == "LONG_PRESS"
Types == {NULL_PRESS, SHORT_PRESS, LONG_PRESS}

buttonInfo ==
    [type : Types, press_state : BOOLEAN, have_read : BOOLEAN, continue_time : 0 .. Wrap - 1]

-----------------------------------------------------------------------------
(* ButtonRegister and ButtonAdd on the zeroed buttonList.                  *)
ButtonRegister ==
    buttonList = [b \in Buttons |->
        [type |-> NULL_PRESS, press_state |-> FALSE, have_read |-> FALSE, continue_time |-> 0]]

Init ==
    /\ ButtonRegister
    /\ btn_cooling = [b \in Buttons |-> 0]
    /\ hold = [b \in Buttons |-> [time |-> 0, gap |-> 2, told |-> {}]]

(* A pressed pin is timed only once the button has cooled.                 *)
Counts(b, down) == b \in down /\ btn_cooling[b] >= CoolTime

(* Mutant: have_read is not set by the report.                              *)
Pressed_Forgets(s) ==
    LET t == (s.continue_time + Period) % Wrap
    IN  [type |-> IF t < LongTime THEN s.type
                  ELSE IF s.have_read THEN NULL_PRESS ELSE LONG_PRESS,
         press_state |-> TRUE,
         have_read |-> s.have_read,
         continue_time |-> t]

(* Mutant: the counter is compared before it is advanced.                  *)
Pressed_Late(s) ==
    [type |-> IF s.continue_time < LongTime THEN s.type
              ELSE IF s.have_read THEN NULL_PRESS ELSE LONG_PRESS,
     press_state |-> TRUE,
     have_read |-> s.have_read \/ s.continue_time >= LongTime,
     continue_time |-> (s.continue_time + Period) % Wrap]

(* Still pressed: LONG_PRESS once have_read says so; below LongTime the    *)
(* type of the previous sample stays.                                      *)
Pressed(s) ==
    LET t == (s.continue_time + Period) % Wrap
    IN  [type |-> IF t < LongTime THEN s.type
                  ELSE IF s.have_read THEN NULL_PRESS ELSE LONG_PRESS,
         press_state |-> TRUE,
         have_read |-> s.have_read \/ t >= LongTime,
         continue_time |-> t]

(* Mutant: the counter survives the release.                               *)
Released_Keeps(s) ==
    [type |-> IF s.continue_time >= ShortTime /\ s.continue_time < LongTime - BandTime
              THEN SHORT_PRESS ELSE NULL_PRESS,
     press_state |-> FALSE,
     have_read |-> FALSE,
     continue_time |-> s.continue_time]

(* Not pressed: a hold of the right length is a SHORT_PRESS.               *)
Released(s) ==
    [type |-> IF s.continue_time >= ShortTime /\ s.continue_time < LongTime - BandTime
              THEN SHORT_PRESS ELSE NULL_PRESS,
     press_state |-> FALSE,
     have_read |-> FALSE,
     continue_time |-> 0]

(* A pressed pin that does not count leaves press_state alone; it is NO    *)
(* then, since it was only ever set on a cooled button.                    *)
Scan(b, down) ==
    IF Counts(b, down) THEN Pressed(buttonList[b]) ELSE Released(buttonList[b])

(* Mutant: the cooling is not capped.                                      *)
Cool_Uncapped(b, down) == IF b \notin down THEN btn_cooling[b] + 1 ELSE btn_cooling[b]

(* Released samples count up to CoolTime.                                  *)
Cool(b, down) ==
    IF b \notin down /\ btn_cooling[b] < CoolTime THEN btn_cooling[b] + 1 ELSE btn_cooling[b]

(* History of the hold; presses the code does not count yet are not holds. *)
Track(b, down, type) ==
    LET h == hold[b]
    IN  IF Counts(b, down)
        THEN [time |-> IF h.gap = 0 THEN h.time + Period ELSE Period,
              gap  |-> 0,
              told |-> IF h.gap = 0 THEN h.told \cup {type} ELSE {type}]
        ELSE [time |-> h.time,
              gap  |-> IF b \notin down /\ h.gap < 2 THEN h.gap + 1 ELSE h.gap,
              told |-> IF b \notin down /\ h.gap = 0 THEN h.told \cup {type} ELSE h.told]

(* The hands: no hold outlasts MaxHold, no release is shorter than MinGap. *)
Steady(down) ==
    \A b \in down :
        /\ hold[b].gap = 0 => hold[b].time + Period <= MaxHold
        /\ hold[b].gap > 0 => hold[b].gap >= MinGap

(* One call of Buttonprogram with the buttons in down pressed.             *)
Buttonprogram(down) ==
    /\ Steady(down)
    /\ buttonList' = [b \in Buttons |-> Scan(b, down)]
    /\ btn_cooling' = [b \in Buttons |-> Cool(b, down)]
    /\ hold' = [b \in Buttons |-> Track(b, down, Scan(b, down).type)]

Next == \E down \in SUBSET Buttons : Buttonprogram(down)

Spec == Init /\ [][Next]_vars

-----------------------------------------------------------------------------
(* TypeOK: the fields keep the ranges their C types and their uses give    *)
(* them; continue_time is a u16.                                           *)
TypeOK ==
    /\ buttonList \in [Buttons -> buttonInfo]
    /\ btn_cooling \in [Buttons -> 0 .. CoolTime]
    /\ hold \in [Buttons -> [time : Nat, gap : 0 .. 2, told : SUBSET Types]]

(* LongOncePerHold: a hold that has been reported LONG_PRESS is not        *)
(* reported LONG_PRESS again before it ends, however long it lasts and     *)
(* even when continue_time wraps: have_read remembers the report.          *)
LongOncePerHold ==
    [][\A b \in Buttons :
         hold[b].gap = 0 /\ LONG_PRESS \in hold[b].told => buttonList'[b].type # LONG_PRESS]_vars

(* LongReported: a hold that has lasted LongTime has been reported         *)
(* LONG_PRESS, whatever the button did before.                             *)
LongReported ==
    \A b \in Buttons : hold[b].time >= LongTime => LONG_PRESS \in hold[b].told

(* Gestures: as long as releases last two samples and holds stay below the *)
(* wrap of continue_time, the task reports holds exactly as Gesture says.  *)
Abstract ==
    INSTANCE Gesture WITH held   <- [b \in Buttons |-> buttonList[b].continue_time],
                          report <- [b \in Buttons |-> buttonList[b].type],
                          rest   <- btn_cooling
Gestures == Abstract!Spec
=============================================================================
