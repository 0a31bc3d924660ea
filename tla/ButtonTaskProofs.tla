-------------------------- MODULE ButtonTaskProofs --------------------------
(***************************************************************************)
(* Proofs about the button thread, for every set of buttons and all times  *)
(* that satisfy ButtonAssumption.                                          *)
(***************************************************************************)
EXTENDS ButtonTask, Integers, TLAPS

(* The inductive strengthening: what buttonList knows about the hold.  The *)
(* counter and the history agree until the long press is reported, and     *)
(* have_read is exactly the memory of that report; after it, the counter   *)
(* may wrap and nothing more is known of it.                               *)
HoldInv(b) ==
    LET s == buttonList[b]
        h == hold[b]
    IN  /\ h.gap > 0 => s.continue_time = 0 /\ ~s.have_read
        /\ ~s.have_read => s.continue_time < LongTime
        /\ s.type = LONG_PRESS => /\ s.have_read
                                  /\ LongTime <= s.continue_time
                                  /\ s.continue_time < LongTime + Period
        /\ h.gap = 0 => /\ btn_cooling[b] >= CoolTime
                        /\ s.have_read <=> LONG_PRESS \in h.told
                        /\ ~s.have_read => s.continue_time = h.time
        /\ h.time >= LongTime => LONG_PRESS \in h.told

IInv == TypeOK /\ \A b \in Buttons : HoldInv(b)

(* u16 addition: continue_time advances by Period or wraps.                *)
LEMMA Add16 ==
    ASSUME NEW x \in 0 .. Wrap - 1
    PROVE  /\ (x + Period) % Wrap \in 0 .. Wrap - 1
           /\ x + Period < Wrap => (x + Period) % Wrap = x + Period
  BY ButtonAssumption

(* The fields of a button after a counted sample, t its advanced counter.  *)
LEMMA PressedFields ==
    ASSUME NEW s \in buttonInfo, NEW t, t = (s.continue_time + Period) % Wrap
    PROVE  /\ t \in 0 .. Wrap - 1
           /\ s.continue_time + Period < Wrap => t = s.continue_time + Period
           /\ Pressed(s).continue_time = t
           /\ Pressed(s).have_read <=> s.have_read \/ t >= LongTime
           /\ t < LongTime => Pressed(s).type = s.type
           /\ t >= LongTime /\ ~s.have_read => Pressed(s).type = LONG_PRESS
           /\ t >= LongTime /\ s.have_read => Pressed(s).type = NULL_PRESS
  <1>1. /\ t \in 0 .. Wrap - 1
        /\ s.continue_time + Period < Wrap => t = s.continue_time + Period
    BY Add16 DEF buttonInfo
  <1>2. /\ Pressed(s).continue_time = t
        /\ Pressed(s).have_read = (s.have_read \/ t >= LongTime)
        /\ Pressed(s).type = IF t < LongTime THEN s.type
                             ELSE IF s.have_read THEN NULL_PRESS ELSE LONG_PRESS
    BY DEF Pressed
  <1>3. t \in Int /\ LongTime \in Int /\ s.have_read \in BOOLEAN
    BY <1>1, ButtonAssumption DEF buttonInfo
  <1>4. /\ t < LongTime => Pressed(s).type = s.type
        /\ t >= LongTime /\ ~s.have_read => Pressed(s).type = LONG_PRESS
        /\ t >= LongTime /\ s.have_read => Pressed(s).type = NULL_PRESS
    BY <1>2, <1>3
  <1>5. Pressed(s).have_read <=> s.have_read \/ t >= LongTime
    BY <1>2, <1>3
  <1>6. QED
    BY <1>1, <1>2, <1>4, <1>5

(* Each branch of Buttonprogram returns a buttonInfo.                       *)
LEMMA ScanType ==
    ASSUME TypeOK, NEW b \in Buttons, NEW down \in SUBSET Buttons
    PROVE  Scan(b, down) \in buttonInfo
  <1> DEFINE s == buttonList[b]
  <1>1. s \in buttonInfo
    BY DEF TypeOK
  <1>2. /\ (s.continue_time + Period) % Wrap \in 0 .. Wrap - 1
        /\ 0 \in 0 .. Wrap - 1
    BY <1>1, Add16, ButtonAssumption DEF buttonInfo
  <1>3. Pressed(s) \in buttonInfo
    BY <1>1, <1>2 DEF Pressed, buttonInfo, Types, NULL_PRESS, SHORT_PRESS, LONG_PRESS
  <1>4. Released(s) \in buttonInfo
    BY <1>1, <1>2 DEF Released, buttonInfo, Types, NULL_PRESS, SHORT_PRESS, LONG_PRESS
  <1>5. QED
    BY <1>3, <1>4 DEF Scan

(* What the history records is well-typed.                                 *)
LEMMA TrackType ==
    ASSUME TypeOK, NEW b \in Buttons, NEW down \in SUBSET Buttons, NEW type \in Types
    PROVE  Track(b, down, type) \in [time : Nat, gap : 0 .. 2, told : SUBSET Types]
  <1> DEFINE h == hold[b]
  <1>1. h \in [time : Nat, gap : 0 .. 2, told : SUBSET Types]
    BY DEF TypeOK
  <1>2. Period \in Nat /\ h.time + Period \in Nat /\ h.told \cup {type} \in SUBSET Types
    BY <1>1, ButtonAssumption
  <1>3. h.gap \in 0 .. 2 /\ (h.gap < 2 => h.gap + 1 \in 0 .. 2) /\ {type} \in SUBSET Types
    BY <1>1
  <1>4. QED
    BY <1>1, <1>2, <1>3 DEF Track

LEMMA TypeStep ==
    ASSUME TypeOK, NEW down \in SUBSET Buttons, Buttonprogram(down)
    PROVE  TypeOK'
  <1>1. buttonList' \in [Buttons -> buttonInfo]
    BY ScanType DEF Buttonprogram
  <1>2. btn_cooling' \in [Buttons -> 0 .. CoolTime]
    BY ButtonAssumption DEF Buttonprogram, Cool, TypeOK
  <1>3. \A b \in Buttons : Scan(b, down).type \in Types
    BY ScanType DEF buttonInfo
  <1>4. hold' \in [Buttons -> [time : Nat, gap : 0 .. 2, told : SUBSET Types]]
    BY <1>3, TrackType DEF Buttonprogram
  <1>5. QED
    BY <1>1, <1>2, <1>4 DEF TypeOK

(* A sample keeps HoldInv for each button: one case per way the pin and    *)
(* the cooling counter can stand.                                          *)
LEMMA HoldStep ==
    ASSUME TypeOK, NEW down \in SUBSET Buttons, Buttonprogram(down),
           NEW b \in Buttons, HoldInv(b)
    PROVE  HoldInv(b)'
  <1> DEFINE s == buttonList[b]
             h == hold[b]
             t == (s.continue_time + Period) % Wrap
  <1>1. /\ s \in buttonInfo
        /\ h \in [time : Nat, gap : 0 .. 2, told : SUBSET Types]
        /\ btn_cooling[b] \in 0 .. CoolTime
    BY DEF TypeOK
  <1>2. /\ buttonList'[b] = Scan(b, down)
        /\ hold'[b] = Track(b, down, Scan(b, down).type)
        /\ btn_cooling'[b] >= btn_cooling[b]
    BY <1>1, ButtonAssumption DEF Buttonprogram, Cool
  <1>3. t \in 0 .. Wrap - 1 /\ (s.continue_time + Period < Wrap => t = s.continue_time + Period)
    BY <1>1, Add16 DEF buttonInfo
  <1>4. CASE Counts(b, down)
    <2>1. /\ buttonList'[b].have_read <=> s.have_read \/ t >= LongTime
          /\ buttonList'[b].continue_time = t
          /\ t < LongTime => buttonList'[b].type = s.type
          /\ t >= LongTime /\ ~s.have_read => buttonList'[b].type = LONG_PRESS
          /\ t >= LongTime /\ s.have_read => buttonList'[b].type = NULL_PRESS
      BY <1>1, <1>2, <1>4, PressedFields DEF Scan
    <2> HIDE DEF t
    <2>2. CASE h.gap = 0
      <3>1. hold'[b] = [time |-> h.time + Period, gap |-> 0, told |-> h.told \cup {buttonList'[b].type}]
        BY <1>2, <1>4, <2>2 DEF Track
      <3>2. QED
        BY <1>1, <1>2, <1>3, <1>4, <2>1, <2>2, <3>1, ButtonAssumption
           DEF HoldInv, Counts, buttonInfo, LONG_PRESS, NULL_PRESS
    <2>3. CASE h.gap > 0
      <3>1. hold'[b] = [time |-> Period, gap |-> 0, told |-> {buttonList'[b].type}]
        BY <1>2, <1>4, <2>3 DEF Track
      <3>2. QED
        BY <1>1, <1>2, <1>3, <1>4, <2>1, <2>3, <3>1, ButtonAssumption
           DEF HoldInv, Counts, buttonInfo, LONG_PRESS, NULL_PRESS
    <2>4. QED
      BY <1>1, <2>2, <2>3
  <1>5. CASE ~Counts(b, down)
    <2>1. /\ ~buttonList'[b].have_read
          /\ buttonList'[b].continue_time = 0
          /\ buttonList'[b].type # LONG_PRESS
      BY <1>2, <1>5 DEF Scan, Released, LONG_PRESS, SHORT_PRESS, NULL_PRESS
    <2>2. CASE b \in down
      <3>1. h.gap > 0
        BY <1>1, <1>5, <2>2 DEF HoldInv, Counts
      <3>2. hold'[b].gap = h.gap /\ hold'[b].time = h.time /\ hold'[b].told = h.told
        BY <1>2, <1>5, <2>2 DEF Track
      <3>3. QED
        BY <1>1, <2>1, <3>1, <3>2, ButtonAssumption DEF HoldInv
    <2>3. CASE b \notin down
      <3>1. /\ hold'[b].gap > 0
            /\ hold'[b].time = h.time
            /\ h.told \subseteq hold'[b].told
        BY <1>1, <1>2, <1>5, <2>3 DEF Track
      <3>2. QED
        BY <1>1, <2>1, <3>1, ButtonAssumption DEF HoldInv
    <2>4. QED
      BY <2>2, <2>3
  <1>6. QED
    BY <1>4, <1>5

LEMMA InvInit == Init => IInv
  <1> SUFFICES ASSUME Init PROVE IInv
    OBVIOUS
  <1>1. TypeOK
    BY ButtonAssumption DEF Init, ButtonRegister, TypeOK, buttonInfo, Types, NULL_PRESS
  <1>2. ASSUME NEW b \in Buttons PROVE HoldInv(b)
    <2>1. /\ buttonList[b] = [type |-> NULL_PRESS, press_state |-> FALSE,
                              have_read |-> FALSE, continue_time |-> 0]
          /\ hold[b] = [time |-> 0, gap |-> 2, told |-> {}]
      BY DEF Init, ButtonRegister
    <2>2. QED
      BY <2>1, ButtonAssumption DEF HoldInv, NULL_PRESS, LONG_PRESS
  <1>3. QED
    BY <1>1, <1>2 DEF IInv

LEMMA InvStep == IInv /\ [Next]_vars => IInv'
  <1> SUFFICES ASSUME IInv, [Next]_vars PROVE IInv'
    OBVIOUS
  <1>1. CASE Next
    <2>1. PICK down \in SUBSET Buttons : Buttonprogram(down)
      BY <1>1 DEF Next
    <2>2. TypeOK'
      BY <2>1, TypeStep DEF IInv
    <2>3. \A b \in Buttons : HoldInv(b)'
      BY <2>1, HoldStep DEF IInv
    <2>4. QED
      BY <2>2, <2>3 DEF IInv
  <1>2. CASE UNCHANGED vars
    BY <1>2 DEF vars, IInv, TypeOK, HoldInv
  <1>3. QED
    BY <1>1, <1>2

(* Every reachable state satisfies the inductive invariant.                *)
THEOREM Invariance == Spec => []IInv
  BY InvInit, InvStep, PTL DEF Spec

(* The fields of buttonList keep their C ranges, whatever the buttons do.  *)
THEOREM TypeCorrect == Spec => []TypeOK
  BY Invariance, PTL DEF IInv

(* A hold of LongTime has been reported as a long press, whatever the      *)
(* button did before and even if continue_time has wrapped since.          *)
THEOREM LongIsReported == Spec => []LongReported
  <1>1. IInv => LongReported
    BY DEF IInv, HoldInv, LongReported
  <1>2. QED
    BY <1>1, Invariance, PTL

(* No hold is reported as a long press twice, however long it lasts.       *)
THEOREM LongIsReportedOnce == Spec => LongOncePerHold
  <1>1. IInv /\ [Next]_vars =>
            [\A b \in Buttons : hold[b].gap = 0 /\ LONG_PRESS \in hold[b].told
                                   => buttonList'[b].type # LONG_PRESS]_vars
    <2> SUFFICES ASSUME IInv, NEW down \in SUBSET Buttons, Buttonprogram(down),
                        NEW b \in Buttons, hold[b].gap = 0, LONG_PRESS \in hold[b].told
                 PROVE  buttonList'[b].type # LONG_PRESS
      BY DEF Next
    <2> DEFINE s == buttonList[b]
               t == (s.continue_time + Period) % Wrap
    <2>1. s \in buttonInfo /\ buttonList'[b] = Scan(b, down) /\ HoldInv(b)
      BY DEF IInv, TypeOK, Buttonprogram
    <2>2. s.have_read
      BY <2>1 DEF HoldInv
    <2>3. t \in 0 .. Wrap - 1 /\ (s.continue_time + Period < Wrap => t = s.continue_time + Period)
      BY <2>1, Add16 DEF buttonInfo
    <2>4. CASE Counts(b, down)
      <3>1. /\ t < LongTime => buttonList'[b].type = s.type
            /\ t >= LongTime => buttonList'[b].type = NULL_PRESS
        BY <2>1, <2>2, <2>4, PressedFields DEF Scan
      <3> HIDE DEF t
      <3>2. s.type = LONG_PRESS => t >= LongTime
        BY <2>1, <2>3, ButtonAssumption DEF HoldInv, buttonInfo
      <3>3. QED
        BY <2>3, <3>1, <3>2, ButtonAssumption DEF LONG_PRESS, NULL_PRESS
    <2>5. CASE ~Counts(b, down)
      BY <2>1, <2>5 DEF Scan, Released, LONG_PRESS, SHORT_PRESS, NULL_PRESS
    <2>6. QED
      BY <2>4, <2>5
  <1>2. QED
    BY <1>1, Invariance, PTL DEF Spec, LongOncePerHold

-----------------------------------------------------------------------------
(* Hands that release a button for at least two samples and never hold one *)
(* long enough to wrap continue_time.                                      *)
CleanHands == MinGap = 2 /\ MaxHold < Wrap

(* Under CleanHands the counter is the length of the hold, have_read says  *)
(* that it has reached LongTime, and no type is left over from an earlier  *)
(* hold while a press is being timed.                                      *)
CleanInv(b) ==
    LET s == buttonList[b]
        h == hold[b]
    IN  /\ h.gap = 0 => s.continue_time = h.time
        /\ h.gap = 0 => h.time <= MaxHold
        /\ h.gap > 0 => s.continue_time = 0
        /\ s.have_read <=> s.continue_time >= LongTime
        /\ h.gap = 0 /\ s.continue_time < LongTime => s.type = NULL_PRESS
        /\ h.gap = 2 => s.type = NULL_PRESS
        /\ h.gap = 0 => btn_cooling[b] >= CoolTime

CleanIInv == TypeOK /\ \A b \in Buttons : CleanInv(b)

(* A sample keeps CleanInv and reports what Gesture reports.               *)
LEMMA CleanStep ==
    ASSUME CleanHands, TypeOK, NEW down \in SUBSET Buttons, Buttonprogram(down),
           NEW b \in Buttons, CleanInv(b)
    PROVE  /\ CleanInv(b)'
           /\ buttonList'[b].type = Abstract!Report(b, down)
           /\ buttonList'[b].continue_time =
                  IF Counts(b, down) THEN buttonList[b].continue_time + Period ELSE 0
  <1> DEFINE s == buttonList[b]
             h == hold[b]
             t == (s.continue_time + Period) % Wrap
  <1>1. /\ s \in buttonInfo
        /\ h \in [time : Nat, gap : 0 .. 2, told : SUBSET Types]
        /\ btn_cooling[b] \in 0 .. CoolTime
    BY DEF TypeOK
  <1>2. /\ buttonList'[b] = Scan(b, down)
        /\ hold'[b] = Track(b, down, Scan(b, down).type)
        /\ btn_cooling'[b] >= btn_cooling[b]
    BY <1>1, ButtonAssumption DEF Buttonprogram, Cool
  <1>3. Abstract!Report(b, down) =
          IF Counts(b, down)
          THEN IF s.continue_time < LongTime /\ s.continue_time + Period >= LongTime
               THEN LONG_PRESS ELSE NULL_PRESS
          ELSE IF s.continue_time >= ShortTime /\ s.continue_time < LongTime - BandTime
               THEN SHORT_PRESS ELSE NULL_PRESS
    BY DEF Abstract!Report, Abstract!Counts, Counts, LONG_PRESS, SHORT_PRESS, NULL_PRESS
  <1>4. CASE Counts(b, down)
    <2>1. /\ s.continue_time + Period < Wrap => t = s.continue_time + Period
          /\ buttonList'[b].have_read <=> s.have_read \/ t >= LongTime
          /\ buttonList'[b].continue_time = t
          /\ t < LongTime => buttonList'[b].type = s.type
          /\ t >= LongTime /\ ~s.have_read => buttonList'[b].type = LONG_PRESS
          /\ t >= LongTime /\ s.have_read => buttonList'[b].type = NULL_PRESS
      BY <1>1, <1>2, <1>4, PressedFields DEF Scan
    <2> HIDE DEF t
    <2>2. s.continue_time + Period < Wrap
      <3>1. CASE h.gap = 0
        BY <1>1, <1>4, <3>1, ButtonAssumption
           DEF CleanInv, CleanHands, Buttonprogram, Steady, Counts, buttonInfo
      <3>2. CASE h.gap > 0
        BY <3>2, ButtonAssumption DEF CleanInv
      <3>3. QED
        BY <1>1, <3>1, <3>2
    <2>3. h.gap > 0 => h.gap = 2
      BY <1>1, <1>4 DEF Counts, Buttonprogram, Steady, CleanHands
    <2>4. /\ hold'[b].gap = 0
          /\ hold'[b].time = IF h.gap = 0 THEN h.time + Period ELSE Period
      BY <1>2, <1>4 DEF Track
    <2>5. hold'[b].time <= MaxHold
      BY <1>1, <1>4, <2>4, ButtonAssumption DEF Buttonprogram, Steady, Counts
    <2>6. btn_cooling'[b] >= CoolTime
      BY <1>1, <1>4, ButtonAssumption DEF Counts, Buttonprogram, Cool
    <2>7. /\ buttonList'[b].type # SHORT_PRESS
          /\ buttonList'[b].continue_time < LongTime => buttonList'[b].type = NULL_PRESS
          /\ buttonList'[b].have_read <=> buttonList'[b].continue_time >= LongTime
          /\ buttonList'[b].type = Abstract!Report(b, down)
      BY <1>1, <1>3, <1>4, <2>1, <2>2, <2>3, ButtonAssumption
         DEF CleanInv, buttonInfo, LONG_PRESS, SHORT_PRESS, NULL_PRESS
    <2>8. hold'[b].time = buttonList'[b].continue_time
      BY <1>1, <2>1, <2>2, <2>3, <2>4, ButtonAssumption DEF CleanInv, buttonInfo
    <2>9. CleanInv(b)'
      BY <2>4, <2>5, <2>6, <2>7, <2>8 DEF CleanInv
    <2>10. QED
      BY <1>4, <2>1, <2>2, <2>7, <2>9
  <1>5. CASE ~Counts(b, down)
    <2>1. /\ ~buttonList'[b].have_read
          /\ buttonList'[b].continue_time = 0
          /\ buttonList'[b].type =
                IF s.continue_time >= ShortTime /\ s.continue_time < LongTime - BandTime
                THEN SHORT_PRESS ELSE NULL_PRESS
      BY <1>2, <1>5 DEF Scan, Released
    <2>2. hold'[b].gap = IF b \notin down /\ h.gap < 2 THEN h.gap + 1 ELSE h.gap
      BY <1>2, <1>5 DEF Track
    <2>3. hold'[b].gap > 0
      BY <1>1, <1>5, <2>2 DEF CleanInv, Counts
    <2>4. h.gap > 0 => buttonList'[b].type = NULL_PRESS
      BY <1>1, <2>1, ButtonAssumption DEF CleanInv
    <2>5. hold'[b].gap = 2 => buttonList'[b].type = NULL_PRESS
      BY <1>1, <2>2, <2>4
    <2>6. CleanInv(b)'
      <3>1. /\ ~(hold'[b].gap = 0)
            /\ ~(buttonList'[b].continue_time >= LongTime)
        BY <2>1, <2>3, ButtonAssumption
      <3>2. QED
        BY <2>1, <2>5, <3>1 DEF CleanInv
    <2>7. QED
      BY <1>3, <1>5, <2>1, <2>6
  <1>6. QED
    BY <1>4, <1>5

LEMMA CleanInit == Init => CleanIInv
  <1> SUFFICES ASSUME Init PROVE CleanIInv
    OBVIOUS
  <1>1. TypeOK
    BY InvInit DEF IInv
  <1>2. ASSUME NEW b \in Buttons PROVE CleanInv(b)
    <2>1. /\ buttonList[b] = [type |-> NULL_PRESS, press_state |-> FALSE,
                              have_read |-> FALSE, continue_time |-> 0]
          /\ hold[b] = [time |-> 0, gap |-> 2, told |-> {}]
      BY DEF Init, ButtonRegister
    <2>2. QED
      BY <2>1, ButtonAssumption DEF CleanInv
  <1>3. QED
    BY <1>1, <1>2 DEF CleanIInv

LEMMA CleanNext == CleanHands /\ CleanIInv /\ [Next]_vars => CleanIInv'
  <1> SUFFICES ASSUME CleanHands, CleanIInv, [Next]_vars PROVE CleanIInv'
    OBVIOUS
  <1>1. CASE Next
    <2>1. PICK down \in SUBSET Buttons : Buttonprogram(down)
      BY <1>1 DEF Next
    <2>2. TypeOK'
      BY <2>1, TypeStep DEF CleanIInv
    <2>3. \A b \in Buttons : CleanInv(b)'
      BY <2>1, CleanStep DEF CleanIInv
    <2>4. QED
      BY <2>2, <2>3 DEF CleanIInv
  <1>2. CASE UNCHANGED vars
    BY <1>2 DEF vars, CleanIInv, TypeOK, CleanInv
  <1>3. QED
    BY <1>1, <1>2

(* With clean hands, the task implements Gesture: the call_back of every   *)
(* sample gets exactly the report the length of the hold calls for.        *)
THEOREM ImplementsGesture == CleanHands => (Spec => Gestures)
  <1> SUFFICES ASSUME CleanHands PROVE Spec => Gestures
    OBVIOUS
  <1>1. Init => Abstract!Init
    BY DEF Init, ButtonRegister, Abstract!Init, NULL_PRESS
  <1>2. CleanIInv /\ [Next]_vars => [Abstract!Next]_(Abstract!vars)
    <2> SUFFICES ASSUME CleanIInv, [Next]_vars PROVE [Abstract!Next]_(Abstract!vars)
      OBVIOUS
    <2>1. CASE Next
      <3>1. PICK down \in SUBSET Buttons : Buttonprogram(down)
        BY <2>1 DEF Next
      <3>2. \A b \in Buttons :
              /\ buttonList'[b].type = Abstract!Report(b, down)
              /\ buttonList'[b].continue_time =
                    IF Counts(b, down) THEN buttonList[b].continue_time + Period ELSE 0
        BY <3>1, CleanStep DEF CleanIInv
      <3>3. Abstract!Sample(down)
        BY <3>1, <3>2 DEF Abstract!Sample, Abstract!Counts, Counts, Buttonprogram, Cool
      <3>4. QED
        BY <3>3 DEF Abstract!Next
    <2>2. CASE UNCHANGED vars
      BY <2>2 DEF vars, Abstract!vars
    <2>3. QED
      BY <2>1, <2>2
  <1>3. CleanIInv /\ [Next]_vars => CleanIInv'
    BY CleanNext
  <1>4. QED
    BY <1>1, <1>2, <1>3, CleanInit, PTL DEF Spec, Gestures, Abstract!Spec
=============================================================================
