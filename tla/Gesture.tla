------------------------------ MODULE Gesture ------------------------------
(***************************************************************************)
(* What the button task promises to the pages: every hold of a button is   *)
(* reported by its length alone.  A hold that reaches LongTime is reported *)
(* LONG_PRESS once, at the sample on which it gets there; a hold that ends *)
(* between ShortTime and LongTime - BandTime is reported SHORT_PRESS once, *)
(* at the first released sample; nothing else is ever reported.            *)
(* The abstract state is the length of the current hold, the report of the *)
(* last sample and how long the button has rested since power on.          *)
(***************************************************************************)
EXTENDS Naturals

CONSTANTS Buttons, Period, ShortTime, LongTime, BandTime, CoolTime

VARIABLES held, report, rest

vars == <<held, report, rest>>

Init ==
    /\ held = [b \in Buttons |-> 0]
    /\ report = [b \in Buttons |-> "NULL_PRESS"]
    /\ rest = [b \in Buttons |-> 0]

(* A press counts once the button has been seen released CoolTime times.   *)
Counts(b, down) == b \in down /\ rest[b] >= CoolTime

Report(b, down) ==
    IF Counts(b, down)
    THEN IF held[b] < LongTime /\ held[b] + Period >= LongTime
         THEN "LONG_PRESS" ELSE "NULL_PRESS"
    ELSE IF held[b] >= ShortTime /\ held[b] < LongTime - BandTime
         THEN "SHORT_PRESS" ELSE "NULL_PRESS"

Sample(down) ==
    /\ held' = [b \in Buttons |-> IF Counts(b, down) THEN held[b] + Period ELSE 0]
    /\ report' = [b \in Buttons |-> Report(b, down)]
    /\ rest' = [b \in Buttons |->
                  IF b \notin down /\ rest[b] < CoolTime THEN rest[b] + 1 ELSE rest[b]]

Next == \E down \in SUBSET Buttons : Sample(down)

Spec == Init /\ [][Next]_vars
=============================================================================
