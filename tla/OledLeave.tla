----------------------------- MODULE OledLeave ------------------------------
(***************************************************************************)
(* OledTask with a history of the leaving of pages: "left" once a long     *)
(* press has ended the sending of a match or learn page, "again" if the    *)
(* event of such a page is posted after that, "no" since the last Enter.   *)
(***************************************************************************)
EXTENDS OledTask

VARIABLE left

LeaveInit == OledInit /\ left = "no"

LeaveNext ==
    /\ OledNext
    /\ left' = IF bpc = "idle" /\ bpc' = "enter" THEN "no"
               ELSE IF posted' \in OverEvents THEN "left"
               ELSE IF left = "left" /\ posted' \in PageEvents THEN "again"
               ELSE left

LeaveSpec == LeaveInit /\ [][LeaveNext]_<<vars, left>>

(* LeaveIsFinal: a match or learn page that has been left does not ask for *)
(* its command again, until the user presses Enter.  The call_back says so *)
(* where it ends the sending.                                              *)
LeaveIsFinal == left = "again" => bpc \in {"leaveLoad", "leaveStore"}
=============================================================================
