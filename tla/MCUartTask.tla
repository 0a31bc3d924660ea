----------------------------- MODULE MCUartTask -----------------------------
(***************************************************************************)
(* Small instances of UartTask: the frames, flash images and page choices  *)
(* the configurations pick from.                                           *)
(***************************************************************************)
EXTENDS UartTask

mcMyId == <<17, 34>>

(* Hub frames.  A registration reply is ten bytes with the address in byte *)
(* seven; a command is eight bytes.                                        *)
Reply(id, a) ==
    [size |-> 10, ok |-> TRUE,
     words |-> (0 :> REGISTER_CODE @@ 1 :> 0 @@ 2 :> id[1] @@ 4 :> id[2] @@ 7 :> a)]
Cmd(a, function, reg, value, good) ==
    [size |-> 8, ok |-> good,
     words |-> (0 :> a @@ 1 :> function @@ 2 :> reg @@ 4 :> value @@ 7 :> 0)]

OurReply   == Reply(mcMyId, 2)
OtherReply == Reply(<<17, 35>>, 3)
WriteOn    == Cmd(2, WRITE_SINGLE, REGISTER_CTRL, 59648, TRUE)   \* 0xE900, on, 25 C
WriteOff   == Cmd(2, WRITE_SINGLE, REGISTER_CTRL, 24576, TRUE)   \* 0x6000, off, 16 C
WriteAddr  == Cmd(2, WRITE_SINGLE, REGISTER_ADDR, 3, TRUE)
Locate     == Cmd(2, READ_MUTI, REGISTER_LOCATION, 1, TRUE)
Damaged    == Cmd(2, WRITE_SINGLE, REGISTER_CTRL, 26880, FALSE)  \* WriteOn with bit 15 lost
ForOther   == Cmd(9, WRITE_SINGLE, REGISTER_CTRL, 24576, TRUE)
ShortReply == [size |-> 5, ok |-> TRUE, words |-> (0 :> REGISTER_CODE @@ 1 :> 0 @@ 2 :> 17)]
OneByte    == [size |-> 1, ok |-> FALSE, words |-> (0 :> 2)]
WriteMuti  == Cmd(2, 16, REGISTER_CTRL, 1, TRUE)

(* Chip frames: a match result, the two learning states and a short one.   *)
Chip(command, code) == [size |-> 7, start |-> "AA55", command |-> command, code |-> code]
Matched  == Chip(65, 40)
Learning == Chip(64, 1)
TimedOut == Chip(64, 3)
Noise    == [size |-> 2, start |-> "other", command |-> 0, code |-> 0]

Image(a, b, c, m) == [addr |-> a, brand_code |-> b, ctrl |-> c, select |-> m]

-----------------------------------------------------------------------------
(* What each configuration lets the environment do.                        *)
NoFrames    == {}
LinkFrames  == {OurReply, OtherReply, ShortReply, OneByte, Locate, WriteMuti}
CtrlFrames  == {WriteOn, WriteOff, WriteAddr, Damaged}
BusFrames   == {WriteOn, Damaged, ForOther}
IrFrames    == {Matched, Learning, TimedOut, Noise}
MatchedOnly == {Matched}

(* One stack, since this thread does nothing with it but shift it; and the *)
(* events of a use, one of three that end it.                              *)
SomeStacks   == {<<0, 0, 0, HOME_PAGE>>}
IrEvents     == PageEvents \cup {"SEND_LEARN_ON_OVER"}
MatchEvents  == {"SEND_MATCH", "SEND_MATCH_OVER"}

BlankFlash  == {Image(2, 0, OFF_CTRL, "MATCH")}
AnyFlash    == {Image(2, 40, OFF_CTRL, "LEARN"), Image(255, 0, 0, "erased")}
=============================================================================
