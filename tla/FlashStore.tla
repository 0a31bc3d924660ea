----------------------------- MODULE FlashStore -----------------------------
(***************************************************************************)
(* How module_info gets to the flash and back (UartTaskEntry, module.c,    *)
(* drv_flash_f1.c): the iteration saves it when the address, the brand     *)
(* code or the mode has changed, by erasing the page and programming it    *)
(* half-word by half-word; both can fail, and the power can be lost        *)
(* between and during any two of these steps.  UartTask takes the whole    *)
(* save for one step.                                                      *)
(***************************************************************************)
EXTENDS Integers, Sequences

CONSTANTS
    Crcs, Addrs, Brands, Ctrls,  \* values of the fields, the erased ones included
    Behind,                      \* CRCs of the memory behind module_info
    CrcOfZeros,                  \* and its CRC once it has been cleared
    Faulty                       \* TRUE: erasing and programming may fail

SELECT_MATCH == 0
SELECT_LEARN == 1
NO  == 0
YES == 1
INFRARED_TYPE == 180

(* What an erased page reads as.                                           *)
Erased == [crc |-> 65535, addr |-> 255, type |-> 255, Version |-> 65535,
           brand_code |-> 65535, ctrl |-> 65535, select |-> 255, find_location |-> 255]

(* Version stands for its half-word, register_state included: every start  *)
(* sets both.                                                              *)
Images == [crc : Crcs, addr : Addrs, type : {INFRARED_TYPE, 255}, Version : {2, 65535},
           brand_code : Brands, ctrl : Ctrls,
           select : {SELECT_MATCH, SELECT_LEARN, 255}, find_location : {NO, YES, 255}]

ASSUME StoreAssumption ==
    /\ Erased \in Images /\ 1 \in Addrs
    /\ Behind \subseteq Crcs /\ CrcOfZeros \in Crcs
    /\ Faulty \in BOOLEAN

VARIABLES
    module_info,  \* the copy in memory
    modulePre,    \* the fields saved last
    image,        \* the page
    pc,           \* what comes next
    pos           \* half-word to program next

(* History variables.                                                      *)
VARIABLES
    failed,       \* the last save failed
    saved,        \* some save has been completed
    crcGood,      \* the verdict of initModuleInfo, until the thread's first work
    kept          \* what was in memory when the power was lost between two saves,
                  \* until then too

vars == <<module_info, modulePre, image, pc, pos, failed, saved, crcGood, kept>>

(* The fields by half-word, in the order of the structure.                 *)
HalfWords == <<{"crc"}, {"addr", "type"}, {"Version"}, {"brand_code"}, {"ctrl"},
               {"select", "find_location"}>>

(* The page i once its fields h are programmed with those of m.            *)
Programmed(i, m, h) == [f \in DOMAIN i |-> IF f \in h THEN m[f] ELSE i[f]]

(* The fields the iteration compares.                                      *)
Compared(m) == [addr |-> m.addr, brand_code |-> m.brand_code, select |-> m.select]
NoInfo      == [addr |-> 0, brand_code |-> 0, select |-> SELECT_MATCH]
Nothing     == [addr |-> -1, brand_code |-> -1, select |-> -1]
NoMemory    == [Erased EXCEPT !.select = SELECT_MATCH]

Init ==
    /\ image = Erased /\ pc = "off" /\ pos = 1
    /\ module_info = NoMemory /\ modulePre = NoInfo
    /\ failed = FALSE /\ saved = FALSE /\ crcGood = FALSE /\ kept = Nothing

-----------------------------------------------------------------------------
(* Start: getDataFromFlash and the check of the mode, ...                  *)

(* Mutant: the mode is taken as it is.                                     *)
Select_AsRead(m) == m.select

Select(m) == IF m.select = SELECT_LEARN THEN SELECT_LEARN ELSE SELECT_MATCH

(* Mutant: the verdict is the wrong way round.                             *)
initModuleInfo_Inverted(m, c) ==
    IF m.crc # c THEN [m EXCEPT !.type = INFRARED_TYPE]
    ELSE [m EXCEPT !.addr = 1, !.type = INFRARED_TYPE, !.crc = CrcOfZeros]

(* ... and initModuleInfo.  The CRC it computes, c, is that of the memory  *)
(* behind module_info, and so is the memory it clears: getModuleInfo() + 2 *)
(* is two structures further on, not two bytes.                            *)
initModuleInfo(m, c) ==
    IF m.crc = c THEN [m EXCEPT !.type = INFRARED_TYPE]
    ELSE [m EXCEPT !.addr = 1, !.type = INFRARED_TYPE, !.crc = CrcOfZeros]

Boot(c) ==
    /\ pc = "off" /\ pc' = "booted"
    /\ module_info' = [initModuleInfo([image EXCEPT !.select = Select(image)], c)
                          EXCEPT !.find_location = NO, !.Version = 2]
    /\ modulePre' = NoInfo
    /\ crcGood' = (image.crc = c)
    /\ UNCHANGED <<image, pos, failed, saved, kept>>

-----------------------------------------------------------------------------
(* The iteration: replies and commands change module_info, and while the   *)
(* thread sleeps the pages do.                                             *)
Work(a, b, c, s, l) ==
    /\ pc \in {"booted", "rest"} /\ pc' = "check"
    /\ module_info' = [module_info EXCEPT !.addr = a, !.brand_code = b, !.ctrl = c,
                                          !.select = s, !.find_location = l]
    /\ crcGood' = FALSE /\ kept' = Nothing
    /\ UNCHANGED <<modulePre, image, pos, failed, saved>>

Changed == modulePre # Compared(module_info)

(* What is saved counts as saved before it is.                             *)
Check ==
    /\ pc = "check"
    /\ \/ Changed /\ pc' = "erase" /\ modulePre' = Compared(module_info)
       \/ ~Changed /\ pc' = "rest" /\ UNCHANGED modulePre
    /\ UNCHANGED <<module_info, image, pos, failed, saved, crcGood, kept>>

(* setDataToFlah takes no notice of the result of either call.             *)
stm32_flash_erase(ok) ==
    /\ pc = "erase" /\ pc' = "write" /\ pos' = 1
    /\ ok \/ Faulty
    /\ image' = IF ok THEN Erased ELSE image
    /\ failed' = ~ok
    /\ UNCHANGED <<module_info, modulePre, saved, crcGood, kept>>

(* A half-word can be programmed if it is erased, or to zero.              *)
Programmable(h) ==
    (\A f \in h : image[f] = Erased[f]) \/ (\A f \in h : module_info[f] = 0)

(* Mutant: the loop ends one half-word early.                              *)
Last_Early == pos + 1 >= Len(HalfWords)

Last == pos = Len(HalfWords)

(* One turn of the loop of stm32_flash_write and of HAL_FLASH_Program; an  *)
(* error ends both.                                                        *)
stm32_flash_write(ok) ==
    /\ pc = "write"
    /\ \/ /\ ok /\ Programmable(HalfWords[pos])
          /\ image' = Programmed(image, module_info, HalfWords[pos])
          /\ pc' = IF Last THEN "rest" ELSE "write"
          /\ pos' = IF Last THEN 1 ELSE pos + 1
          /\ saved' = (saved \/ Last)
          /\ UNCHANGED failed
       \/ /\ (~ok /\ Faulty) \/ ~Programmable(HalfWords[pos])
          /\ pc' = "rest" /\ pos' = 1
          /\ failed' = TRUE
          /\ UNCHANGED <<image, saved>>
    /\ UNCHANGED <<module_info, modulePre, crcGood, kept>>

(* A page caught in the erasing, and a half-word caught in the             *)
(* programming, may hold anything.                                         *)
Torn ==
    IF pc = "erase" THEN Images
    ELSE IF pc = "write" THEN {Programmed(image, i, HalfWords[pos]) : i \in Images}
    ELSE {image}

(* The memory is lost too; its content is nobody's business before Boot.   *)
PowerLoss ==
    /\ pc # "off" /\ pc' = "off" /\ pos' = 1
    /\ image' \in Torn
    /\ kept' = IF pc = "rest" /\ ~failed THEN Compared(module_info) ELSE Nothing
    /\ module_info' = NoMemory /\ modulePre' = NoInfo
    /\ failed' = FALSE /\ crcGood' = FALSE
    /\ UNCHANGED saved

-----------------------------------------------------------------------------
Next ==
    \/ \E c \in Behind : Boot(c)
    \/ \E a \in Addrs, b \in Brands, c \in Ctrls, s \in {SELECT_MATCH, SELECT_LEARN}, l \in {NO, YES} :
          Work(a, b, c, s, l)
    \/ Check
    \/ \E ok \in BOOLEAN : stm32_flash_erase(ok) \/ stm32_flash_write(ok)
    \/ PowerLoss

Spec == Init /\ [][Next]_vars

-----------------------------------------------------------------------------
(* TypeOK: every variable keeps its range; the mode in memory is one of    *)
(* the two, whatever a torn page holds.                                    *)
TypeOK ==
    /\ module_info \in Images /\ module_info.select \in {SELECT_MATCH, SELECT_LEARN}
    /\ image \in Images
    /\ pc \in {"off", "booted", "check", "erase", "write", "rest"}
    /\ pos \in 1 .. Len(HalfWords)
    /\ failed \in BOOLEAN /\ saved \in BOOLEAN /\ crcGood \in BOOLEAN

(* Durable: between two saves, unless the last one failed, the page would  *)
(* give back the address, the brand code and the mode in memory, whatever  *)
(* torn page the module started from, because modulePre starts from zero.  *)
(* The exception is all three fields zero: taken over in the first         *)
(* iteration, address 0 is no change.                                      *)
Durable ==
    pc = "rest" /\ ~failed /\ Compared(module_info) # NoInfo =>
        /\ image.addr = module_info.addr
        /\ image.brand_code = module_info.brand_code
        /\ Select(image) = module_info.select

(* RestartRestores: a module that lost power between two saves has its     *)
(* address, brand code and mode again after the start if the CRC agrees.   *)
(* The exception is the one of Durable.  Nothing is said of a CRC that     *)
(* disagrees: initModuleInfo means to clear the data then, and clears the  *)
(* memory behind it.                                                       *)
RestartRestores ==
    pc = "booted" /\ crcGood /\ kept \notin {Nothing, NoInfo} =>
        Compared(module_info) = kept

(* FirstUseOnly: a CRC that disagrees tells that the flash has never been  *)
(* used, as the comment in initModuleInfo says.                            *)
FirstUseOnly == pc = "booted" /\ ~crcGood => ~saved
=============================================================================
