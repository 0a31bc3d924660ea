-------------------------- MODULE FlashStoreProofs --------------------------
(***************************************************************************)
(* Proofs about the saving of module_info, for all values of its fields,   *)
(* with failing hardware or without.                                       *)
(***************************************************************************)
EXTENDS FlashStore, TLAPS

(* A page that gives back the compared fields m.                           *)
Agrees(i, m) == m = [addr |-> i.addr, brand_code |-> i.brand_code, select |-> Select(i)]

(* The half-words programmed so far.                                       *)
Written ==
    /\ pos > 2 => image.addr = module_info.addr
    /\ pos > 4 => image.brand_code = module_info.brand_code

(* What makes Durable and RestartRestores inductive: what counts as saved  *)
(* is on the page, or nothing has been saved since the start; and what was *)
(* kept when the power went is on the page.                                *)
StoreInv ==
    /\ TypeOK
    /\ pc \in {"erase", "write", "rest"} => modulePre = Compared(module_info)
    /\ pc = "write" /\ ~failed => Written
    /\ pc \in {"booted", "check", "rest"} /\ ~failed =>
          modulePre = NoInfo \/ Agrees(image, modulePre)
    /\ pc = "off" /\ kept \notin {Nothing, NoInfo} => Agrees(image, kept)
    /\ RestartRestores

LEMMA SelectRange ==
    ASSUME NEW i PROVE Select(i) \in {SELECT_MATCH, SELECT_LEARN}
  BY DEF Select

LEMMA SelectKept ==
    ASSUME NEW i, i.select \in {SELECT_MATCH, SELECT_LEARN} PROVE Select(i) = i.select
  BY DEF Select, SELECT_MATCH, SELECT_LEARN

LEMMA HalfWordNames ==
    /\ Len(HalfWords) = 6
    /\ HalfWords[1] = {"crc"} /\ HalfWords[2] = {"addr", "type"}
    /\ HalfWords[3] = {"Version"} /\ HalfWords[4] = {"brand_code"}
    /\ HalfWords[5] = {"ctrl"} /\ HalfWords[6] = {"select", "find_location"}
  BY DEF HalfWords

(* A page k which is i with the half-word p of j, as far as it matters.    *)
Replaced(k, i, j, p) ==
    /\ k \in Images
    /\ k.addr = IF p = 2 THEN j.addr ELSE i.addr
    /\ k.brand_code = IF p = 4 THEN j.brand_code ELSE i.brand_code
    /\ k.select = IF p = 6 THEN j.select ELSE i.select

(* Programming any fields gives a page, whose fields are the old or the    *)
(* new ones.                                                               *)
LEMMA Programming ==
    ASSUME NEW i \in Images, NEW j \in Images, NEW h
    PROVE  /\ Programmed(i, j, h) \in Images
           /\ Programmed(i, j, h).addr = IF "addr" \in h THEN j.addr ELSE i.addr
           /\ Programmed(i, j, h).brand_code =
                 IF "brand_code" \in h THEN j.brand_code ELSE i.brand_code
           /\ Programmed(i, j, h).select = IF "select" \in h THEN j.select ELSE i.select
  <1> DEFINE k == Programmed(i, j, h)
  <1>1. DOMAIN i = {"crc", "addr", "type", "Version", "brand_code", "ctrl", "select",
                    "find_location"}
    BY DEF Images
  <1>2. k = [crc |-> IF "crc" \in h THEN j.crc ELSE i.crc,
             addr |-> IF "addr" \in h THEN j.addr ELSE i.addr,
             type |-> IF "type" \in h THEN j.type ELSE i.type,
             Version |-> IF "Version" \in h THEN j.Version ELSE i.Version,
             brand_code |-> IF "brand_code" \in h THEN j.brand_code ELSE i.brand_code,
             ctrl |-> IF "ctrl" \in h THEN j.ctrl ELSE i.ctrl,
             select |-> IF "select" \in h THEN j.select ELSE i.select,
             find_location |->
                IF "find_location" \in h THEN j.find_location ELSE i.find_location]
    BY <1>1 DEF Programmed
  <1>3. k \in Images
    BY <1>2 DEF Images
  <1>4. QED
    BY <1>2, <1>3

LEMMA OneHalfWord ==
    ASSUME NEW i \in Images, NEW j \in Images, NEW p \in 1 .. 6
    PROVE  Replaced(Programmed(i, j, HalfWords[p]), i, j, p)
  <1>1. /\ "addr" \in HalfWords[p] <=> p = 2
        /\ "brand_code" \in HalfWords[p] <=> p = 4
        /\ "select" \in HalfWords[p] <=> p = 6
    BY HalfWordNames
  <1>2. QED
    BY <1>1, Programming DEF Replaced

(* A field set to another value of its range gives a page again.           *)
Same(k, i) == k.addr = i.addr /\ k.brand_code = i.brand_code /\ k.select = i.select

LEMMA SetField ==
    ASSUME NEW i \in Images, NEW k, NEW v
    PROVE  /\ k = [i EXCEPT !.crc = v] /\ v \in Crcs => k \in Images /\ Same(k, i)
           /\ k = [i EXCEPT !.type = v] /\ v = INFRARED_TYPE => k \in Images /\ Same(k, i)
           /\ k = [i EXCEPT !.Version = v] /\ v = 2 => k \in Images /\ Same(k, i)
           /\ k = [i EXCEPT !.find_location = v] /\ v \in {NO, YES} => k \in Images /\ Same(k, i)
           /\ k = [i EXCEPT !.ctrl = v] /\ v \in Ctrls => k \in Images
           /\ k = [i EXCEPT !.brand_code = v] /\ v \in Brands => k \in Images
           /\ k = [i EXCEPT !.select = v] /\ v \in {SELECT_MATCH, SELECT_LEARN} =>
                 k \in Images /\ k.select = v
           /\ k = [i EXCEPT !.addr = v] /\ v \in Addrs =>
                 k \in Images /\ k.brand_code = i.brand_code /\ k.select = i.select
  BY DEF Images, Same

LEMMA StoreInit == Init => StoreInv
  <1> SUFFICES ASSUME Init PROVE StoreInv
    OBVIOUS
  <1>1. Erased \in Images
    BY StoreAssumption
  <1>2. module_info \in Images /\ module_info.select = SELECT_MATCH
    <2>1. module_info = [Erased EXCEPT !.select = SELECT_MATCH]
      BY DEF Init, NoMemory
    <2>2. QED
      BY <1>1, <2>1 DEF Images
  <1>3. /\ image = Erased /\ pc = "off" /\ pos = 1 /\ kept = Nothing
        /\ failed = FALSE /\ saved = FALSE /\ crcGood = FALSE
    BY DEF Init
  <1>4. pos \in 1 .. Len(HalfWords)
    BY <1>3, HalfWordNames
  <1>5. TypeOK
    BY <1>1, <1>2, <1>3, <1>4, Zenon DEF TypeOK
  <1>6. QED
    BY <1>3, <1>5 DEF StoreInv, RestartRestores

-----------------------------------------------------------------------------
(* One lemma for every action.                                             *)

LEMMA BootStep ==
    ASSUME StoreInv, NEW c \in Behind, Boot(c) PROVE StoreInv'
  <1> DEFINE m == [image EXCEPT !.select = Select(image)]
  <1>1. image \in Images
    BY DEF StoreInv, TypeOK
  <1>2. /\ m \in Images /\ m.select = Select(image) /\ m.addr = image.addr
        /\ m.brand_code = image.brand_code /\ m.crc = image.crc
    BY <1>1, SelectRange DEF Images
  <1> DEFINE n == initModuleInfo(m, c)
  <1>3. /\ n \in Images /\ n.select = m.select /\ n.brand_code = m.brand_code
        /\ m.crc = c => n.addr = m.addr
    <2> HIDE DEF m
    <2>1. CASE m.crc = c
      BY <1>2, <2>1 DEF Images, initModuleInfo
    <2>2. CASE m.crc # c
      <3>1. 1 \in Addrs /\ CrcOfZeros \in Crcs
        BY StoreAssumption
      <3> DEFINE m1 == [m EXCEPT !.addr = 1]
                 m2 == [m1 EXCEPT !.type = INFRARED_TYPE]
      <3>2. n = [m2 EXCEPT !.crc = CrcOfZeros]
        BY <2>2 DEF initModuleInfo
      <3>3. m1 \in Images /\ m1.brand_code = m.brand_code /\ m1.select = m.select
        BY <1>2, <3>1, SetField
      <3> HIDE DEF m1
      <3>4. m2 \in Images /\ Same(m2, m1)
        BY <3>3, SetField
      <3> HIDE DEF m2
      <3>5. n \in Images /\ Same(n, m2)
        BY <3>1, <3>2, <3>4, SetField
      <3>6. QED
        BY <2>2, <3>3, <3>4, <3>5 DEF Same
    <2>3. QED
      BY <2>1, <2>2
  <1>4. /\ module_info' \in Images /\ module_info'.select = Select(image)
        /\ module_info'.brand_code = image.brand_code
        /\ image.crc = c => module_info'.addr = image.addr
    <2>1. module_info' = [n EXCEPT !.find_location = NO, !.Version = 2]
      BY DEF Boot
    <2> HIDE DEF m, n
    <2>2. /\ module_info' \in Images /\ module_info'.select = n.select
          /\ module_info'.brand_code = n.brand_code /\ module_info'.addr = n.addr
      <3> DEFINE n1 == [n EXCEPT !.find_location = NO]
      <3>1. module_info' = [n1 EXCEPT !.Version = 2]
        BY <2>1
      <3>2. n1 \in Images /\ Same(n1, n)
        BY <1>3, SetField
      <3> HIDE DEF n1
      <3>3. module_info' \in Images /\ Same(module_info', n1)
        BY <3>1, <3>2, SetField
      <3>4. QED
        BY <3>2, <3>3 DEF Same
    <2>3. QED
      BY <1>2, <1>3, <2>2
  <1>5. /\ pc = "off" /\ pc' = "booted" /\ modulePre' = NoInfo /\ crcGood' = (image.crc = c)
        /\ failed' = failed /\ image' = image /\ pos' = pos /\ saved' = saved /\ kept' = kept
    BY DEF Boot
  <1>6. TypeOK'
    <2>1. crcGood' \in BOOLEAN
      BY <1>5, Zenon
    <2>2. QED
      BY <1>4, <1>5, <2>1, SelectRange DEF StoreInv, TypeOK
  <1>7. RestartRestores'
    BY <1>4, <1>5 DEF StoreInv, RestartRestores, Agrees, Compared
  <1>8. QED
    BY <1>5, <1>6, <1>7 DEF StoreInv

LEMMA WorkStep ==
    ASSUME StoreInv, NEW a \in Addrs, NEW b \in Brands, NEW c \in Ctrls,
           NEW s \in {SELECT_MATCH, SELECT_LEARN}, NEW l \in {NO, YES}, Work(a, b, c, s, l)
    PROVE  StoreInv'
  <1>1. module_info \in Images
    BY DEF StoreInv, TypeOK
  <1>2. module_info' = [module_info EXCEPT !.addr = a, !.brand_code = b, !.ctrl = c,
                                              !.select = s, !.find_location = l]
    BY DEF Work
  <1>3. module_info' \in Images /\ module_info'.select = s
    <2> DEFINE m1 == [module_info EXCEPT !.addr = a]
               m2 == [m1 EXCEPT !.brand_code = b]
               m3 == [m2 EXCEPT !.ctrl = c]
               m4 == [m3 EXCEPT !.select = s]
    <2>1. module_info' = [m4 EXCEPT !.find_location = l]
      BY <1>2
    <2>2. m1 \in Images
      BY <1>1, SetField
    <2> HIDE DEF m1
    <2>3. m2 \in Images
      BY <2>2, SetField
    <2> HIDE DEF m2
    <2>4. m3 \in Images
      BY <2>3, SetField
    <2> HIDE DEF m3
    <2>5. m4 \in Images /\ m4.select = s
      BY <2>4, SetField
    <2> HIDE DEF m4
    <2>6. QED
      BY <2>1, <2>5, SetField DEF Same
  <1>4. /\ pc \in {"booted", "rest"} /\ pc' = "check"
        /\ crcGood' = FALSE /\ UNCHANGED <<modulePre, image, pos, failed, saved>>
    BY DEF Work
  <1>5. TypeOK'
    BY <1>3, <1>4 DEF StoreInv, TypeOK
  <1>6. QED
    BY <1>4, <1>5 DEF StoreInv, RestartRestores, Agrees, Select

LEMMA CheckStep == ASSUME StoreInv, Check PROVE StoreInv'
  <1>1. /\ pc = "check"
        /\ UNCHANGED <<module_info, image, pos, failed, saved, crcGood, kept>>
        /\ \/ pc' = "erase" /\ modulePre' = Compared(module_info)
           \/ /\ pc' = "rest" /\ modulePre' = modulePre
              /\ modulePre = Compared(module_info)
    BY DEF Check, Changed
  <1>2. TypeOK'
    BY <1>1 DEF StoreInv, TypeOK
  <1>3. Compared(module_info)' = Compared(module_info)
    BY <1>1 DEF Compared
  <1>4. QED
    BY <1>1, <1>2, <1>3 DEF StoreInv, RestartRestores, Agrees, Select

LEMMA EraseStep ==
    ASSUME StoreInv, NEW ok \in BOOLEAN, stm32_flash_erase(ok) PROVE StoreInv'
  <1>1. /\ pc = "erase" /\ pc' = "write" /\ pos' = 1
        /\ image' = (IF ok THEN Erased ELSE image) /\ failed' = ~ok
        /\ UNCHANGED <<module_info, modulePre, saved, crcGood, kept>>
    BY DEF stm32_flash_erase
  <1>2. failed' \in BOOLEAN
    BY <1>1, Zenon
  <1>3. TypeOK'
    BY <1>1, <1>2, StoreAssumption, HalfWordNames DEF StoreInv, TypeOK
  <1>4. Compared(module_info)' = Compared(module_info)
    BY <1>1 DEF Compared
  <1>5. QED
    BY <1>1, <1>3, <1>4 DEF StoreInv, RestartRestores, Written

(* The last half-word makes the page agree with what counts as saved.      *)
LEMMA WriteStep ==
    ASSUME StoreInv, NEW ok \in BOOLEAN, stm32_flash_write(ok) PROVE StoreInv'
  <1>1. /\ pc = "write" /\ UNCHANGED <<module_info, modulePre, crcGood, kept>>
        /\ Compared(module_info)' = Compared(module_info)
    BY DEF stm32_flash_write, Compared
  <1>2. image \in Images /\ module_info \in Images /\ pos \in 1 .. 6
        /\ modulePre = Compared(module_info)
    BY <1>1, HalfWordNames DEF StoreInv, TypeOK
  <1>3. CASE /\ image' = Programmed(image, module_info, HalfWords[pos])
             /\ pc' = (IF Last THEN "rest" ELSE "write")
             /\ pos' = (IF Last THEN 1 ELSE pos + 1)
             /\ saved' = (saved \/ Last) /\ failed' = failed
    <2>0. Replaced(image', image, module_info, pos)
      BY <1>2, <1>3, OneHalfWord
    <2>1. /\ image' \in Images
          /\ image'.addr = IF pos = 2 THEN module_info.addr ELSE image.addr
          /\ image'.brand_code = IF pos = 4 THEN module_info.brand_code ELSE image.brand_code
          /\ image'.select = IF pos = 6 THEN module_info.select ELSE image.select
      BY <2>0 DEF Replaced
    <2>2. saved' \in BOOLEAN
      BY <1>3, Zenon
    <2>3. TypeOK'
      BY <1>1, <1>2, <1>3, <2>1, <2>2, HalfWordNames DEF StoreInv, TypeOK, Last
    <2>4. CASE Last
      <3>1. pos = 6 /\ pc' = "rest"
        BY <1>3, <2>4, HalfWordNames DEF Last
      <3>2. ~failed => Agrees(image', modulePre')
        BY <1>1, <1>2, <2>1, <3>1, SelectKept DEF StoreInv, TypeOK, Written, Agrees, Compared
      <3>3. QED
        BY <1>1, <1>2, <1>3, <2>3, <3>1, <3>2 DEF StoreInv, RestartRestores
    <2>5. CASE ~Last
      <3>1. pos < 6 /\ pc' = "write" /\ pos' = pos + 1
        BY <1>2, <1>3, <2>5, HalfWordNames DEF Last
      <3>2. ~failed => Written'
        BY <1>1, <1>2, <2>1, <3>1 DEF StoreInv, Written
      <3>3. QED
        BY <1>1, <1>2, <1>3, <2>3, <3>1, <3>2 DEF StoreInv, RestartRestores
    <2>6. QED
      BY <2>4, <2>5
  <1>4. CASE pc' = "rest" /\ pos' = 1 /\ failed' = TRUE /\ UNCHANGED <<image, saved>>
    <2>1. TypeOK'
      BY <1>1, <1>4, HalfWordNames DEF StoreInv, TypeOK
    <2>2. QED
      BY <1>1, <1>2, <1>4, <2>1 DEF StoreInv, RestartRestores
  <1>5. QED
    BY <1>3, <1>4 DEF stm32_flash_write

LEMMA PowerStep == ASSUME StoreInv, PowerLoss PROVE StoreInv'
  <1>1. /\ pc' = "off" /\ pos' = 1 /\ image' \in Torn
        /\ kept' = (IF pc = "rest" /\ ~failed THEN Compared(module_info) ELSE Nothing)
        /\ module_info' = NoMemory /\ failed' = FALSE /\ crcGood' = FALSE /\ saved' = saved
    BY DEF PowerLoss
  <1>2. image \in Images /\ pos \in 1 .. 6
    BY HalfWordNames DEF StoreInv, TypeOK
  <1>3. image' \in Images /\ (pc = "rest" => image' = image)
    <2>1. CASE pc = "write"
      <3>1. PICK i \in Images : image' = Programmed(image, i, HalfWords[pos])
        BY <1>1, <2>1 DEF Torn
      <3>2. QED
        BY <1>2, <2>1, <3>1, OneHalfWord DEF Replaced
    <2>2. CASE pc # "write"
      BY <1>1, <1>2, <2>2 DEF Torn
    <2>3. QED
      BY <2>1, <2>2
  <1>4. TypeOK'
    <2>1. NoMemory \in Images /\ NoMemory.select = SELECT_MATCH
      BY StoreAssumption DEF NoMemory, Images
    <2>2. pos' \in 1 .. Len(HalfWords)
      BY <1>1, HalfWordNames
    <2>3. QED
      BY <1>1, <1>3, <2>1, <2>2, Zenon DEF StoreInv, TypeOK
  <1>5. kept' \notin {Nothing, NoInfo} => Agrees(image', kept')
    <2> SUFFICES ASSUME kept' \notin {Nothing, NoInfo} PROVE Agrees(image', kept')
      OBVIOUS
    <2>1. pc = "rest" /\ ~failed /\ kept' = Compared(module_info)
      BY <1>1
    <2>2. modulePre = kept' /\ image' = image
      BY <1>3, <2>1 DEF StoreInv
    <2>3. QED
      BY <2>1, <2>2 DEF StoreInv
  <1>6. QED
    BY <1>1, <1>4, <1>5 DEF StoreInv, RestartRestores

LEMMA StoreStep == StoreInv /\ [Next]_vars => StoreInv'
  <1> SUFFICES ASSUME StoreInv, [Next]_vars PROVE StoreInv'
    OBVIOUS
  <1>1. CASE UNCHANGED vars
    BY <1>1 DEF vars, StoreInv, TypeOK, Written, Agrees, Select, RestartRestores, Compared
  <1>2. CASE Next
    BY <1>2, BootStep, WorkStep, CheckStep, EraseStep, WriteStep, PowerStep, Zenon DEF Next
  <1>3. QED
    BY <1>1, <1>2

-----------------------------------------------------------------------------
LEMMA StoreAlways == Spec => []StoreInv
  BY StoreInit, StoreStep, PTL DEF Spec

(* The fields keep their ranges through failures and power losses, and the *)
(* mode in memory is always one of the two.                                *)
THEOREM StoreTypeCorrect == Spec => []TypeOK
  <1>1. StoreInv => TypeOK
    BY DEF StoreInv
  <1>2. QED
    BY <1>1, StoreAlways, PTL

(* Whatever page the module started from, what it has in memory after the  *)
(* save of an iteration is what the page would give back, unless that save *)
(* failed or all compared fields are zero.                                 *)
THEOREM SavesAreDurable == Spec => []Durable
  <1>1. StoreInv => Durable
    <2> SUFFICES ASSUME StoreInv, pc = "rest", ~failed, Compared(module_info) # NoInfo
                 PROVE  Agrees(image, Compared(module_info))
      BY DEF Durable, Agrees, Compared
    <2>1. QED
      BY DEF StoreInv
  <1>2. QED
    BY <1>1, StoreAlways, PTL

(* A module that lost power between two saves has its address, brand code  *)
(* and mode again after a start whose CRC agrees.                          *)
THEOREM RestartsRestore == Spec => []RestartRestores
  <1>1. StoreInv => RestartRestores
    BY DEF StoreInv
  <1>2. QED
    BY <1>1, StoreAlways, PTL
=============================================================================
