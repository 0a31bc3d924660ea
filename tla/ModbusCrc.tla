------------------------------ MODULE ModbusCrc ------------------------------
(***************************************************************************)
(* The CRC that tells Uart1_input whether a frame of the hub is intact:    *)
(* usModbusRTU_CRC (main.c) over all but the last two bytes, compared with *)
(* those (Uart.c).  The sender runs the same loop and appends the result,  *)
(* low byte first (module.c); in between, bits of the frame are damaged.   *)
(* UartTask takes the verdict as an attribute of a frame; this module says *)
(* what it is worth.                                                       *)
(*                                                                         *)
(* A number is modelled by the set of its bits that are 1.                 *)
(***************************************************************************)
EXTENDS Integers, FiniteSets

CONSTANTS
    Size,     \* bytes of a frame before its CRC
    Bytes,    \* bytes that may be sent
    MaxHits   \* most bits damaged in a frame

byte == SUBSET (0 .. 7)
word == SUBSET (0 .. 15)

ASSUME CrcAssumption == Size \in Nat /\ Bytes \subseteq byte /\ MaxHits \in Nat

VARIABLES
    ulLen, ucIndex,   \* bytes left, bits of this byte done
    usCRC,            \* the receiver's register
    crc16,            \* what the receiver takes for the sender's result
    messageFlag,      \* the frame is accepted
    sent              \* the sender's register

(* History variables.                                                      *)
VARIABLES
    hits,      \* how many bits are damaged so far
    damaged,   \* which ones, numbered in the order of the line
    harm,      \* the register of the damage alone, without the initial value
    tail       \* the damage of the last two bytes

vars == <<ulLen, ucIndex, usCRC, crc16, messageFlag, sent, hits, damaged, harm, tail>>

-----------------------------------------------------------------------------
Xor(a, b) == (a \ b) \cup (b \ a)

(* Mutant: the bits go the other way.                                      *)
ShiftRight_Left(c) == {i + 1 : i \in c}

ShiftRight(c) == {i \in 0 .. 14 : i + 1 \in c}

(* Mutant: 0x2001, without its highest bit.                                *)
Polynomial_2001 == {0, 13}

Polynomial == {0, 13, 15}   \* 0xA001

(* Mutant: a set low bit is shifted out like any other.                    *)
BitStep_NoXor(c) == ShiftRight(c)

(* The body of the inner loop.                                             *)
BitStep(c) == IF 0 \in c THEN Xor(ShiftRight(c), Polynomial) ELSE ShiftRight(c)

(* Mutant: the byte is or'ed to the register.                              *)
TakeByte_Or(c, b) == c \cup b

TakeByte(c, b) == Xor(c, b)

(* The two bytes of a result in a frame, and the result read from them.    *)
Low(c)  == c \cap 0 .. 7
High(c) == {i \in 0 .. 7 : i + 8 \in c}

(* Mutant: high byte first.                                                *)
Whole_Swapped(low, high) == high \cup {i \in 8 .. 15 : i - 8 \in low}

Whole(low, high) == low \cup {i \in 8 .. 15 : i - 8 \in high}

-----------------------------------------------------------------------------
Init ==
    /\ ulLen = Size /\ ucIndex = 8
    /\ usCRC = 0 .. 15 /\ crc16 = {} /\ messageFlag = FALSE
    /\ sent = 0 .. 15
    /\ hits = 0 /\ damaged = {} /\ harm = {} /\ tail = {}

(* Bits that have gone through the register.                               *)
Done == 8 * (Size - ulLen) + ucIndex - 8

(* What may still be damaged in a byte, if n bits may.                     *)
Damage == [n \in 0 .. MaxHits |-> {d \in byte : Cardinality(d) <= n}]

(* The outer loop: another byte b, of which the bits in d are damaged.     *)
NextByte(b, d) ==
    /\ ulLen > 0 /\ ucIndex = 8
    /\ ulLen' = ulLen - 1 /\ ucIndex' = 0
    /\ usCRC' = TakeByte(usCRC, Xor(b, d))
    /\ sent' = TakeByte(sent, b)
    /\ harm' = Xor(harm, d)
    /\ hits' = hits + Cardinality(d)
    /\ damaged' = damaged \cup {Done + i : i \in d}
    /\ UNCHANGED <<crc16, messageFlag, tail>>

(* The inner loop.                                                         *)
NextBit ==
    /\ ucIndex < 8 /\ ucIndex' = ucIndex + 1
    /\ usCRC' = BitStep(usCRC)
    /\ sent' = BitStep(sent)
    /\ harm' = BitStep(harm)
    /\ UNCHANGED <<ulLen, crc16, messageFlag, hits, damaged, tail>>

(* Uart1_input compares.                                                   *)
Compare(low, high) ==
    /\ ulLen = 0 /\ ucIndex = 8
    /\ ucIndex' = 9
    /\ crc16' = Whole(Xor(Low(sent), low), Xor(High(sent), high))
    /\ messageFlag' = (crc16' = usCRC)
    /\ hits' = hits + Cardinality(low) + Cardinality(high)
    /\ tail' = low \cup {i \in 8 .. 15 : i - 8 \in high}
    /\ damaged' = damaged \cup {Done + i : i \in tail'}
    /\ UNCHANGED <<ulLen, usCRC, sent, harm>>

Next ==
    \/ \E b \in Bytes, d \in Damage[MaxHits - hits] : NextByte(b, d)
    \/ NextBit
    \/ \E low \in Damage[MaxHits - hits] :
           \E high \in Damage[MaxHits - hits - Cardinality(low)] : Compare(low, high)

Spec == Init /\ [][Next]_vars

-----------------------------------------------------------------------------
Compared == ucIndex = 9

(* TypeOK: the registers keep their 16 bits.                               *)
TypeOK ==
    /\ ulLen \in 0 .. Size /\ ucIndex \in 0 .. 9
    /\ usCRC \in word /\ crc16 \in word /\ sent \in word /\ harm \in word /\ tail \in word
    /\ messageFlag \in BOOLEAN
    /\ hits \in 0 .. MaxHits /\ damaged \subseteq 0 .. 8 * Size + 15

(* OnlyDamageMatters: whether a damaged frame is accepted depends on its   *)
(* damage alone, not on what was sent.                                     *)
OnlyDamageMatters == Compared => (messageFlag <=> harm = tail)

(* IntactAccepted: an undamaged frame is accepted.                         *)
IntactAccepted == Compared /\ hits = 0 => messageFlag

(* DamageDetected: up to three damaged bits, wherever they are, the CRC's  *)
(* own among them, are noticed.                                            *)
DamageDetected == Compared /\ hits \in 1 .. 3 => ~messageFlag

(* OddDamageDetected: so is every odd number of damaged bits, because the  *)
(* polynomial, with the bit that is shifted out, has an even number of     *)
(* terms.                                                                  *)
OddDamageDetected == Compared /\ hits % 2 = 1 => ~messageFlag

(* BurstDetected: and so is any disturbance of the line that is over       *)
(* within 16 bits, whatever it does to them, also when it runs from the    *)
(* frame into its CRC.                                                     *)
BurstDetected ==
    Compared /\ damaged # {} /\ (\A p, q \in damaged : p - q < 16) => ~messageFlag
=============================================================================
