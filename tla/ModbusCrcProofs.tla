--------------------------- MODULE ModbusCrcProofs ---------------------------
(***************************************************************************)
(* Proofs about the CRC, for frames of every length, every content and     *)
(* every damage: it is linear, so what TLC finds for one content holds for *)
(* all.                                                                    *)
(***************************************************************************)
EXTENDS ModbusCrc, TLAPS, FiniteSetTheorems, FunctionTheorems

(* The receiver's register is the sender's with the harm of the damage.    *)
Linear == usCRC = Xor(sent, harm)

Harmless == hits = 0 => harm = {} /\ tail = {}

(* Until the comparison nothing is known of the last two bytes.            *)
NoTailYet == ~Compared => tail = {}

CrcInv ==
    /\ TypeOK /\ Linear /\ Harmless /\ NoTailYet
    /\ Compared => (messageFlag <=> harm = tail)

-----------------------------------------------------------------------------
LEMMA XorWord == ASSUME NEW a \in word, NEW b \in word PROVE Xor(a, b) \in word
  BY DEF Xor, word

LEMMA ByteIsWord == ASSUME NEW b \in byte PROVE b \in word
  BY DEF byte, word

(* Exclusive or: order and grouping do not matter.                         *)
LEMMA XorPairs ==
    ASSUME NEW a, NEW b, NEW c, NEW d
    PROVE  Xor(Xor(a, b), Xor(c, d)) = Xor(Xor(a, c), Xor(b, d))
  BY Zenon DEF Xor

LEMMA XorNothing == ASSUME NEW a PROVE Xor(a, {}) = a
  BY Zenon DEF Xor

LEMMA XorCancels ==
    ASSUME NEW a, NEW b, NEW c PROVE (Xor(a, b) = Xor(a, c)) <=> (b = c)
  BY Zenon DEF Xor

(* The shift and one bit of the CRC keep 16 bits and are linear.           *)
LEMMA ShiftWord == ASSUME NEW a PROVE ShiftRight(a) \in word
  BY DEF ShiftRight, word

LEMMA BitStepWord == ASSUME NEW a PROVE BitStep(a) \in word
  <1>1. Polynomial \in word
    BY DEF Polynomial, word
  <1>2. QED
    BY <1>1, ShiftWord, XorWord DEF BitStep

LEMMA ShiftLinear ==
    ASSUME NEW a, NEW b PROVE ShiftRight(Xor(a, b)) = Xor(ShiftRight(a), ShiftRight(b))
  BY Zenon DEF ShiftRight, Xor

LEMMA BitStepLinear ==
    ASSUME NEW a, NEW b PROVE BitStep(Xor(a, b)) = Xor(BitStep(a), BitStep(b))
  <1> DEFINE s == ShiftRight(a)
             t == ShiftRight(b)
             p == Polynomial
  <1>1. ShiftRight(Xor(a, b)) = Xor(s, t)
    BY ShiftLinear
  <1>2. 0 \in Xor(a, b) <=> ~(0 \in a <=> 0 \in b)
    BY Zenon DEF Xor
  <1> HIDE DEF s, t, p
  <1>3. /\ Xor(Xor(s, t), p) = Xor(Xor(s, p), t)
        /\ Xor(Xor(s, t), p) = Xor(s, Xor(t, p))
        /\ Xor(s, t) = Xor(Xor(s, p), Xor(t, p))
    BY Zenon DEF Xor
  <1>4. QED
    BY <1>1, <1>2, <1>3, Zenon DEF BitStep, s, t, p

(* Reading back the two bytes.                                             *)
LEMMA WholeLinear ==
    ASSUME NEW c \in word, NEW low \in byte, NEW high \in byte
    PROVE  Whole(Xor(Low(c), low), Xor(High(c), high)) =
               Xor(c, low \cup {i \in 8 .. 15 : i - 8 \in high})
  <1> DEFINE L == Whole(Xor(Low(c), low), Xor(High(c), high))
             R == Xor(c, low \cup {i \in 8 .. 15 : i - 8 \in high})
  <1>1. L \subseteq 0 .. 15 /\ R \subseteq 0 .. 15
    <2>1. c \subseteq 0 .. 15 /\ low \subseteq 0 .. 7 /\ Low(c) \subseteq 0 .. 7
      BY Zenon DEF word, byte, Low
    <2>2. 0 .. 7 \subseteq 0 .. 15 /\ 8 .. 15 \subseteq 0 .. 15
      OBVIOUS
    <2>3. L \subseteq 0 .. 15
      BY <2>1, <2>2, Zenon DEF Whole, Xor
    <2>4. R \subseteq 0 .. 15
      BY <2>1, <2>2, Zenon DEF Xor
    <2>5. QED
      BY <2>3, <2>4
  <1>2. ASSUME NEW i \in 0 .. 7 PROVE i \in L <=> i \in R
    BY <1>2 DEF Whole, Xor, Low, High, byte, word
  <1>3. ASSUME NEW i \in 8 .. 15 PROVE i \in L <=> i \in R
    BY <1>3 DEF Whole, Xor, Low, High, byte, word
  <1>4. ASSUME NEW i \in 0 .. 15 PROVE i \in 0 .. 7 \/ i \in 8 .. 15
    OBVIOUS
  <1> HIDE DEF L, R
  <1>5. L = R
    BY <1>1, <1>2, <1>3, <1>4, Zenon
  <1>6. QED
    BY <1>5 DEF L, R
-----------------------------------------------------------------------------
(* The damage allowed in a byte is counted.                                *)
LEMMA DamageCounts ==
    ASSUME NEW n \in 0 .. MaxHits, NEW d \in Damage[n]
    PROVE  /\ d \in byte /\ Cardinality(d) \in Nat /\ Cardinality(d) <= n
           /\ Cardinality(d) = 0 => d = {}
  <1>1. d \in byte /\ Cardinality(d) <= n
    BY DEF Damage
  <1>2. IsFiniteSet(0 .. 7)
    <2>1. 0 \in Int /\ 7 \in Int
      OBVIOUS
    <2>2. QED
      BY <2>1, FS_Interval, Zenon
  <1>3. d \subseteq 0 .. 7
    BY <1>1 DEF byte
  <1>4. IsFiniteSet(d)
    BY <1>2, <1>3, FS_Subset, Zenon
  <1>5. Cardinality(d) \in Nat /\ (Cardinality(d) = 0 => d = {})
    BY <1>4, FS_CardinalityType, FS_EmptySet, Zenon
  <1>6. QED
    BY <1>1, <1>5

(* Two counts of damage within what is allowed are, together.              *)
LEMMA SumInBounds ==
    ASSUME NEW m \in Nat, NEW h \in 0 .. m, NEW k \in Nat, k <= m - h
    PROVE  /\ h + k \in 0 .. m
           /\ h + k = 0 => h = 0 /\ k = 0
  OBVIOUS

(* Between two bytes a whole number of bytes is done.                      *)
LEMMA DoneAtByte ==
    ASSUME TypeOK, ucIndex = 8
    PROVE  /\ Done = 8 * (Size - ulLen) /\ Done \in Nat /\ Done <= 8 * Size
           /\ ulLen > 0 => Done + 8 <= 8 * Size
  BY CrcAssumption DEF TypeOK, Done

LEMMA CrcStarts == Init => CrcInv
  <1> SUFFICES ASSUME Init PROVE CrcInv
    OBVIOUS
  <1>0. /\ Size \in 0 .. Size /\ 8 \in 0 .. 9 /\ 0 \in 0 .. MaxHits
        /\ 0 .. 15 \in word /\ {} \in word /\ {} \subseteq 0 .. 8 * Size + 15
    BY CrcAssumption DEF word
  <1>1. TypeOK
    BY <1>0, Zenon DEF Init, TypeOK
  <1>2. Linear
    BY XorNothing DEF Init, Linear
  <1>3. QED
    BY <1>1, <1>2 DEF Init, CrcInv, Harmless, Compared, NoTailYet

LEMMA ByteStep ==
    ASSUME CrcInv, NEW b \in Bytes, NEW d \in Damage[MaxHits - hits], NextByte(b, d)
    PROVE  CrcInv'
  <1>1. /\ ulLen > 0 /\ ulLen' = ulLen - 1 /\ ucIndex' = 0
        /\ usCRC' = Xor(usCRC, Xor(b, d)) /\ sent' = Xor(sent, b) /\ harm' = Xor(harm, d)
        /\ hits' = hits + Cardinality(d) /\ UNCHANGED <<crc16, messageFlag, tail>>
        /\ ucIndex = 8 /\ damaged' = damaged \cup {Done + i : i \in d}
    BY Zenon DEF NextByte, TakeByte
  <1>2. TypeOK /\ MaxHits \in Nat /\ Size \in Nat /\ MaxHits - hits \in 0 .. MaxHits
    BY CrcAssumption DEF CrcInv, TypeOK
  <1>3. /\ d \in byte /\ Cardinality(d) \in Nat /\ Cardinality(d) <= MaxHits - hits
        /\ Cardinality(d) = 0 => d = {}
    BY <1>2, DamageCounts
  <1>4. b \in word /\ d \in word
    BY <1>3, ByteIsWord, CrcAssumption
  <1>5. /\ usCRC' \in word /\ sent' \in word /\ harm' \in word
        /\ crc16' \in word /\ tail' \in word /\ messageFlag' \in BOOLEAN
    BY <1>1, <1>2, <1>4, XorWord, Zenon DEF TypeOK
  <1>6. ulLen' \in 0 .. Size /\ ucIndex' \in 0 .. 9 /\ hits' \in 0 .. MaxHits
    <2>1. ulLen' \in 0 .. Size /\ ucIndex' \in 0 .. 9
      BY <1>1, <1>2 DEF TypeOK
    <2>2. hits + Cardinality(d) \in 0 .. MaxHits
      BY <1>2, <1>3, SumInBounds, Zenon DEF TypeOK
    <2>3. QED
      BY <1>1, <2>1, <2>2, Zenon
  <1>d. damaged' \subseteq 0 .. 8 * Size + 15
    <2>0. Done \in Nat /\ Done + 8 <= 8 * Size
      BY <1>1, <1>2, DoneAtByte, Zenon
    <2>1. ASSUME NEW i \in 0 .. 7 PROVE Done + i \in 0 .. 8 * Size + 15
      BY <2>0, CrcAssumption
    <2>2. damaged \subseteq 0 .. 8 * Size + 15 /\ d \subseteq 0 .. 7
      BY <1>2, <1>3, Zenon DEF TypeOK, byte
    <2>3. QED
      BY <1>1, <2>1, <2>2, Zenon
  <1>7. TypeOK'
    BY <1>5, <1>6, <1>d, Zenon DEF TypeOK
  <1>8. Linear'
    <2>1. usCRC = Xor(sent, harm)
      BY DEF CrcInv, Linear
    <2>2. Xor(Xor(sent, harm), Xor(b, d)) = Xor(Xor(sent, b), Xor(harm, d))
      BY XorPairs
    <2>3. usCRC' = Xor(sent', harm')
      BY <1>1, <2>1, <2>2
    <2>4. QED
      BY <2>3 DEF Linear
  <1>9. Harmless'
    <2>1. hits' = 0 => hits = 0 /\ Cardinality(d) = 0
      BY <1>1, <1>2, <1>3, SumInBounds, Zenon DEF TypeOK
    <2>2. QED
      BY <1>1, <1>3, <2>1, XorNothing, Zenon DEF CrcInv, Harmless
  <1>10. QED
    <2>1. NoTailYet'
      BY <1>1, SMT DEF CrcInv, NoTailYet, Compared
    <2>2. QED
      BY <1>1, <1>7, <1>8, <1>9, <2>1 DEF CrcInv, Compared

LEMMA BitKeeps == ASSUME CrcInv, NextBit PROVE CrcInv'
  <1>1. /\ ucIndex < 8 /\ ucIndex' = ucIndex + 1
        /\ usCRC' = BitStep(usCRC) /\ sent' = BitStep(sent) /\ harm' = BitStep(harm)
        /\ UNCHANGED <<ulLen, crc16, messageFlag, hits, damaged, tail>>
    BY Zenon DEF NextBit
  <1>2. usCRC' \in word /\ sent' \in word /\ harm' \in word
    BY <1>1, BitStepWord
  <1>3. ucIndex' \in 0 .. 9 /\ ucIndex' # 9
    BY <1>1 DEF CrcInv, TypeOK
  <1>4. TypeOK'
    BY <1>1, <1>2, <1>3, Zenon DEF CrcInv, TypeOK
  <1>5. Linear'
    BY <1>1, BitStepLinear, Zenon DEF CrcInv, Linear
  <1>6. BitStep({}) = {}
    BY DEF BitStep, ShiftRight
  <1>7. Harmless'
    BY <1>1, <1>6, Zenon DEF CrcInv, Harmless
  <1>8. QED
    <2>1. NoTailYet'
      BY <1>1, SMT DEF CrcInv, NoTailYet, Compared
    <2>2. QED
      BY <1>3, <1>4, <1>5, <1>7, <2>1 DEF CrcInv, Compared

LEMMA CompareStep ==
    ASSUME CrcInv, NEW low \in Damage[MaxHits - hits],
           NEW high \in Damage[MaxHits - hits - Cardinality(low)], Compare(low, high)
    PROVE  CrcInv'
  <1>1. /\ ucIndex' = 9 /\ messageFlag' = (crc16' = usCRC)
        /\ crc16' = Whole(Xor(Low(sent), low), Xor(High(sent), high))
        /\ tail' = low \cup {i \in 8 .. 15 : i - 8 \in high}
        /\ hits' = hits + Cardinality(low) + Cardinality(high)
        /\ ucIndex = 8 /\ damaged' = damaged \cup {Done + i : i \in tail'}
        /\ UNCHANGED <<ulLen, usCRC, sent, harm>>
    BY Zenon DEF Compare
  <1>2. TypeOK /\ MaxHits \in Nat /\ MaxHits - hits \in 0 .. MaxHits
    BY CrcAssumption DEF CrcInv, TypeOK
  <1>3. /\ low \in byte /\ Cardinality(low) \in Nat /\ Cardinality(low) <= MaxHits - hits
        /\ Cardinality(low) = 0 => low = {}
    BY <1>2, DamageCounts
  <1>4. MaxHits - hits - Cardinality(low) \in 0 .. MaxHits
    BY <1>2, <1>3
  <1>5. /\ high \in byte /\ Cardinality(high) \in Nat
        /\ Cardinality(high) <= MaxHits - hits - Cardinality(low)
        /\ Cardinality(high) = 0 => high = {}
    BY <1>4, DamageCounts
  <1>6. crc16' = Xor(sent, tail')
    <2>1. sent \in word
      BY <1>2 DEF TypeOK
    <2>2. Whole(Xor(Low(sent), low), Xor(High(sent), high)) =
              Xor(sent, low \cup {i \in 8 .. 15 : i - 8 \in high})
      BY <1>3, <1>5, <2>1, WholeLinear
    <2>3. QED
      BY <1>1, <2>2, Zenon
  <1>7. tail' \in word
    <2>1. low \in word
      BY <1>3, ByteIsWord
    <2>2. 8 .. 15 \subseteq 0 .. 15
      OBVIOUS
    <2>3. QED
      BY <1>1, <2>1, <2>2, Zenon DEF word
  <1>8. crc16' \in word
    BY <1>2, <1>6, <1>7, XorWord, Zenon DEF TypeOK
  <1>h. /\ hits + Cardinality(low) \in 0 .. MaxHits
        /\ hits + Cardinality(low) = 0 => hits = 0 /\ Cardinality(low) = 0
    BY <1>2, <1>3, SumInBounds, Zenon DEF TypeOK
  <1>k. Cardinality(high) <= MaxHits - (hits + Cardinality(low))
    <2>1. ASSUME NEW m \in Int, NEW h \in Int, NEW k \in Int
          PROVE  m - h - k = m - (h + k)
      OBVIOUS
    <2>2. MaxHits \in Int /\ hits \in Int /\ Cardinality(low) \in Int
      BY <1>2, <1>3 DEF TypeOK
    <2>3. MaxHits - hits - Cardinality(low) = MaxHits - (hits + Cardinality(low))
      BY <2>1, <2>2, Zenon
    <2>4. QED
      BY <1>5, <2>3, Zenon
  <1>s. /\ hits + Cardinality(low) + Cardinality(high) \in 0 .. MaxHits
        /\ hits + Cardinality(low) + Cardinality(high) = 0
             => hits = 0 /\ Cardinality(low) = 0 /\ Cardinality(high) = 0
    BY <1>2, <1>5, <1>h, <1>k, SumInBounds, Zenon
  <1>9. hits' \in 0 .. MaxHits /\ ucIndex' \in 0 .. 9
    <2>1. 9 \in 0 .. 9
      OBVIOUS
    <2>2. QED
      BY <1>1, <1>s, <2>1, Zenon
  <1>d. damaged' \subseteq 0 .. 8 * Size + 15
    <2>0. Done \in Nat /\ Done <= 8 * Size
      BY <1>1, <1>2, DoneAtByte, Zenon
    <2>1. ASSUME NEW i \in 0 .. 15 PROVE Done + i \in 0 .. 8 * Size + 15
      BY <2>0, CrcAssumption
    <2>2. damaged \subseteq 0 .. 8 * Size + 15 /\ tail' \subseteq 0 .. 15
      BY <1>2, <1>7, Zenon DEF TypeOK, word
    <2>3. QED
      BY <1>1, <2>1, <2>2, Zenon
  <1>10. TypeOK'
    BY <1>1, <1>2, <1>7, <1>8, <1>9, <1>d, Zenon DEF TypeOK
  <1>11. Linear'
    BY <1>1, Zenon DEF CrcInv, Linear
  <1>12. messageFlag' <=> harm' = tail'
    <2>1. usCRC = Xor(sent, harm)
      BY DEF CrcInv, Linear
    <2>2. QED
      <3>1. messageFlag' <=> Xor(sent, tail') = Xor(sent, harm)
        BY <1>1, <1>6, <2>1, Zenon
      <3>2. (Xor(sent, tail') = Xor(sent, harm)) <=> (tail' = harm)
        BY XorCancels
      <3>3. QED
        BY <1>1, <3>1, <3>2, Zenon
  <1>13. Harmless'
    <2>1. hits' = 0 => hits = 0 /\ Cardinality(low) = 0 /\ Cardinality(high) = 0
      BY <1>1, <1>s, Zenon
    <2>2. hits' = 0 => low = {} /\ high = {} /\ harm' = {}
      BY <1>1, <1>3, <1>5, <2>1, Zenon DEF CrcInv, Harmless
    <2>3. QED
      BY <1>1, <2>2 DEF Harmless
  <1>14. QED
    BY <1>1, <1>10, <1>11, <1>12, <1>13 DEF CrcInv, NoTailYet, Compared

LEMMA CrcInductive == Spec => []CrcInv
  <1>1. CrcInv /\ [Next]_vars => CrcInv'
    <2> SUFFICES ASSUME CrcInv, [Next]_vars PROVE CrcInv'
      OBVIOUS
    <2>1. CASE UNCHANGED vars
      <3>1. UNCHANGED <<ulLen, ucIndex, usCRC, crc16, messageFlag, sent, hits, damaged,
                      harm, tail>>
        BY <2>1, Zenon DEF vars
      <3>2. QED
        BY <3>1, Zenon DEF CrcInv, TypeOK, Linear, Harmless, Compared, NoTailYet
    <2>2. QED
      BY <2>1, ByteStep, BitKeeps, CompareStep, Zenon DEF Next
  <1>2. QED
    BY <1>1, CrcStarts, PTL DEF Spec

(* The CRC's registers keep their 16 bits for frames of any length.        *)
THEOREM CrcTypeCorrect == Spec => []TypeOK
  <1>1. CrcInv => TypeOK
    BY DEF CrcInv
  <1>2. QED
    BY <1>1, CrcInductive, PTL

(* Whether damage is noticed does not depend on the frame: the verdicts on *)
(* one content are those on every content.                                 *)
THEOREM VerdictOfDamage == Spec => []OnlyDamageMatters
  <1>1. CrcInv => OnlyDamageMatters
    BY DEF CrcInv, OnlyDamageMatters
  <1>2. QED
    BY <1>1, CrcInductive, PTL

(* Uart1_input accepts every frame that arrives as it was sent.            *)
THEOREM IntactIsAccepted == Spec => []IntactAccepted
  <1>1. CrcInv => IntactAccepted
    BY DEF CrcInv, IntactAccepted, Harmless
  <1>2. QED
    BY <1>1, CrcInductive, PTL
-----------------------------------------------------------------------------
(* Every odd number of damaged bits is noticed: the parity of the damage   *)
(* stays in the register.                                                  *)
Parity(s) == Cardinality(s) % 2

ParityInv == (Cardinality(harm) + Cardinality(tail)) % 2 = hits % 2

LEMMA WordFinite ==
    ASSUME NEW c \in word PROVE IsFiniteSet(c) /\ Cardinality(c) \in Nat
  <1>1. IsFiniteSet(0 .. 15)
    <2>1. 0 \in Int /\ 15 \in Int
      OBVIOUS
    <2>2. QED
      BY <2>1, FS_Interval, Zenon
  <1>2. c \subseteq 0 .. 15
    BY DEF word
  <1>3. QED
    BY <1>1, <1>2, FS_Subset, FS_CardinalityType, Zenon

LEMMA DisjointUnion ==
    ASSUME NEW a, NEW b, IsFiniteSet(a), IsFiniteSet(b), a \cap b = {}
    PROVE  IsFiniteSet(a \cup b) /\ Cardinality(a \cup b) = Cardinality(a) + Cardinality(b)
  <1>1. /\ IsFiniteSet(a \cup b)
        /\ Cardinality(a \cup b) = Cardinality(a) + Cardinality(b) - Cardinality(a \cap b)
    BY FS_Union
  <1>2. Cardinality(a \cap b) = 0
    BY FS_EmptySet
  <1>3. Cardinality(a) \in Nat /\ Cardinality(b) \in Nat
    BY FS_CardinalityType
  <1>4. QED
    BY <1>1, <1>2, <1>3

(* Exclusive or adds the sizes, less twice what is in both.                *)
LEMMA XorSize ==
    ASSUME NEW a, NEW b, IsFiniteSet(a), IsFiniteSet(b)
    PROVE  \E k \in Nat : Cardinality(Xor(a, b)) = Cardinality(a) + Cardinality(b) - 2 * k
  <1>1. /\ IsFiniteSet(a \ b) /\ Cardinality(a \ b) = Cardinality(a) - Cardinality(a \cap b)
        /\ IsFiniteSet(b \ a) /\ Cardinality(b \ a) = Cardinality(b) - Cardinality(b \cap a)
    BY FS_Difference
  <1>2. a \cap b = b \cap a /\ (a \ b) \cap (b \ a) = {}
    OBVIOUS
  <1>3. Cardinality((a \ b) \cup (b \ a)) = Cardinality(a \ b) + Cardinality(b \ a)
    BY <1>1, <1>2, DisjointUnion
  <1>4. Cardinality(a) \in Nat /\ Cardinality(b) \in Nat /\ Cardinality(a \cap b) \in Nat
    BY FS_CardinalityType, FS_Intersection
  <1>5. ASSUME NEW m \in Nat, NEW n \in Nat, NEW k \in Nat
        PROVE  (m - k) + (n - k) = m + n - 2 * k
    OBVIOUS
  <1>6. Cardinality(Xor(a, b)) =
            (Cardinality(a) - Cardinality(a \cap b)) + (Cardinality(b) - Cardinality(a \cap b))
    BY <1>1, <1>2, <1>3, Zenon DEF Xor
  <1>7. QED
    BY <1>4, <1>5, <1>6, Zenon

LEMMA TwiceIsEven ==
    ASSUME NEW m \in Nat, NEW n \in Nat, NEW k \in Nat, n = m - 2 * k
    PROVE  n % 2 = m % 2
  OBVIOUS

LEMMA SumParity ==
    ASSUME NEW m \in Nat, NEW n \in Nat, NEW k \in Nat, m % 2 = n % 2
    PROVE  (m + k) % 2 = (n + k) % 2
  OBVIOUS

LEMMA XorParity ==
    ASSUME NEW a \in word, NEW b \in word
    PROVE  Parity(Xor(a, b)) = (Cardinality(a) + Cardinality(b)) % 2
  <1>1. IsFiniteSet(a) /\ IsFiniteSet(b) /\ Cardinality(a) \in Nat /\ Cardinality(b) \in Nat
    BY WordFinite
  <1>2. Cardinality(Xor(a, b)) \in Nat
    BY XorWord, WordFinite
  <1>3. PICK k \in Nat : Cardinality(Xor(a, b)) = Cardinality(a) + Cardinality(b) - 2 * k
    BY <1>1, XorSize
  <1> DEFINE m == Cardinality(a) + Cardinality(b)
             n == Cardinality(Xor(a, b))
  <1>4. m \in Nat /\ n \in Nat /\ n = m - 2 * k
    BY <1>1, <1>2, <1>3
  <1> HIDE DEF m, n
  <1>5. n % 2 = m % 2
    BY <1>4, TwiceIsEven
  <1>6. QED
    BY <1>5 DEF m, n, Parity

(* Moving the bits of a number does not change how many there are.         *)
LEMMA MovedSize ==
    ASSUME NEW c, NEW e, IsFiniteSet(c), c \subseteq Int, e \subseteq Int, NEW k \in Int,
           \A i \in c : i + k \in e, \A j \in e : j - k \in c
    PROVE  IsFiniteSet(e) /\ Cardinality(e) = Cardinality(c)
  <1> DEFINE f == [i \in c |-> i + k]
  <1>1. f \in [c -> e]
    OBVIOUS
  <1>2. \A i, j \in c : f[i] = f[j] => i = j
    OBVIOUS
  <1>3. \A j \in e : \E i \in c : f[i] = j
    <2>1. ASSUME NEW j \in e PROVE j - k \in c /\ f[j - k] = j
      OBVIOUS
    <2>2. QED
      BY <2>1, Zenon
  <1> HIDE DEF f
  <1>4. f \in Bijection(c, e)
    BY <1>1, <1>2, <1>3, Fun_IsBij, Zenon
  <1>5. ExistsBijection(c, e)
    BY <1>4, Zenon DEF ExistsBijection
  <1>6. QED
    BY <1>5, FS_Bijection

LEMMA ShiftSize ==
    ASSUME NEW c \in word
    PROVE  Cardinality(ShiftRight(c)) = IF 0 \in c THEN Cardinality(c) - 1 ELSE Cardinality(c)
  <1> DEFINE e == ShiftRight(c)
             r == c \ {0}
  <1>1. IsFiniteSet(r) /\ Cardinality(r) = IF 0 \in c THEN Cardinality(c) - 1 ELSE Cardinality(c)
    BY WordFinite, FS_RemoveElement
  <1>2. r \subseteq Int /\ e \subseteq Int /\ -1 \in Int
    BY DEF word, ShiftRight
  <1>3. ASSUME NEW i \in r PROVE i + (-1) \in e
    BY DEF word, ShiftRight
  <1>4. ASSUME NEW j \in e PROVE j - (-1) \in r
    BY DEF ShiftRight
  <1> HIDE DEF e, r
  <1>5. Cardinality(e) = Cardinality(r)
    BY <1>1, <1>2, <1>3, <1>4, MovedSize, Zenon
  <1>6. QED
    BY <1>1, <1>5 DEF e

LEMMA PolynomialSize == Polynomial \in word /\ Cardinality(Polynomial) = 3
  <1>1. IsFiniteSet({0}) /\ Cardinality({0}) = 1
    BY FS_Singleton, Zenon
  <1>2. IsFiniteSet({0} \cup {13}) /\ Cardinality({0} \cup {13}) = 2
    BY <1>1, FS_AddElement
  <1>3. Cardinality(({0} \cup {13}) \cup {15}) = 3
    <2>1. 15 \notin {0} \cup {13}
      OBVIOUS
    <2>2. QED
      BY <1>2, <2>1, FS_AddElement
  <1>4. Polynomial = ({0} \cup {13}) \cup {15} /\ Polynomial \in word
    BY DEF Polynomial, word
  <1>5. QED
    BY <1>3, <1>4

(* A bit of the CRC keeps the parity: it removes the low bit and adds      *)
(* three, or none.                                                         *)
LEMMA BitStepParity == ASSUME NEW c \in word PROVE Parity(BitStep(c)) = Parity(c)
  <1>1. Cardinality(c) \in Nat /\ Cardinality(ShiftRight(c)) \in Nat
    BY ShiftWord, WordFinite
  <1>2. CASE 0 \in c
    <2>1. Parity(BitStep(c)) = (Cardinality(ShiftRight(c)) + 3) % 2
      <3>1. BitStep(c) = Xor(ShiftRight(c), Polynomial)
        BY <1>2 DEF BitStep
      <3>2. QED
        BY <3>1, ShiftWord, PolynomialSize, XorParity
    <2>2. Cardinality(ShiftRight(c)) = Cardinality(c) - 1
      BY <1>2, ShiftSize
    <2>3. ASSUME NEW m \in Nat, NEW n \in Nat, n = m - 1 PROVE (n + 3) % 2 = m % 2
      <3>1. n + 3 \in Nat /\ 1 \in Nat /\ m = (n + 3) - 2 * 1
        BY <2>3
      <3>2. QED
        BY <3>1, TwiceIsEven
    <2>4. QED
      BY <1>1, <2>1, <2>2, <2>3 DEF Parity
  <1>3. CASE 0 \notin c
    BY <1>3, ShiftSize DEF BitStep, Parity
  <1>4. QED
    BY <1>2, <1>3

(* The two bytes of the CRC hold the bits of the word.                     *)
LEMMA TailSize ==
    ASSUME NEW low \in byte, NEW high \in byte
    PROVE  Cardinality(low \cup {i \in 8 .. 15 : i - 8 \in high}) =
               Cardinality(low) + Cardinality(high)
  <1> DEFINE top == {i \in 8 .. 15 : i - 8 \in high}
  <1>1. IsFiniteSet(low) /\ IsFiniteSet(high)
    BY ByteIsWord, WordFinite
  <1>2. high \subseteq Int /\ top \subseteq Int /\ 8 \in Int
    BY DEF byte
  <1>3. ASSUME NEW i \in high PROVE i + 8 \in top
    BY DEF byte
  <1>4. ASSUME NEW j \in top PROVE j - 8 \in high
    OBVIOUS
  <1>5. low \cap top = {}
    BY DEF byte
  <1> HIDE DEF top
  <1>6. IsFiniteSet(top) /\ Cardinality(top) = Cardinality(high)
    BY <1>1, <1>2, <1>3, <1>4, MovedSize, Zenon
  <1>7. Cardinality(low \cup top) = Cardinality(low) + Cardinality(top)
    BY <1>1, <1>5, <1>6, DisjointUnion, Zenon
  <1>8. QED
    BY <1>6, <1>7 DEF top

LEMMA ParityKept == CrcInv /\ ParityInv /\ [Next]_vars => ParityInv'
  <1> SUFFICES ASSUME CrcInv, ParityInv, [Next]_vars PROVE ParityInv'
    OBVIOUS
  <1>1. /\ harm \in word /\ tail \in word /\ hits \in Nat /\ MaxHits - hits \in 0 .. MaxHits
        /\ MaxHits \in Nat
    BY CrcAssumption DEF CrcInv, TypeOK
  <1>2. Cardinality(harm) \in Nat /\ Cardinality(tail) \in Nat
    BY <1>1, WordFinite
  <1>3. ASSUME NEW b \in Bytes, NEW d \in Damage[MaxHits - hits], NextByte(b, d)
        PROVE  ParityInv'
    <2>1. harm' = Xor(harm, d) /\ hits' = hits + Cardinality(d) /\ tail' = tail
      BY <1>3, Zenon DEF NextByte
    <2>2. d \in word /\ Cardinality(d) \in Nat
      BY <1>1, DamageCounts, ByteIsWord
    <2>3. Cardinality(harm') % 2 = (Cardinality(harm) + Cardinality(d)) % 2
      BY <1>1, <2>1, <2>2, XorParity DEF Parity
    <2>4. Cardinality(harm') \in Nat
      BY <1>1, <2>1, <2>2, XorWord, WordFinite
    <2>5. ASSUME NEW x \in Nat, NEW y \in Nat, NEW z \in Nat, NEW t \in Nat, NEW h \in Nat,
                 x % 2 = (y + z) % 2, (y + t) % 2 = h % 2
          PROVE  (x + t) % 2 = (h + z) % 2
      BY <2>5
    <2>6. (Cardinality(harm') + Cardinality(tail)) % 2 = (hits + Cardinality(d)) % 2
      BY <1>1, <1>2, <2>2, <2>3, <2>4, <2>5 DEF ParityInv
    <2>7. QED
      BY <2>1, <2>6, Zenon DEF ParityInv
  <1>4. CASE NextBit
    <2>1. harm' = BitStep(harm) /\ hits' = hits /\ tail' = tail
      BY <1>4, Zenon DEF NextBit
    <2>2. Cardinality(harm') % 2 = Cardinality(harm) % 2
      BY <1>1, <2>1, BitStepParity DEF Parity
    <2>3. Cardinality(harm') \in Nat
      BY <2>1, BitStepWord, WordFinite
    <2>4. (Cardinality(harm') + Cardinality(tail)) % 2 = (Cardinality(harm) + Cardinality(tail)) % 2
      BY <1>2, <2>2, <2>3, SumParity
    <2>5. QED
      BY <2>1, <2>4, Zenon DEF ParityInv
  <1>5. ASSUME NEW low \in Damage[MaxHits - hits],
               NEW high \in Damage[MaxHits - hits - Cardinality(low)], Compare(low, high)
        PROVE  ParityInv'
    <2>1. /\ hits' = hits + Cardinality(low) + Cardinality(high) /\ harm' = harm
          /\ tail' = low \cup {i \in 8 .. 15 : i - 8 \in high}
      BY <1>5, Zenon DEF Compare
    <2>2. low \in byte /\ Cardinality(low) \in Nat /\ Cardinality(low) <= MaxHits - hits
      BY <1>1, DamageCounts
    <2>3. MaxHits - hits - Cardinality(low) \in 0 .. MaxHits
      BY <1>1, <2>2
    <2>4. high \in byte /\ Cardinality(high) \in Nat
      BY <2>3, DamageCounts
    <2>5. Cardinality(tail') = Cardinality(low) + Cardinality(high)
      BY <2>1, <2>2, <2>4, TailSize
    <2>6. Cardinality(harm) % 2 = hits % 2
      <3>1. Cardinality(tail) = 0
        <4>1. ~Compared
          BY <1>5 DEF Compare, Compared
        <4>2. QED
          BY <4>1, FS_EmptySet DEF CrcInv, NoTailYet
      <3>2. QED
        BY <1>2, <3>1 DEF ParityInv
    <2>7. (Cardinality(harm) + (Cardinality(low) + Cardinality(high))) % 2 =
              (hits + (Cardinality(low) + Cardinality(high))) % 2
      <3>1. Cardinality(low) + Cardinality(high) \in Nat
        BY <2>2, <2>4
      <3>2. QED
        BY <1>1, <1>2, <2>6, <3>1, SumParity
    <2>8. hits + (Cardinality(low) + Cardinality(high)) = hits + Cardinality(low) + Cardinality(high)
      BY <1>1, <2>2, <2>4
    <2>9. QED
      BY <2>1, <2>5, <2>7, <2>8, Zenon DEF ParityInv
  <1>6. CASE UNCHANGED vars
    <2>1. UNCHANGED <<harm, tail, hits>>
      BY <1>6, Zenon DEF vars
    <2>2. QED
      BY <2>1, Zenon DEF ParityInv
  <1>7. QED
    BY <1>3, <1>4, <1>5, <1>6, Zenon DEF Next

(* Every odd number of damaged bits, in frames of any length, is noticed.  *)
THEOREM OddDamageIsNoticed == Spec => []OddDamageDetected
  <1>1. Init => ParityInv
    <2>1. Cardinality({}) = 0
      BY FS_EmptySet
    <2>2. QED
      BY <2>1 DEF Init, ParityInv
  <1>2. CrcInv /\ ParityInv => OddDamageDetected
    <2> SUFFICES ASSUME CrcInv, ParityInv, Compared, harm = tail PROVE hits % 2 # 1
      BY DEF CrcInv, OddDamageDetected
    <2>1. Cardinality(harm) \in Nat /\ hits \in Nat
      BY WordFinite DEF CrcInv, TypeOK
    <2>2. ASSUME NEW n \in Nat PROVE (n + n) % 2 = 0
      OBVIOUS
    <2>3. hits % 2 = 0
      BY <2>1, <2>2 DEF ParityInv
    <2>4. QED
      BY <2>3
  <1>3. QED
    BY <1>1, <1>2, ParityKept, CrcInductive, PTL DEF Spec
-----------------------------------------------------------------------------
(* A burst is noticed.  As long as the first damaged bit f is still in the *)
(* register it is the lowest bit of the harm; once it has been shifted out *)
(* the harm has a bit among the 16 - (Done - f) highest, which the rest of *)
(* the burst does not reach.                                               *)
Front(f) ==
    IF Done <= f THEN f - Done \in harm /\ \A i \in harm : i >= f - Done
                 ELSE \E i \in harm : i >= 16 - (Done - f)

FirstOfBurst(f) == f \in damaged /\ \A p \in damaged : f <= p

BurstInv ==
    /\ ~Compared => /\ \A p \in damaged : p < 8 * (Size - ulLen)
                    /\ damaged = {} => harm = {}
                    /\ damaged # {} =>
                         \E f \in Nat : /\ FirstOfBurst(f)
                                        /\ (\A p \in damaged : p < f + 16) => Front(f)
    /\ Compared => (damaged # {} /\ (\A p, q \in damaged : p - q < 16) => harm # tail)

(* A byte that is damaged has a first damaged bit.                         *)
LEMMA LowestBit ==
    ASSUME NEW d \in byte, d # {} PROVE \E m \in d : \A i \in d : m <= i
  <1>1. d \subseteq 0 .. 7
    BY DEF byte
  <1>2. 0 \in d \/ 1 \in d \/ 2 \in d \/ 3 \in d \/ 4 \in d \/ 5 \in d \/ 6 \in d \/ 7 \in d
    <2>1. PICK k \in d : TRUE
      OBVIOUS
    <2>2. k = 0 \/ k = 1 \/ k = 2 \/ k = 3 \/ k = 4 \/ k = 5 \/ k = 6 \/ k = 7
      BY <1>1
    <2>3. QED
      BY <2>1, <2>2, Zenon
  <1>3. \A i \in d : i \in Int /\ 0 <= i /\ i <= 7
    BY <1>1
  <1>4. CASE 0 \in d
    BY <1>3, <1>4
  <1>5. CASE 0 \notin d /\ 1 \in d
    BY <1>3, <1>5
  <1>6. CASE 0 \notin d /\ 1 \notin d /\ 2 \in d
    BY <1>3, <1>6
  <1>7. CASE 0 \notin d /\ 1 \notin d /\ 2 \notin d /\ 3 \in d
    BY <1>3, <1>7
  <1>8. CASE 0 \notin d /\ 1 \notin d /\ 2 \notin d /\ 3 \notin d /\ 4 \in d
    BY <1>3, <1>8
  <1>9. CASE 0 \notin d /\ 1 \notin d /\ 2 \notin d /\ 3 \notin d /\ 4 \notin d /\ 5 \in d
    BY <1>3, <1>9
  <1>10. CASE /\ 0 \notin d /\ 1 \notin d /\ 2 \notin d /\ 3 \notin d /\ 4 \notin d /\ 5 \notin d
              /\ 6 \in d
    BY <1>3, <1>10
  <1>11. CASE /\ 0 \notin d /\ 1 \notin d /\ 2 \notin d /\ 3 \notin d /\ 4 \notin d /\ 5 \notin d
              /\ 6 \notin d /\ 7 \in d
    BY <1>3, <1>11
  <1>12. QED
    BY <1>2, <1>4, <1>5, <1>6, <1>7, <1>8, <1>9, <1>10, <1>11, Zenon

(* What a bit of the CRC does to the harm.                                 *)
LEMMA BitStepFront ==
    ASSUME NEW c \in word
    PROVE  /\ 0 \in c => 15 \in BitStep(c)
           /\ 0 \notin c => \A i \in Int : i \in BitStep(c) <=> i \in 0 .. 14 /\ i + 1 \in c
  BY DEF BitStep, ShiftRight, Polynomial, Xor, word

LEMMA FrontMoves ==
    ASSUME TypeOK, NextBit, NEW f \in Nat, Front(f) PROVE Front(f)'
  <1>1. Done \in Int /\ Done' = Done + 1 /\ harm' = BitStep(harm)
    BY CrcAssumption DEF TypeOK, NextBit, Done
  <1>2. harm \in word /\ harm \subseteq 0 .. 15
    BY DEF TypeOK, word
  <1>3. CASE Done < f
    <2>1. f - Done \in harm /\ \A i \in harm : i >= f - Done
      BY <1>1, <1>3 DEF Front
    <2>2. 0 \notin harm
      BY <1>1, <1>3, <2>1
    <2>3. \A i \in Int : i \in BitStep(harm) <=> i \in 0 .. 14 /\ i + 1 \in harm
      BY <1>2, <2>2, BitStepFront, Zenon
    <2>4. f - Done - 1 \in 0 .. 14 /\ (f - Done - 1) + 1 \in harm
      BY <1>1, <1>2, <1>3, <2>1
    <2>5. f - (Done + 1) \in BitStep(harm)
      BY <1>1, <2>3, <2>4
    <2>6. ASSUME NEW i \in BitStep(harm) PROVE i >= f - (Done + 1)
      <3>1. i \in 0 .. 14 /\ i + 1 \in harm
        BY <2>3, BitStepWord DEF word
      <3>2. QED
        BY <1>1, <2>1, <3>1
    <2>7. Done + 1 <= f
      BY <1>1, <1>3
    <2>8. QED
      BY <1>1, <2>5, <2>6, <2>7, Zenon DEF Front
  <1>4. CASE ~(Done < f)
    <2>1. ~(Done + 1 <= f)
      BY <1>1, <1>4
    <2>2. CASE 0 \in harm
      <3>1. 15 \in BitStep(harm) /\ 15 >= 16 - ((Done + 1) - f)
        BY <1>1, <1>2, <1>4, <2>2, BitStepFront
      <3>2. QED
        BY <1>1, <2>1, <3>1, Zenon DEF Front
    <2>3. CASE 0 \notin harm
      <3>1. ~(Done <= f)
        BY <1>1, <1>4, <2>3 DEF Front
      <3>2. PICK i \in harm : i >= 16 - (Done - f)
        BY <3>1 DEF Front
      <3>3. i - 1 \in 0 .. 14 /\ (i - 1) + 1 \in harm /\ i - 1 >= 16 - ((Done + 1) - f)
        BY <1>1, <1>2, <2>3, <3>2
      <3>4. i - 1 \in BitStep(harm)
        BY <1>2, <2>3, <3>3, BitStepFront
      <3>5. QED
        BY <1>1, <2>1, <3>3, <3>4, Zenon DEF Front
    <2>4. QED
      BY <2>2, <2>3
  <1>5. QED
    BY <1>3, <1>4

LEMMA BurstOfByte ==
    ASSUME CrcInv, BurstInv, NEW b \in Bytes, NEW d \in byte, NextByte(b, d) PROVE BurstInv'
  <1>1. /\ ucIndex = 8 /\ ulLen > 0 /\ ulLen' = ulLen - 1 /\ ucIndex' = 0 /\ harm' = Xor(harm, d)
        /\ damaged' = damaged \cup {Done + i : i \in d}
    BY Zenon DEF NextByte
  <1>2. /\ TypeOK /\ Size \in Nat /\ ulLen \in Nat /\ Done \in Nat /\ Done = 8 * (Size - ulLen)
        /\ d \subseteq 0 .. 7
    BY <1>1, DoneAtByte, CrcAssumption DEF CrcInv, TypeOK, byte
  <1>3. Done' = Done
    BY <1>1, <1>2 DEF Done
  <1>4. ~Compared /\ ~Compared'
    BY <1>1 DEF Compared
  <1>5. damaged \subseteq Nat
    <2>1. damaged \subseteq 0 .. 8 * Size + 15
      BY <1>2, Zenon DEF TypeOK
    <2>2. QED
      BY <2>1
  <1>6. \A p \in damaged : p < Done
    BY <1>2, <1>4, Zenon DEF BurstInv
  <1>7. ASSUME NEW p \in damaged' PROVE p < 8 * (Size - ulLen')
    <2>1. CASE p \in damaged
      BY <1>1, <1>2, <1>5, <1>6, <2>1
    <2>2. CASE p \notin damaged
      <3>1. PICK i \in d : p = Done + i
        BY <1>1, <2>2, Zenon
      <3>2. i \in 0 .. 7
        BY <1>2
      <3>3. QED
        BY <1>1, <1>2, <3>1, <3>2
    <2>3. QED
      BY <2>1, <2>2
  <1>8. damaged' = {} => harm' = {}
    <2>1. damaged' = {} => damaged = {} /\ d = {}
      BY <1>1, Zenon
    <2>2. QED
      BY <1>1, <1>4, <2>1, XorNothing, Zenon DEF BurstInv
  <1>9. ASSUME damaged' # {}
        PROVE  \E f \in Nat : /\ FirstOfBurst(f)'
                              /\ (\A p \in damaged' : p < f + 16) => Front(f)'
    <2>1. CASE damaged = {}
      <3>1. harm = {} /\ d # {}
        BY <1>1, <1>4, <1>9, <2>1, Zenon DEF BurstInv
      <3>2. harm' = d
        BY <1>1, <3>1 DEF Xor
      <3>3. PICK m \in d : \A i \in d : m <= i
        BY <3>1, LowestBit
      <3>4. m \in 0 .. 7
        BY <1>2
      <3>f. PICK f \in Nat : f = Done + m
        BY <1>2, <3>4
      <3>5. Done <= f /\ f - Done = m
        BY <1>2, <3>4, <3>f
      <3>6. FirstOfBurst(f)'
        <4>1. f \in damaged'
          BY <1>1, <3>3, <3>f, Zenon
        <4>2. ASSUME NEW p \in damaged' PROVE f <= p
          <5>1. PICK i \in d : p = Done + i
            BY <1>1, <2>1, Zenon
          <5>2. i \in 0 .. 7 /\ m <= i
            BY <1>2, <3>3
          <5>3. QED
            BY <1>2, <3>4, <3>f, <5>1, <5>2
        <4>3. QED
          BY <4>1, <4>2, Zenon DEF FirstOfBurst
      <3>7. Front(f)'
        <4>1. ASSUME NEW i \in d PROVE i >= m
          BY <1>2, <3>3
        <4>2. QED
          BY <1>3, <3>2, <3>5, <4>1, Zenon DEF Front
      <3>8. QED
        BY <3>5, <3>6, <3>7, Zenon
    <2>2. CASE damaged # {}
      <3>1. PICK f \in Nat : FirstOfBurst(f) /\ ((\A p \in damaged : p < f + 16) => Front(f))
        BY <1>4, <2>2, Zenon DEF BurstInv
      <3>2. f < Done
        BY <1>6, <3>1, Zenon DEF FirstOfBurst
      <3>3. FirstOfBurst(f)'
        <4>1. ASSUME NEW i \in d PROVE f <= Done + i
          <5>1. i \in 0 .. 7
            BY <1>2
          <5>2. QED
            BY <1>2, <3>2, <5>1
        <4>2. QED
          BY <1>1, <3>1, <4>1, Zenon DEF FirstOfBurst
      <3>4. ASSUME \A p \in damaged' : p < f + 16 PROVE Front(f)'
        <4>1. Front(f)
          <5>1. \A p \in damaged : p < f + 16
            BY <1>1, <3>4, Zenon
          <5>2. QED
            BY <3>1, <5>1
        <4>2. ~(Done <= f)
          BY <1>2, <3>1, <3>2
        <4>3. PICK i \in harm : i >= 16 - (Done - f)
          BY <4>1, <4>2 DEF Front
        <4>4. i \notin d
          <5>1. ASSUME NEW j \in d PROVE j < 16 - (Done - f)
            <6>1. Done + j < f + 16
              BY <1>1, <3>4, <5>1, Zenon
            <6>2. j \in 0 .. 7
              BY <1>2, <5>1
            <6>3. QED
              BY <1>2, <3>1, <6>1, <6>2
          <5>2. i \in Int
            BY <1>2 DEF TypeOK, word
          <5>3. QED
            BY <1>2, <3>1, <4>3, <5>1, <5>2
        <4>5. i \in harm'
          BY <1>1, <4>3, <4>4, Zenon DEF Xor
        <4>6. QED
          BY <1>3, <4>2, <4>3, <4>5, Zenon DEF Front
      <3>5. QED
        BY <3>1, <3>3, <3>4, Zenon
    <2>3. QED
      BY <2>1, <2>2
  <1>10. QED
    BY <1>4, <1>7, <1>8, <1>9, Zenon DEF BurstInv

LEMMA BurstOfBit == ASSUME CrcInv, BurstInv, NextBit PROVE BurstInv'
  <1>1. UNCHANGED <<ulLen, damaged>> /\ harm' = BitStep(harm) /\ ~Compared /\ ~Compared'
    BY DEF NextBit, Compared, CrcInv, TypeOK
  <1>2. BitStep({}) = {}
    BY DEF BitStep, ShiftRight
  <1>3. TypeOK
    BY DEF CrcInv
  <1>4. ASSUME damaged # {}
        PROVE  \E f \in Nat : /\ FirstOfBurst(f)'
                              /\ (\A p \in damaged' : p < f + 16) => Front(f)'
    <2>1. PICK f \in Nat : FirstOfBurst(f) /\ ((\A p \in damaged : p < f + 16) => Front(f))
      BY <1>1, <1>4, Zenon DEF BurstInv
    <2>2. FirstOfBurst(f)'
      BY <1>1, <2>1, Zenon DEF FirstOfBurst
    <2>3. (\A p \in damaged' : p < f + 16) => Front(f)'
      BY <1>1, <1>3, <2>1, FrontMoves
    <2>4. QED
      BY <2>2, <2>3, Zenon
  <1>5. QED
    BY <1>1, <1>2, <1>4, Zenon DEF BurstInv

(* At the comparison the CRC's own two bytes are the end of the burst.     *)
LEMMA BurstOfCompare ==
    ASSUME CrcInv, CrcInv', BurstInv, NEW low, NEW high, Compare(low, high) PROVE BurstInv'
  <1>1. /\ ucIndex = 8 /\ ucIndex' = 9 /\ harm' = harm
        /\ damaged' = damaged \cup {Done + i : i \in tail'}
    BY Zenon DEF Compare
  <1>2. /\ TypeOK /\ Done \in Nat /\ Done = 8 * (Size - ulLen) /\ harm \subseteq 0 .. 15
        /\ tail' \subseteq 0 .. 15
    BY <1>1, DoneAtByte DEF CrcInv, TypeOK, word
  <1>3. ~Compared /\ Compared'
    BY <1>1 DEF Compared
  <1>4. ASSUME damaged' # {}, \A p, q \in damaged' : p - q < 16, harm = tail' PROVE FALSE
    <2>1. damaged # {}
      BY <1>1, <1>3, <1>4, Zenon DEF BurstInv
    <2>2. PICK f \in Nat : FirstOfBurst(f) /\ ((\A p \in damaged : p < f + 16) => Front(f))
      BY <1>3, <2>1, Zenon DEF BurstInv
    <2>3. f \in damaged /\ f < Done
      BY <1>2, <1>3, <2>2, Zenon DEF BurstInv, FirstOfBurst
    <2>4. Front(f)
      <3>1. ASSUME NEW p \in damaged PROVE p < f + 16
        <4>1. p - f < 16
          BY <1>1, <1>4, <2>3, <3>1, Zenon
        <4>2. p \in Int
          <5>1. damaged \subseteq 0 .. 8 * Size + 15
            BY <1>2 DEF TypeOK
          <5>2. QED
            BY <3>1, <5>1
        <4>3. QED
          BY <2>2, <4>1, <4>2
      <3>2. QED
        BY <2>2, <3>1, Zenon
    <2>5. PICK i \in harm : i >= 16 - (Done - f)
      BY <1>2, <2>2, <2>3, <2>4 DEF Front
    <2>6. (Done + i) - f < 16
      BY <1>1, <1>4, <2>3, <2>5, Zenon
    <2>7. i \in 0 .. 15
      BY <1>2
    <2>8. QED
      BY <1>2, <2>2, <2>5, <2>6, <2>7
  <1>5. QED
    BY <1>1, <1>3, <1>4, Zenon DEF BurstInv

LEMMA BurstKept == CrcInv /\ CrcInv' /\ BurstInv /\ [Next]_vars => BurstInv'
  <1> SUFFICES ASSUME CrcInv, CrcInv', BurstInv, [Next]_vars PROVE BurstInv'
    OBVIOUS
  <1>1. MaxHits - hits \in 0 .. MaxHits
    BY CrcAssumption DEF CrcInv, TypeOK
  <1>2. ASSUME NEW b \in Bytes, NEW d \in Damage[MaxHits - hits], NextByte(b, d)
        PROVE  BurstInv'
    BY <1>1, <1>2, BurstOfByte, DamageCounts, Zenon
  <1>3. CASE UNCHANGED vars
    <2>1. UNCHANGED <<ulLen, ucIndex, damaged, harm, tail>>
      BY <1>3, Zenon DEF vars
    <2>2. Compared' = Compared /\ Done' = Done
      BY <2>1, Zenon DEF Compared, Done
    <2>3. QED
      BY <2>1, <2>2, Zenon DEF BurstInv, FirstOfBurst, Front
  <1>4. QED
    BY <1>2, <1>3, BurstOfBit, BurstOfCompare, Zenon DEF Next

(* A disturbance that is over within 16 bits is noticed, in frames of any  *)
(* length and content, whatever it does to these bits.                     *)
THEOREM BurstIsNoticed == Spec => []BurstDetected
  <1>1. Init => BurstInv
    BY DEF Init, BurstInv, Compared
  <1>2. CrcInv /\ BurstInv => BurstDetected
    BY Zenon DEF CrcInv, BurstInv, BurstDetected
  <1>3. QED
    BY <1>1, <1>2, BurstKept, CrcInductive, PTL DEF Spec
-----------------------------------------------------------------------------
(* Two damaged bits of a frame of the hub are noticed: from the first one  *)
(* on, the harm never is a single bit, which the second one could undo.    *)
Several(c) == \E i, j \in c : i # j

(* c is what k bits of the CRC make of a register with just the low bit.   *)
AfterBits(k, c) ==
    \E R \in [0 .. k -> word] :
        R[0] = {0} /\ R[k] = c /\ \A j \in 0 .. k - 1 : R[j + 1] = BitStep(R[j])

(* The registers after 0 to 64 bits, eight to a step.                      *)
LEMMA NeverOneBit ==
    ASSUME NEW k \in 1 .. 64, NEW R, R[0] = {0}, \A j \in 0 .. k - 1 : R[j + 1] = BitStep(R[j])
    PROVE  Several(R[k])
  <1> DEFINE S0 == {0}
             S1 == {0, 13, 15}
             S2 == {0, 12, 13, 14, 15}
             S3 == {0, 11, 12, 14, 15}
             S4 == {0, 10, 11, 14, 15}
             S5 == {0, 9, 10, 14, 15}
             S6 == {0, 8, 9, 14, 15}
             S7 == {0, 7, 8, 14, 15}
             S8 == {0, 6, 7, 14, 15}
             S9 == {0, 5, 6, 14, 15}
             S10 == {0, 4, 5, 14, 15}
             S11 == {0, 3, 4, 14, 15}
             S12 == {0, 2, 3, 14, 15}
             S13 == {0, 1, 2, 14, 15}
             S14 == {1, 14, 15}
             S15 == {0, 13, 14}
             S16 == {0, 12, 15}
             S17 == {0, 11, 13, 14, 15}
             S18 == {0, 10, 12, 14, 15}
             S19 == {0, 9, 11, 14, 15}
             S20 == {0, 8, 10, 14, 15}
             S21 == {0, 7, 9, 14, 15}
             S22 == {0, 6, 8, 14, 15}
             S23 == {0, 5, 7, 14, 15}
             S24 == {0, 4, 6, 14, 15}
             S25 == {0, 3, 5, 14, 15}
             S26 == {0, 2, 4, 14, 15}
             S27 == {0, 1, 3, 14, 15}
             S28 == {2, 14, 15}
             S29 == {1, 13, 14}
             S30 == {0, 12, 13}
             S31 == {0, 11, 12, 13, 15}
             S32 == {0, 10, 11, 12, 13, 14, 15}
             S33 == {0, 9, 10, 11, 12, 14, 15}
             S34 == {0, 8, 9, 10, 11, 14, 15}
             S35 == {0, 7, 8, 9, 10, 14, 15}
             S36 == {0, 6, 7, 8, 9, 14, 15}
             S37 == {0, 5, 6, 7, 8, 14, 15}
             S38 == {0, 4, 5, 6, 7, 14, 15}
             S39 == {0, 3, 4, 5, 6, 14, 15}
             S40 == {0, 2, 3, 4, 5, 14, 15}
             S41 == {0, 1, 2, 3, 4, 14, 15}
             S42 == {1, 2, 3, 14, 15}
             S43 == {0, 1, 2, 13, 14}
             S44 == {1, 12, 15}
             S45 == {0, 11, 14}
             S46 == {0, 10, 15}
             S47 == {0, 9, 13, 14, 15}
             S48 == {0, 8, 12, 14, 15}
             S49 == {0, 7, 11, 14, 15}
             S50 == {0, 6, 10, 14, 15}
             S51 == {0, 5, 9, 14, 15}
             S52 == {0, 4, 8, 14, 15}
             S53 == {0, 3, 7, 14, 15}
             S54 == {0, 2, 6, 14, 15}
             S55 == {0, 1, 5, 14, 15}
             S56 == {4, 14, 15}
             S57 == {3, 13, 14}
             S58 == {2, 12, 13}
             S59 == {1, 11, 12}
             S60 == {0, 10, 11}
             S61 == {0, 9, 10, 13, 15}
             S62 == {0, 8, 9, 12, 13, 14, 15}
             S63 == {0, 7, 8, 11, 12, 14, 15}
             S64 == {0, 6, 7, 10, 11, 14, 15}
  <1>1. /\ BitStep(S0) = S1 /\ Several(S1)
        /\ BitStep(S1) = S2 /\ Several(S2)
        /\ BitStep(S2) = S3 /\ Several(S3)
        /\ BitStep(S3) = S4 /\ Several(S4)
        /\ BitStep(S4) = S5 /\ Several(S5)
        /\ BitStep(S5) = S6 /\ Several(S6)
        /\ BitStep(S6) = S7 /\ Several(S7)
        /\ BitStep(S7) = S8 /\ Several(S8)
    BY DEF BitStep, ShiftRight, Polynomial, Xor, Several
  <1>2. /\ BitStep(S8) = S9 /\ Several(S9)
        /\ BitStep(S9) = S10 /\ Several(S10)
        /\ BitStep(S10) = S11 /\ Several(S11)
        /\ BitStep(S11) = S12 /\ Several(S12)
        /\ BitStep(S12) = S13 /\ Several(S13)
        /\ BitStep(S13) = S14 /\ Several(S14)
        /\ BitStep(S14) = S15 /\ Several(S15)
        /\ BitStep(S15) = S16 /\ Several(S16)
    BY DEF BitStep, ShiftRight, Polynomial, Xor, Several
  <1>3. /\ BitStep(S16) = S17 /\ Several(S17)
        /\ BitStep(S17) = S18 /\ Several(S18)
        /\ BitStep(S18) = S19 /\ Several(S19)
        /\ BitStep(S19) = S20 /\ Several(S20)
        /\ BitStep(S20) = S21 /\ Several(S21)
        /\ BitStep(S21) = S22 /\ Several(S22)
        /\ BitStep(S22) = S23 /\ Several(S23)
        /\ BitStep(S23) = S24 /\ Several(S24)
    BY DEF BitStep, ShiftRight, Polynomial, Xor, Several
  <1>4. /\ BitStep(S24) = S25 /\ Several(S25)
        /\ BitStep(S25) = S26 /\ Several(S26)
        /\ BitStep(S26) = S27 /\ Several(S27)
        /\ BitStep(S27) = S28 /\ Several(S28)
        /\ BitStep(S28) = S29 /\ Several(S29)
        /\ BitStep(S29) = S30 /\ Several(S30)
        /\ BitStep(S30) = S31 /\ Several(S31)
        /\ BitStep(S31) = S32 /\ Several(S32)
    BY DEF BitStep, ShiftRight, Polynomial, Xor, Several
  <1>5. /\ BitStep(S32) = S33 /\ Several(S33)
        /\ BitStep(S33) = S34 /\ Several(S34)
        /\ BitStep(S34) = S35 /\ Several(S35)
        /\ BitStep(S35) = S36 /\ Several(S36)
        /\ BitStep(S36) = S37 /\ Several(S37)
        /\ BitStep(S37) = S38 /\ Several(S38)
        /\ BitStep(S38) = S39 /\ Several(S39)
        /\ BitStep(S39) = S40 /\ Several(S40)
    BY DEF BitStep, ShiftRight, Polynomial, Xor, Several
  <1>6. /\ BitStep(S40) = S41 /\ Several(S41)
        /\ BitStep(S41) = S42 /\ Several(S42)
        /\ BitStep(S42) = S43 /\ Several(S43)
        /\ BitStep(S43) = S44 /\ Several(S44)
        /\ BitStep(S44) = S45 /\ Several(S45)
        /\ BitStep(S45) = S46 /\ Several(S46)
        /\ BitStep(S46) = S47 /\ Several(S47)
        /\ BitStep(S47) = S48 /\ Several(S48)
    BY DEF BitStep, ShiftRight, Polynomial, Xor, Several
  <1>7. /\ BitStep(S48) = S49 /\ Several(S49)
        /\ BitStep(S49) = S50 /\ Several(S50)
        /\ BitStep(S50) = S51 /\ Several(S51)
        /\ BitStep(S51) = S52 /\ Several(S52)
        /\ BitStep(S52) = S53 /\ Several(S53)
        /\ BitStep(S53) = S54 /\ Several(S54)
        /\ BitStep(S54) = S55 /\ Several(S55)
        /\ BitStep(S55) = S56 /\ Several(S56)
    BY DEF BitStep, ShiftRight, Polynomial, Xor, Several
  <1>8. /\ BitStep(S56) = S57 /\ Several(S57)
        /\ BitStep(S57) = S58 /\ Several(S58)
        /\ BitStep(S58) = S59 /\ Several(S59)
        /\ BitStep(S59) = S60 /\ Several(S60)
        /\ BitStep(S60) = S61 /\ Several(S61)
        /\ BitStep(S61) = S62 /\ Several(S62)
        /\ BitStep(S62) = S63 /\ Several(S63)
        /\ BitStep(S63) = S64 /\ Several(S64)
    BY DEF BitStep, ShiftRight, Polynomial, Xor, Several
  <1>9. /\ R[0] = S0
        /\ \A j \in 0 .. k - 1 : R[j + 1] = BitStep(R[j])
    OBVIOUS
  <1> HIDE DEF S0, S1, S2, S3, S4, S5, S6, S7, S8, S9, S10, S11, S12, S13,
               S14, S15, S16, S17, S18, S19, S20, S21, S22, S23, S24, S25,
               S26, S27, S28, S29, S30, S31, S32, S33, S34, S35, S36, S37,
               S38, S39, S40, S41, S42, S43, S44, S45, S46, S47, S48, S49,
               S50, S51, S52, S53, S54, S55, S56, S57, S58, S59, S60, S61,
               S62, S63, S64
  <1>10. Several(R[k]) \/ (k > 8 /\ R[8] = S8)
    BY <1>9, <1>1
  <1>11. Several(R[k]) \/ (k > 16 /\ R[16] = S16)
    BY <1>9, <1>2, <1>10
  <1>12. Several(R[k]) \/ (k > 24 /\ R[24] = S24)
    BY <1>9, <1>3, <1>11
  <1>13. Several(R[k]) \/ (k > 32 /\ R[32] = S32)
    BY <1>9, <1>4, <1>12
  <1>14. Several(R[k]) \/ (k > 40 /\ R[40] = S40)
    BY <1>9, <1>5, <1>13
  <1>15. Several(R[k]) \/ (k > 48 /\ R[48] = S48)
    BY <1>9, <1>6, <1>14
  <1>16. Several(R[k]) \/ (k > 56 /\ R[56] = S56)
    BY <1>9, <1>7, <1>15
  <1>17. Several(R[k]) \/ (k > 64 /\ R[64] = S64)
    BY <1>9, <1>8, <1>16
  <1>18. QED
    BY <1>17

LEMMA OneMoreBit ==
    ASSUME NEW k \in Nat, NEW c \in word, AfterBits(k, c) PROVE AfterBits(k + 1, BitStep(c))
  <1>1. PICK R \in [0 .. k -> word] :
            R[0] = {0} /\ R[k] = c /\ \A j \in 0 .. k - 1 : R[j + 1] = BitStep(R[j])
    BY DEF AfterBits
  <1> DEFINE T == [j \in 0 .. k + 1 |-> IF j = k + 1 THEN BitStep(c) ELSE R[j]]
  <1>2. T \in [0 .. k + 1 -> word]
    <2>1. ASSUME NEW j \in 0 .. k + 1, j # k + 1 PROVE R[j] \in word
      BY <1>1, <2>1
    <2>2. QED
      BY <2>1, BitStepWord
  <1>3. T[0] = {0} /\ T[k + 1] = BitStep(c)
    BY <1>1
  <1>4. ASSUME NEW j \in 0 .. (k + 1) - 1 PROVE T[j + 1] = BitStep(T[j])
    <2>1. CASE j = k
      BY <1>1, <2>1
    <2>2. CASE j # k
      <3>1. j \in 0 .. k - 1
        BY <2>2
      <3>2. T[j + 1] = R[j + 1] /\ T[j] = R[j]
        BY <2>2
      <3>3. QED
        BY <1>1, <3>1, <3>2
    <2>3. QED
      BY <2>1, <2>2
  <1> HIDE DEF T
  <1>5. QED
    BY <1>2, <1>3, <1>4, Zenon DEF AfterBits

LEMMA NoBitYet == AfterBits(0, {0})
  <1> DEFINE T == [j \in 0 .. 0 |-> {0}]
  <1>1. {0} \in word
    BY DEF word
  <1>2. T \in [0 .. 0 -> word] /\ T[0] = {0} /\ \A j \in 0 .. 0 - 1 : T[j + 1] = BitStep(T[j])
    BY <1>1
  <1> HIDE DEF T
  <1>3. QED
    BY <1>2, Zenon DEF AfterBits

LEMMA AfterBitsSeveral ==
    ASSUME NEW k \in 1 .. 64, NEW c, AfterBits(k, c) PROVE Several(c)
  <1>1. PICK R \in [0 .. k -> word] :
            R[0] = {0} /\ R[k] = c /\ \A j \in 0 .. k - 1 : R[j + 1] = BitStep(R[j])
    BY DEF AfterBits
  <1>2. Several(R[k])
    BY <1>1, NeverOneBit
  <1>3. QED
    BY <1>1, <1>2

(* Nothing but an empty register becomes empty.                            *)
LEMMA BitStepNotEmpty == ASSUME NEW c \in word, c # {} PROVE BitStep(c) # {}
  <1>1. CASE 0 \in c
    BY <1>1, BitStepFront
  <1>2. CASE 0 \notin c
    <2>1. PICK i \in c : TRUE
      OBVIOUS
    <2>2. i - 1 \in 0 .. 14 /\ (i - 1) + 1 \in c
      BY <1>2 DEF word
    <2>3. i - 1 \in BitStep(c)
      BY <1>2, <2>2, BitStepFront
    <2>4. QED
      BY <2>3
  <1>3. QED
    BY <1>1, <1>2

(* The harm of a single damaged bit p.                                     *)
OneBit(p) == IF Done <= p THEN harm = {p - Done} ELSE AfterBits(Done - p, harm)

PairInv ==
    /\ ~Compared => /\ hits = 1 => \E p \in Nat : p < 8 * (Size - ulLen) /\ OneBit(p)
                    /\ hits = 2 => harm # {}
    /\ Compared => (hits = 2 => harm # tail)

(* Between two bytes a single damaged bit has become several.              *)
LEMMA OneBitSpreads ==
    ASSUME Size <= 8, TypeOK, ucIndex = 8, NEW p \in Nat, p < 8 * (Size - ulLen), OneBit(p)
    PROVE  Several(harm)
  <1>1. Done \in Nat /\ Done = 8 * (Size - ulLen) /\ Done <= 8 * Size
    BY DoneAtByte
  <1>2. ~(Done <= p) /\ Done - p \in 1 .. 64
    BY <1>1, CrcAssumption
  <1>3. QED
    BY <1>2, AfterBitsSeveral DEF OneBit

LEMMA OneBitMoves ==
    ASSUME TypeOK, NextBit, NEW p \in Nat, OneBit(p) PROVE OneBit(p)'
  <1>1. Done \in Int /\ Done' = Done + 1 /\ harm' = BitStep(harm) /\ harm \in word
    BY CrcAssumption DEF TypeOK, NextBit, Done
  <1>2. CASE Done < p
    <2>1. harm = {p - Done} /\ p - Done \in 1 .. 15
      BY <1>1, <1>2 DEF OneBit, word
    <2>2. BitStep({p - Done}) = {p - (Done + 1)}
      <3>1. ASSUME NEW i \in 1 .. 15 PROVE BitStep({i}) = {i - 1}
        BY DEF BitStep, ShiftRight
      <3>2. BitStep({p - Done}) = {(p - Done) - 1}
        BY <2>1, <3>1
      <3>3. (p - Done) - 1 = p - (Done + 1)
        BY <1>1
      <3>4. QED
        BY <3>2, <3>3
    <2>3. Done + 1 <= p
      BY <1>1, <1>2
    <2>4. QED
      BY <1>1, <2>1, <2>2, <2>3, Zenon DEF OneBit
  <1>3. CASE ~(Done < p)
    <2>1. Done - p \in Nat /\ ~(Done + 1 <= p) /\ (Done - p) + 1 = (Done + 1) - p
      BY <1>1, <1>3
    <2>2. AfterBits(Done - p, harm)
      <3>1. CASE Done = p
        BY <1>1, <3>1, NoBitYet DEF OneBit
      <3>2. CASE Done # p
        BY <1>1, <1>3, <3>2 DEF OneBit
      <3>3. QED
        BY <3>1, <3>2
    <2>3. AfterBits((Done - p) + 1, BitStep(harm))
      BY <1>1, <2>1, <2>2, OneMoreBit
    <2>4. AfterBits((Done + 1) - p, BitStep(harm))
      BY <2>1, <2>3
    <2>5. QED
      BY <1>1, <2>1, <2>4, Zenon DEF OneBit
  <1>4. QED
    BY <1>2, <1>3

LEMMA PairOfByte ==
    ASSUME Size <= 8, CrcInv, PairInv, NEW b \in Bytes, NEW d \in Damage[MaxHits - hits],
           NextByte(b, d)
    PROVE  PairInv'
  <1>1. /\ ucIndex = 8 /\ ulLen > 0 /\ ulLen' = ulLen - 1 /\ ucIndex' = 0 /\ harm' = Xor(harm, d)
        /\ hits' = hits + Cardinality(d)
    BY Zenon DEF NextByte
  <1>2. /\ TypeOK /\ Size \in Nat /\ ulLen \in Nat /\ Done \in Nat /\ Done = 8 * (Size - ulLen)
        /\ hits \in Nat
    BY <1>1, DoneAtByte, CrcAssumption DEF CrcInv, TypeOK
  <1>3. Done' = Done /\ Done + 8 = 8 * (Size - ulLen')
    BY <1>1, <1>2 DEF Done
  <1>4. ~Compared /\ ~Compared'
    BY <1>1 DEF Compared
  <1>5. /\ Cardinality(d) \in Nat /\ (Cardinality(d) = 0 => d = {}) /\ d \subseteq 0 .. 7
        /\ IsFiniteSet(d)
    <2>1. MaxHits - hits \in 0 .. MaxHits
      BY CrcAssumption DEF CrcInv, TypeOK
    <2>2. d \in byte /\ Cardinality(d) \in Nat /\ (Cardinality(d) = 0 => d = {})
      BY <2>1, DamageCounts
    <2>3. QED
      BY <2>2, ByteIsWord, WordFinite DEF byte
  <1>6. hits = 0 => harm = {}
    BY DEF CrcInv, Harmless
  <1>7. Cardinality(d) = 0 => harm' = harm
    BY <1>1, <1>5, XorNothing
  <1>8. hits = 0 => harm' = d
    BY <1>1, <1>6 DEF Xor
  <1>9. Cardinality({}) = 0
    BY FS_EmptySet
  <1>10. ASSUME hits' = 1 PROVE \E p \in Nat : p < 8 * (Size - ulLen') /\ OneBit(p)'
    <2>1. CASE hits = 0
      <3>1. Cardinality(d) = 1
        BY <1>1, <1>5, <1>10, <2>1
      <3>2. PICK m : d = {m}
        BY <1>5, <3>1, FS_Singleton, Zenon
      <3>3. m \in 0 .. 7
        BY <1>5, <3>2
      <3>4. PICK p \in Nat : p = Done + m
        BY <1>2, <3>3
      <3>5. Done <= p /\ p - Done = m /\ p < 8 * (Size - ulLen')
        BY <1>2, <1>3, <3>3, <3>4
      <3>6. OneBit(p)'
        BY <1>3, <1>8, <2>1, <3>2, <3>5, Zenon DEF OneBit
      <3>7. QED
        BY <3>5, <3>6, Zenon
    <2>2. CASE hits # 0
      <3>1. hits = 1 /\ Cardinality(d) = 0
        BY <1>1, <1>2, <1>5, <1>10, <2>2
      <3>2. PICK p \in Nat : p < 8 * (Size - ulLen) /\ OneBit(p)
        BY <1>4, <3>1, Zenon DEF PairInv
      <3>3. p < 8 * (Size - ulLen')
        BY <1>2, <1>3, <3>2
      <3>4. OneBit(p)'
        BY <1>3, <1>7, <3>1, <3>2, Zenon DEF OneBit
      <3>5. QED
        BY <3>3, <3>4, Zenon
    <2>3. QED
      BY <2>1, <2>2
  <1>11. ASSUME hits' = 2 PROVE harm' # {}
    <2>1. CASE hits = 0
      <3>1. Cardinality(d) = 2
        BY <1>1, <1>5, <1>11, <2>1
      <3>2. QED
        BY <1>8, <1>9, <2>1, <3>1
    <2>2. CASE hits = 1
      <3>1. Cardinality(d) = 1
        BY <1>1, <1>5, <1>11, <2>2
      <3>2. PICK m : d = {m}
        BY <1>5, <3>1, FS_Singleton, Zenon
      <3>3. PICK p \in Nat : p < 8 * (Size - ulLen) /\ OneBit(p)
        BY <1>4, <2>2, Zenon DEF PairInv
      <3>4. Several(harm)
        BY <1>1, <1>2, <3>3, OneBitSpreads
      <3>5. PICK i \in harm : i # m
        BY <3>4, Zenon DEF Several
      <3>6. i \in Xor(harm, d)
        BY <3>2, <3>5 DEF Xor
      <3>7. QED
        BY <1>1, <3>6, Zenon
    <2>3. CASE hits # 0 /\ hits # 1
      <3>1. hits = 2 /\ Cardinality(d) = 0
        BY <1>1, <1>2, <1>5, <1>11, <2>3
      <3>2. QED
        BY <1>4, <1>7, <3>1, Zenon DEF PairInv
    <2>4. QED
      BY <2>1, <2>2, <2>3
  <1>12. QED
    BY <1>4, <1>10, <1>11, Zenon DEF PairInv

LEMMA PairOfBit == ASSUME CrcInv, PairInv, NextBit PROVE PairInv'
  <1>1. UNCHANGED <<ulLen, hits>> /\ harm' = BitStep(harm) /\ ~Compared /\ ~Compared'
    BY DEF NextBit, Compared, CrcInv, TypeOK
  <1>2. TypeOK /\ harm \in word
    BY DEF CrcInv, TypeOK
  <1>3. hits = 1 => \E p \in Nat : p < 8 * (Size - ulLen) /\ OneBit(p)'
    BY <1>1, <1>2, OneBitMoves, Zenon DEF PairInv
  <1>4. hits = 2 => harm' # {}
    BY <1>1, <1>2, BitStepNotEmpty, Zenon DEF PairInv
  <1>5. QED
    BY <1>1, <1>3, <1>4, Zenon DEF PairInv

LEMMA PairOfCompare ==
    ASSUME Size <= 8, CrcInv, PairInv, NEW low \in Damage[MaxHits - hits],
           NEW high \in Damage[MaxHits - hits - Cardinality(low)], Compare(low, high)
    PROVE  PairInv'
  <1>1. /\ ucIndex = 8 /\ ucIndex' = 9 /\ harm' = harm
        /\ hits' = hits + Cardinality(low) + Cardinality(high)
        /\ tail' = low \cup {i \in 8 .. 15 : i - 8 \in high}
    BY Zenon DEF Compare
  <1>2. TypeOK /\ hits \in Nat /\ MaxHits - hits \in 0 .. MaxHits /\ MaxHits \in Nat
    BY CrcAssumption DEF CrcInv, TypeOK
  <1>3. ~Compared /\ Compared'
    BY <1>1 DEF Compared
  <1>4. low \in byte /\ Cardinality(low) \in Nat /\ Cardinality(low) <= MaxHits - hits
    BY <1>2, DamageCounts
  <1>5. MaxHits - hits - Cardinality(low) \in 0 .. MaxHits
    BY <1>2, <1>4
  <1>6. high \in byte /\ Cardinality(high) \in Nat
    BY <1>5, DamageCounts
  <1>7. Cardinality(tail') = Cardinality(low) + Cardinality(high)
    BY <1>1, <1>4, <1>6, TailSize
  <1>8. Cardinality(tail') \in Nat /\ hits' = hits + Cardinality(tail')
    BY <1>1, <1>2, <1>4, <1>6, <1>7
  <1>9. IsFiniteSet(tail') /\ Cardinality({}) = 0
    <2>1. tail' \in word
      <3>1. low \in word
        BY <1>4, ByteIsWord
      <3>2. 8 .. 15 \subseteq 0 .. 15
        OBVIOUS
      <3>3. QED
        BY <1>1, <3>1, <3>2, Zenon DEF word
    <2>2. QED
      BY <2>1, WordFinite, FS_EmptySet
  <1>10. ASSUME hits' = 2, harm = tail' PROVE FALSE
    <2>1. CASE hits = 0
      <3>1. Cardinality(tail') = 2 /\ harm = {}
        BY <1>8, <1>10, <2>1 DEF CrcInv, Harmless
      <3>2. QED
        BY <1>9, <1>10, <3>1
    <2>2. CASE hits = 1
      <3>1. Cardinality(tail') = 1
        BY <1>8, <1>10, <2>2
      <3>2. PICK m : tail' = {m}
        BY <1>9, <3>1, FS_Singleton, Zenon
      <3>3. PICK p \in Nat : p < 8 * (Size - ulLen) /\ OneBit(p)
        BY <1>3, <2>2, Zenon DEF PairInv
      <3>4. Several(harm)
        BY <1>1, <1>2, <3>3, OneBitSpreads
      <3>5. QED
        BY <1>10, <3>2, <3>4, Zenon DEF Several
    <2>3. CASE hits # 0 /\ hits # 1
      <3>1. hits = 2 /\ Cardinality(tail') = 0
        BY <1>2, <1>8, <1>10, <2>3
      <3>2. tail' = {}
        BY <1>9, <3>1, FS_EmptySet
      <3>3. QED
        BY <1>3, <1>10, <3>1, <3>2, Zenon DEF PairInv
    <2>4. QED
      BY <2>1, <2>2, <2>3
  <1>11. QED
    BY <1>1, <1>3, <1>10, Zenon DEF PairInv

LEMMA PairKept == ASSUME Size <= 8 PROVE CrcInv /\ PairInv /\ [Next]_vars => PairInv'
  <1> SUFFICES ASSUME CrcInv, PairInv, [Next]_vars PROVE PairInv'
    OBVIOUS
  <1>1. CASE UNCHANGED vars
    <2>1. UNCHANGED <<ulLen, ucIndex, hits, harm, tail>>
      BY <1>1, Zenon DEF vars
    <2>2. Compared' = Compared /\ Done' = Done
      BY <2>1, Zenon DEF Compared, Done
    <2>3. QED
      BY <2>1, <2>2, Zenon DEF PairInv, OneBit
  <1>2. QED
    BY <1>1, PairOfByte, PairOfBit, PairOfCompare, Zenon DEF Next

(* Up to three damaged bits are noticed in every frame of up to ten bytes, *)
(* the longest the hub sends, whatever it holds.                           *)
THEOREM UpToThreeNoticed == ASSUME Size <= 8 PROVE Spec => []DamageDetected
  <1>1. Init => PairInv /\ ParityInv
    <2>1. Cardinality({}) = 0
      BY FS_EmptySet
    <2>2. QED
      BY <2>1 DEF Init, PairInv, Compared, ParityInv
  <1>2. CrcInv /\ PairInv /\ OddDamageDetected => DamageDetected
    <2> SUFFICES ASSUME CrcInv, PairInv, OddDamageDetected, Compared, hits \in 1 .. 3
                 PROVE  ~messageFlag
      BY DEF DamageDetected
    <2>1. CASE hits = 2
      BY <2>1, Zenon DEF CrcInv, PairInv
    <2>2. CASE hits # 2
      <3>1. hits = 1 \/ hits = 3
        BY <2>2
      <3>2. 1 % 2 = 1 /\ 3 % 2 = 1
        OBVIOUS
      <3>3. QED
        BY <3>1, <3>2 DEF OddDamageDetected
    <2>3. QED
      BY <2>1, <2>2
  <1>3. QED
    BY <1>1, <1>2, PairKept, OddDamageIsNoticed, CrcInductive, PTL DEF Spec
=============================================================================
