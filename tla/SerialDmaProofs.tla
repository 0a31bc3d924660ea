--------------------------- MODULE SerialDmaProofs ---------------------------
(***************************************************************************)
(* Proofs about the receive ring, for every size of the buffer and every   *)
(* timing of line and handler, as long as fewer bytes than the buffer      *)
(* holds are waiting to be read.                                           *)
(***************************************************************************)
EXTENDS SerialDma, TLAPS

(* Positions round the ring, without division.                             *)
Wrap(n)    == IF n >= bufsz THEN n - bufsz ELSE n
Dist(g, p) == IF p >= g THEN p - g ELSE bufsz - (g - p)

Waiting == arrived - taken

(* The ring: the controller is Waiting bytes ahead of get_index, and the   *)
(* bytes between are those that follow the ones read.                      *)
RingInv ==
    /\ taken <= arrived /\ Waiting <= Burst
    /\ recv_total_index = Wrap(get_index + Waiting)
    /\ \A j \in 0 .. Waiting - 1 : buffer[Wrap(get_index + j)] = taken + j + 1

(* The handler: how far it has got with the bytes up to last_index.        *)
HandlerInv ==
    /\ is_full = FALSE
    /\ pc \in {"none", "clear"} => put_index = get_index /\ last_index = get_index
    /\ pc = "indicate" =>
          /\ put_index = get_index /\ last_index # get_index
          /\ recv_len = (last_index - put_index) % TwoTo24
          /\ Dist(get_index, last_index) <= Waiting
    /\ pc = "read" =>
          /\ put_index = last_index /\ last_index # get_index
          /\ length = Dist(get_index, last_index)
          /\ length <= Waiting

(* The ends of frames: one that was not missed is among the bytes read, or *)
(* those being read, or the flag is still up for it.                       *)
EndInv ==
    /\ ended <= arrived
    /\ ~busy => ended = arrived
    /\ ~late /\ ~IDLE /\ pc = "none" => ended <= taken
    /\ ~late /\ pc \in {"indicate", "read"} => ended <= taken + Dist(get_index, last_index)
    /\ ~late /\ pc = "clear" => ended <= taken

SerialInv == TypeOK /\ RingInv /\ HandlerInv /\ EndInv /\ InOrder

-----------------------------------------------------------------------------
(* Arithmetic.                                                             *)

LEMMA WrapSum ==
    ASSUME NEW a \in Nat, NEW b \in Nat, a < bufsz, b < bufsz
    PROVE  (IF a + b >= bufsz THEN (a + b) % bufsz ELSE a + b) = Wrap(a + b)
  BY SerialAssumption DEF Wrap

(* The length, cut to 24 bits and added in 16, leads to last_index.        *)
LEMMA Truncated ==
    ASSUME NEW a \in Nat, NEW b \in Nat, 2 * a < TwoTo16, 2 * b < TwoTo16
    PROVE  /\ (b - a) % TwoTo24 \in Nat /\ (b - a) % TwoTo24 < TwoTo24
           /\ (a + ((b - a) % TwoTo24)) % TwoTo16 = b
           /\ (b - a) % TwoTo24 = 0 => a = b
  <1>1. CASE b >= a
    BY <1>1, SMT DEF TwoTo16, TwoTo24
  <1>2. CASE b < a
    <2>1. (b - a) % TwoTo24 = TwoTo24 + b - a
      BY <1>2, SMT DEF TwoTo16, TwoTo24
    <2>2. QED
      BY <1>2, <2>1, SMT DEF TwoTo16, TwoTo24
  <1>3. QED
    BY <1>1, <1>2, SMT

LEMMA Ring ==
    ASSUME NEW g \in Index, NEW n \in 0 .. bufsz - 1
    PROVE  Wrap(g + n) \in Index /\ Dist(g, Wrap(g + n)) = n
  BY SerialAssumption DEF Index, Wrap, Dist

LEMMA SerialInit == Init => SerialInv
  <1> SUFFICES ASSUME Init PROVE SerialInv
    OBVIOUS
  <1>1. 0 \in Index /\ bufsz \in 1 .. bufsz /\ Burst \in Nat /\ bufsz \in Nat
    BY SerialAssumption DEF Index
  <1>0. 0 < TwoTo24
    BY SMT DEF TwoTo24, TwoTo16
  <1>2. TypeOK
    <2>1. /\ counter = bufsz /\ last_index = 0 /\ put_index = 0 /\ get_index = 0
          /\ recv_len = 0 /\ length = 0 /\ arrived = 0 /\ ended = 0 /\ taken = 0
          /\ buffer = [i \in Index |-> 0] /\ data = [i \in Index |-> 0]
      BY Zenon DEF Init
    <2>2. /\ pc = "none" /\ IDLE = FALSE /\ is_full = FALSE /\ busy = FALSE /\ late = FALSE
      BY Zenon DEF Init
    <2>3. buffer \in [Index -> Nat] /\ data \in [Index -> Nat] /\ 0 \in 0 .. bufsz /\ 0 \in Nat
      BY <1>1, <2>1
    <2>4. QED
      BY <1>0, <1>1, <2>1, <2>2, <2>3, Zenon DEF TypeOK
  <1>3. RingInv
    BY <1>1 DEF Init, RingInv, Waiting, recv_total_index, Wrap
  <1>4. QED
    BY <1>1, <1>2, <1>3 DEF Init, SerialInv, HandlerInv, EndInv, InOrder

-----------------------------------------------------------------------------
(* What an action needs to know of the numbers.                            *)
LEMMA Numbers ==
    ASSUME TypeOK
    PROVE  /\ bufsz \in Nat /\ bufsz > 0 /\ Burst \in Nat /\ Burst < bufsz
           /\ counter \in Nat /\ counter > 0 /\ counter <= bufsz
           /\ get_index \in Nat /\ get_index < bufsz
           /\ put_index \in Nat /\ put_index < bufsz
           /\ last_index \in Nat /\ last_index < bufsz
           /\ length \in Nat /\ arrived \in Nat /\ taken \in Nat /\ ended \in Nat
  BY SerialAssumption DEF TypeOK, Index

LEMMA ByteStep == ASSUME SerialInv, Byte PROVE SerialInv'
  <1>0. TypeOK /\ RingInv /\ HandlerInv /\ EndInv /\ InOrder
    BY DEF SerialInv
  <1>1. /\ arrived - taken < Burst /\ arrived' = arrived + 1
        /\ buffer' = [buffer EXCEPT ![bufsz - counter] = arrived + 1]
        /\ counter' = IF counter = 1 THEN bufsz ELSE counter - 1
        /\ busy' = TRUE
    BY DEF Byte
  <1>2. UNCHANGED <<IDLE, ended, late, put_index, get_index, is_full, last_index, pc, recv_len,
                    length, data, taken>>
    BY DEF Byte, fifo, handler
  <1> USE Numbers
  <1>3. TypeOK'
    <2>1. arrived' \in Nat /\ counter' \in 1 .. bufsz
      BY <1>0, <1>1
    <2>2. buffer' \in [Index -> Nat]
      BY <1>0, <1>1, <2>1 DEF TypeOK
    <2>3. QED
      BY <1>0, <1>1, <1>2, <2>1, <2>2, Zenon DEF TypeOK
  <1>4. RingInv'
    <2>1. Waiting' = Waiting + 1 /\ Waiting \in Nat /\ Waiting < Burst
      BY <1>0, <1>1, <1>2 DEF Waiting, RingInv
    <2>2. bufsz - counter = Wrap(get_index + Waiting) /\ bufsz - counter \in Index
      BY <1>0 DEF RingInv, recv_total_index, Index
    <2>3. recv_total_index' = Wrap(get_index' + Waiting')
      BY <1>0, <1>1, <1>2, <2>1, <2>2 DEF recv_total_index, Wrap
    <2>4. ASSUME NEW j \in 0 .. Waiting' - 1
          PROVE  buffer'[Wrap(get_index' + j)] = taken' + j + 1
      <3>1. CASE j = Waiting
        BY <1>0, <1>1, <1>2, <2>1, <2>2, <3>1 DEF TypeOK, Waiting
      <3>2. CASE j < Waiting
        <4>1. j \in 0 .. Waiting - 1 /\ j \in Nat
          BY <2>1, <3>2
        <4>2. Wrap(get_index + j) \in Index /\ Wrap(get_index + j) # bufsz - counter
          BY <1>0, <2>1, <2>2, <4>1 DEF Wrap, Index
        <4>3. buffer'[Wrap(get_index + j)] = buffer[Wrap(get_index + j)]
          BY <1>0, <1>1, <4>2 DEF TypeOK
        <4>4. buffer[Wrap(get_index + j)] = taken + j + 1
          BY <1>0, <4>1 DEF RingInv
        <4>5. QED
          BY <1>2, <4>3, <4>4
      <3>3. QED
        BY <2>1, <3>1, <3>2
    <2>5. QED
      BY <1>0, <1>1, <1>2, <2>1, <2>3, <2>4 DEF RingInv
  <1>5. HandlerInv'
    BY <1>0, <1>1, <1>2 DEF HandlerInv, Waiting, Dist
  <1>6. EndInv'
    BY <1>0, <1>1, <1>2 DEF EndInv, Dist
  <1>7. InOrder'
    BY <1>0, <1>2 DEF InOrder
  <1>8. QED
    BY <1>3, <1>4, <1>5, <1>6, <1>7 DEF SerialInv

LEMMA IdleStep == ASSUME SerialInv, FallIdle PROVE SerialInv'
  <1>0. TypeOK /\ RingInv /\ HandlerInv /\ EndInv /\ InOrder
    BY DEF SerialInv
  <1>1. IDLE' = TRUE /\ busy' = FALSE /\ ended' = arrived /\ late' = (pc # "none")
    BY DEF FallIdle
  <1>2. UNCHANGED <<counter, buffer, arrived, put_index, get_index, is_full, last_index, pc,
                    recv_len, length, data, taken>>
    BY DEF FallIdle, fifo, handler
  <1>3. late' \in BOOLEAN /\ (~late' => pc = "none")
    BY <1>1, Zenon
  <1>4. TypeOK'
    BY <1>0, <1>1, <1>2, <1>3, Zenon DEF TypeOK
  <1>5. RingInv' /\ HandlerInv' /\ InOrder'
    BY <1>0, <1>2 DEF RingInv, HandlerInv, InOrder, Waiting, recv_total_index, Wrap, Dist
  <1>6. EndInv'
    BY <1>0, <1>1, <1>2, <1>3, Numbers DEF EndInv
  <1>7. QED
    BY <1>4, <1>5, <1>6 DEF SerialInv

LEMMA IsrStep == ASSUME SerialInv, uart_isr PROVE SerialInv'
  <1>0. TypeOK /\ RingInv /\ HandlerInv /\ EndInv
    BY DEF SerialInv
  <1>1. /\ pc = "none" /\ recv_len' = RecvLen /\ last_index' = recv_total_index
        /\ pc' = (IF recv_len' # 0 THEN "indicate" ELSE "clear") /\ length' = 0
    BY DEF uart_isr, Interrupted
  <1>2. UNCHANGED <<counter, buffer, arrived, busy, IDLE, ended, late, put_index, get_index,
                    is_full, data, taken>>
    BY DEF uart_isr, line, fifo
  <1> USE Numbers
  <1>3. Waiting \in Nat /\ Waiting <= Burst /\ Waiting' = Waiting
    BY <1>0, <1>2 DEF RingInv, Waiting
  <1>4. /\ recv_total_index \in Index
        /\ recv_total_index = Wrap(get_index + Waiting)
        /\ Dist(get_index, recv_total_index) = Waiting
    BY <1>0, <1>3, Ring DEF RingInv, TypeOK
  <1>5. /\ recv_len' = (recv_total_index - put_index) % TwoTo24
        /\ recv_len' \in Nat /\ recv_len' < TwoTo24
        /\ recv_len' = 0 <=> recv_total_index = get_index
    <2>1. put_index = get_index /\ last_index = get_index
      BY <1>0, <1>1 DEF HandlerInv
    <2>2. /\ recv_total_index \in Nat /\ 2 * recv_total_index < TwoTo16
          /\ 2 * get_index < TwoTo16 /\ get_index \in Nat
      BY <1>0, <1>4, SerialAssumption, SMT DEF Index, TwoTo16
    <2>3. recv_len' = (recv_total_index - get_index) % TwoTo24
      BY <1>1, <2>1, Zenon DEF RecvLen
    <2>4. 0 % TwoTo24 = 0
      BY SMT DEF TwoTo24, TwoTo16
    <2>5. recv_total_index = get_index => recv_total_index - get_index = 0
      BY <2>2
    <2>6. recv_total_index = get_index => recv_len' = 0
      BY <2>3, <2>4, <2>5, Zenon
    <2>7. /\ recv_len' \in Nat /\ recv_len' < TwoTo24
          /\ recv_len' = 0 => recv_total_index = get_index
      BY <2>2, <2>3, Truncated
    <2>8. QED
      BY <2>1, <2>3, <2>6, <2>7, Zenon
  <1>6. TypeOK'
    <2>1. length' \in 0 .. bufsz
      BY <1>0, <1>1
    <2>2. pc' \in {"none", "indicate", "read", "clear"}
      BY <1>1, Zenon
    <2>3. QED
      BY <1>0, <1>1, <1>2, <1>4, <1>5, <2>1, <2>2, Zenon DEF TypeOK
  <1>7. RingInv'
    BY <1>0, <1>2 DEF RingInv, Waiting, recv_total_index, Wrap
  <1>8. CASE recv_len' # 0
    <2>1. pc' = "indicate" /\ recv_total_index # get_index
      BY <1>1, <1>5, <1>8, Zenon
    <2>2. HandlerInv'
      <3>1. /\ put_index' = get_index' /\ last_index' # get_index' /\ is_full' = FALSE
            /\ recv_len' = (last_index' - put_index') % TwoTo24
        BY <1>0, <1>1, <1>2, <1>5, <2>1, Zenon DEF HandlerInv
      <3>2. Dist(get_index', last_index') <= Waiting'
        BY <1>1, <1>2, <1>3, <1>4 DEF Dist
      <3>3. QED
        BY <2>1, <3>1, <3>2 DEF HandlerInv, Dist
    <2>3. EndInv'
      <3>1. taken' + Dist(get_index', last_index') = arrived'
        BY <1>0, <1>1, <1>2, <1>3, <1>4 DEF Dist, Waiting
      <3>2. QED
        BY <1>0, <1>2, <2>1, <3>1 DEF EndInv, Dist
    <2>4. QED
      BY <1>6, <1>7, <2>1, <2>2, <2>3 DEF SerialInv, InOrder
  <1>9. CASE recv_len' = 0
    <2>1. pc' = "clear" /\ recv_total_index = get_index
      BY <1>1, <1>5, <1>9, Zenon
    <2>2. taken = arrived
      <3>1. Dist(get_index, get_index) = 0
        BY <1>0 DEF Dist
      <3>2. Waiting = 0
        BY <1>4, <2>1, <3>1, Zenon
      <3>3. QED
        BY <1>0, <3>2 DEF Waiting
    <2>3. HandlerInv'
      BY <1>0, <1>1, <1>2, <2>1 DEF HandlerInv
    <2>4. EndInv'
      BY <1>0, <1>2, <2>1, <2>2 DEF EndInv
    <2>5. InOrder'
      BY <1>1 DEF InOrder
    <2>6. QED
      BY <1>6, <1>7, <2>3, <2>4, <2>5 DEF SerialInv
  <1>10. QED
    BY <1>8, <1>9

LEMMA IndicateStep == ASSUME SerialInv, rt_hw_serial_isr PROVE SerialInv'
  <1>0. TypeOK /\ RingInv /\ HandlerInv /\ EndInv
    BY DEF SerialInv
  <1>1. /\ pc = "indicate" /\ pc' = "read"
        /\ put_index' = (IF Advanced >= bufsz THEN Advanced % bufsz ELSE Advanced)
        /\ is_full' = (is_full \/ Overwrites)
        /\ get_index' = (IF is_full' THEN put_index' ELSE get_index)
        /\ length' = rt_dma_calc_recved_len(put_index', get_index', is_full')
    BY Zenon DEF rt_hw_serial_isr, rt_dma_recv_update_put_index
  <1>2. UNCHANGED <<counter, buffer, arrived, busy, IDLE, ended, late, last_index, recv_len,
                    data, taken>>
    BY DEF rt_hw_serial_isr, line
  <1> USE Numbers
  <1>3. /\ put_index = get_index /\ last_index # get_index /\ is_full = FALSE
        /\ recv_len = (last_index - get_index) % TwoTo24
        /\ Dist(get_index, last_index) <= Waiting
    BY <1>0, <1>1 DEF HandlerInv
  <1>4. Advanced = last_index
    <2>1. 2 * last_index < TwoTo16 /\ 2 * get_index < TwoTo16
      BY <1>0, SerialAssumption, SMT DEF TwoTo16
    <2>2. (get_index + ((last_index - get_index) % TwoTo24)) % TwoTo16 = last_index
      BY <1>0, <2>1, Truncated
    <2>3. QED
      BY <1>3, <2>2, Zenon DEF Advanced
  <1>5. ~(Advanced >= bufsz)
    BY <1>0, <1>4
  <1>6. put_index' = last_index
    BY <1>1, <1>4, <1>5, Zenon
  <1>7. ~Overwrites
    BY <1>0, <1>3, <1>5 DEF Overwrites
  <1>8. is_full' = FALSE
    BY <1>1, <1>3, <1>7, Zenon
  <1>9. get_index' = get_index
    BY <1>1, <1>8, Zenon
  <1>10. length' = Dist(get_index, last_index)
    BY <1>0, <1>1, <1>3, <1>6, <1>8, <1>9 DEF rt_dma_calc_recved_len, Dist
  <1>11. length' \in 0 .. bufsz
    BY <1>0, <1>10 DEF Dist
  <1>12. TypeOK'
    BY <1>0, <1>1, <1>2, <1>6, <1>8, <1>9, <1>11, Zenon DEF TypeOK
  <1>13. RingInv'
    BY <1>0, <1>2, <1>9 DEF RingInv, Waiting, recv_total_index, Wrap
  <1>14. HandlerInv'
    BY <1>1, <1>2, <1>3, <1>6, <1>8, <1>9, <1>10 DEF HandlerInv, Waiting, Dist
  <1>15. EndInv'
    BY <1>0, <1>1, <1>2, <1>9 DEF EndInv, Dist
  <1>16. QED
    BY <1>1, <1>12, <1>13, <1>14, <1>15 DEF SerialInv, InOrder

(* The two parts that are copied are the bytes get_index up to last_index. *)
LEMMA ReadStep == ASSUME SerialInv, _serial_dma_rx PROVE SerialInv'
  <1>0. TypeOK /\ RingInv /\ HandlerInv /\ EndInv
    BY DEF SerialInv
  <1>1. /\ pc = "read" /\ pc' = "clear"
        /\ data' = [i \in Index |-> IF i < length THEN Copied(i) ELSE data[i]]
        /\ get_index' = Got /\ is_full' = (is_full /\ length = 0)
        /\ taken' = taken + length
    BY Zenon DEF _serial_dma_rx
  <1>2. UNCHANGED <<counter, buffer, arrived, busy, IDLE, ended, late, put_index, last_index,
                    recv_len, length>>
    BY DEF _serial_dma_rx, line
  <1> USE Numbers
  <1>3. /\ put_index = last_index /\ last_index # get_index /\ is_full = FALSE
        /\ length = Dist(get_index, last_index) /\ length <= Waiting
        /\ length \in Nat /\ length > 0
    <2>1. /\ put_index = last_index /\ last_index # get_index /\ is_full = FALSE
          /\ length = Dist(get_index, last_index) /\ length <= Waiting
      BY <1>0, <1>1, Zenon DEF HandlerInv
    <2>2. Dist(get_index, last_index) > 0
      BY <1>0, <2>1 DEF Dist
    <2>3. QED
      BY <1>0, <2>1, <2>2
  <1>4. Waiting \in Nat /\ Waiting < bufsz /\ Waiting' = Waiting - length
    BY <1>0, <1>1, <1>2 DEF RingInv, Waiting
  <1>5. get_index' = last_index
    <2>1. Got = Wrap(get_index + length)
      <3>1. get_index \in Nat /\ get_index < bufsz
        BY <1>0
      <3>2. length \in Nat /\ length < bufsz
        BY <1>3, <1>4, SerialAssumption
      <3>3. QED
        BY <3>1, <3>2, WrapSum, Zenon DEF Got
    <2>2. Wrap(get_index + Dist(get_index, last_index)) = last_index
      BY <1>0 DEF Wrap, Dist
    <2>3. QED
      BY <1>1, <1>3, <2>1, <2>2
  <1>6. ASSUME NEW i \in 0 .. length - 1
        PROVE  i \in Index /\ Copied(i) = taken + i + 1 /\ data'[i] = taken + i + 1
    <2>1. i \in Index /\ i \in 0 .. Waiting - 1 /\ i < length /\ i \in Nat
      BY <1>0, <1>3, <1>4 DEF Index
    <2>2. buffer[Wrap(get_index + i)] = taken + i + 1
      BY <1>0, <2>1 DEF RingInv
    <2>3. Copied(i) = buffer[Wrap(get_index + i)]
      <3>1. CASE get_index + i < bufsz
        <4>1. Wrap(get_index + i) = get_index + i
          BY <1>0, <2>1, <3>1 DEF Wrap
        <4>2. get_index + length < bufsz \/ i < bufsz - get_index
          BY <1>0, <2>1, <3>1
        <4>3. QED
          BY <4>1, <4>2 DEF Copied
      <3>2. CASE get_index + i >= bufsz
        <4>1. Wrap(get_index + i) = i - (bufsz - get_index)
          BY <1>0, <2>1, <3>2 DEF Wrap
        <4>2. ~(get_index + length < bufsz) /\ ~(i < bufsz - get_index)
          BY <1>0, <1>3, <2>1, <3>2
        <4>3. QED
          BY <4>1, <4>2 DEF Copied
      <3>3. QED
        BY <1>0, <2>1, <3>1, <3>2
    <2>4. data'[i] = Copied(i)
      BY <1>1, <2>1
    <2>5. QED
      BY <2>1, <2>2, <2>3, <2>4
  <1>7. TypeOK'
    <2>1. data' \in [Index -> Nat]
      <3>1. ASSUME NEW i \in Index
            PROVE  (IF i < length THEN Copied(i) ELSE data[i]) \in Nat
        <4>1. CASE i < length
          BY <1>0, <1>3, <1>6, <4>1 DEF Index
        <4>2. CASE ~(i < length)
          BY <1>0, <4>2 DEF TypeOK
        <4>3. QED
          BY <4>1, <4>2
      <3>2. QED
        BY <1>1, <3>1
    <2>2. taken' \in Nat
      BY <1>0, <1>1, <1>3
    <2>3. is_full' \in BOOLEAN
      BY <1>1, Zenon
    <2>4. QED
      BY <1>0, <1>1, <1>2, <1>5, <2>1, <2>2, <2>3, Zenon DEF TypeOK
  <1>8. RingInv'
    <2>1. taken' <= arrived' /\ Waiting' <= Burst
      BY <1>0, <1>1, <1>2, <1>3, <1>4 DEF RingInv, Waiting
    <2>2. recv_total_index' = Wrap(get_index' + Waiting')
      <3>1. recv_total_index' = Wrap(get_index + Waiting)
        BY <1>0, <1>2 DEF RingInv, recv_total_index
      <3>2. Wrap(get_index + Waiting) = Wrap(last_index + (Waiting - length))
        BY <1>0, <1>3, <1>4 DEF Wrap, Dist
      <3>3. QED
        BY <1>4, <1>5, <3>1, <3>2 DEF Wrap
    <2>3. ASSUME NEW j \in 0 .. Waiting' - 1
          PROVE  buffer'[Wrap(get_index' + j)] = taken' + j + 1
      <3>1. j + length \in 0 .. Waiting - 1 /\ j \in Nat
        BY <1>3, <1>4
      <3>2. buffer[Wrap(get_index + (j + length))] = taken + (j + length) + 1
        BY <1>0, <3>1 DEF RingInv
      <3>3. Wrap(get_index + (j + length)) = Wrap(last_index + j)
        BY <1>0, <1>3, <1>4, <3>1 DEF Wrap, Dist
      <3>4. QED
        BY <1>0, <1>1, <1>2, <1>3, <1>5, <3>1, <3>2, <3>3 DEF Wrap
    <2>4. QED
      BY <2>1, <2>2, <2>3 DEF RingInv
  <1>9. HandlerInv'
    BY <1>1, <1>2, <1>3, <1>5 DEF HandlerInv
  <1>10. EndInv'
    BY <1>0, <1>1, <1>2, <1>3 DEF EndInv
  <1>11. InOrder'
    BY <1>0, <1>1, <1>2, <1>3, <1>6 DEF InOrder
  <1>12. QED
    BY <1>7, <1>8, <1>9, <1>10, <1>11 DEF SerialInv

LEMMA ClearStep == ASSUME SerialInv, ClearIdle PROVE SerialInv'
  <1>0. TypeOK /\ RingInv /\ HandlerInv /\ EndInv
    BY DEF SerialInv
  <1>1. pc = "clear" /\ pc' = "none" /\ IDLE' = FALSE
    BY DEF ClearIdle
  <1>2. UNCHANGED <<counter, buffer, arrived, busy, ended, late, put_index, get_index, is_full,
                    last_index, recv_len, length, data, taken>>
    BY DEF ClearIdle, line, fifo
  <1>3. TypeOK'
    BY <1>0, <1>1, <1>2, Zenon DEF TypeOK
  <1>4. RingInv' /\ HandlerInv'
    BY <1>0, <1>1, <1>2 DEF RingInv, HandlerInv, Waiting, recv_total_index, Wrap
  <1>5. EndInv' /\ InOrder'
    BY <1>0, <1>1, <1>2 DEF EndInv, InOrder
  <1>6. QED
    BY <1>3, <1>4, <1>5 DEF SerialInv

LEMMA SerialStep == SerialInv /\ [Next]_vars => SerialInv'
  <1> SUFFICES ASSUME SerialInv, [Next]_vars PROVE SerialInv'
    OBVIOUS
  <1>1. CASE UNCHANGED vars
    BY <1>1 DEF vars, line, fifo, handler, SerialInv, TypeOK, RingInv, HandlerInv, EndInv,
                InOrder, Waiting, recv_total_index, Wrap, Dist
  <1>2. CASE Next
    BY <1>2, ByteStep, IdleStep, IsrStep, IndicateStep, ReadStep, ClearStep, Zenon
       DEF Next, Handler
  <1>3. QED
    BY <1>1, <1>2

LEMMA SerialAlways == Spec => []SerialInv
  BY SerialInit, SerialStep, PTL DEF Spec

-----------------------------------------------------------------------------
(* The indices of the ring stay inside it, whatever its size and however   *)
(* line and handler interleave.                                            *)
THEOREM SerialTypeCorrect == Spec => []TypeOK
  <1>1. SerialInv => TypeOK
    BY DEF SerialInv
  <1>2. QED
    BY <1>1, SerialAlways, PTL

(* The call_backs get every byte once and in order, also round the end of  *)
(* the buffer, where the length is a negative number cut to 24 bits.       *)
THEOREM BytesInOrder == Spec => []InOrder
  <1>1. SerialInv => InOrder
    BY DEF SerialInv
  <1>2. QED
    BY <1>1, SerialAlways, PTL

(* A frame waits unread on a quiet line only if its end was missed because *)
(* the handler was at work.                                                *)
THEOREM NothingIsLeft == Spec => []NothingLeft
  <1>1. SerialInv => NothingLeft
    BY Numbers DEF SerialInv, EndInv, RingInv, NothingLeft
  <1>2. QED
    BY <1>1, SerialAlways, PTL
=============================================================================
