------------------------------ MODULE SerialDma ------------------------------
(***************************************************************************)
(* How the bytes on a serial line become the frames of Uart1_input and     *)
(* Uart2_input: the DMA controller writes them round and round into the    *)
(* buffer of the serial device, and the interrupt at the end of a frame,   *)
(* when the line falls idle, has the new ones read (uart_isr in            *)
(* drv_usart.c, serial.c).  Neither the line nor the controller waits for  *)
(* the interrupt handler.  The handlers at the middle and at the end of    *)
(* the buffer do nothing (HAL_UART_RxCpltCallback is commented out).       *)
(*                                                                         *)
(* A byte is modelled by its number in the order of arrival.               *)
(***************************************************************************)
EXTENDS Integers

CONSTANTS
    bufsz,  \* 256: size of the buffer
    Burst,  \* most bytes the line is ahead of the reader, below bufsz
    Total   \* bytes that arrive in all: a bound for TLC

(* The bits of a length that an event keeps, and those of a fifo index.    *)
TwoTo16 == 65536
TwoTo24 == 256 * TwoTo16

ASSUME SerialAssumption ==
    /\ bufsz \in Nat \ {0} /\ 2 * bufsz <= TwoTo16
    /\ Burst \in 1 .. bufsz - 1
    /\ Total \in Nat

Index == 0 .. bufsz - 1

VARIABLES
    counter,                          \* transfers until the controller starts again
    buffer,                           \* the bytes in the ring, 0 at first
    IDLE,                             \* the flag that raises the interrupt
    last_index,                       \* where the last interrupt found the controller
    put_index, get_index, is_full,    \* the receive fifo
    pc, recv_len, length,             \* the handler and its local variables
    data                              \* what the call_back reads into

(* History variables.                                                      *)
VARIABLES
    arrived,    \* bytes received so far
    busy,       \* a byte came since the line was last idle
    ended,      \* bytes received when the line last fell idle
    late,       \* and that was while the handler ran
    taken       \* bytes the call_backs have read

line    == <<counter, buffer, arrived, busy>>
fifo    == <<put_index, get_index, is_full>>
handler == <<last_index, pc, recv_len, length, data, taken>>

vars == <<line, IDLE, ended, late, fifo, handler>>

(* rt_serial_open and stm32_dma_config.                                    *)
Init ==
    /\ counter = bufsz /\ buffer = [i \in Index |-> 0]
    /\ arrived = 0 /\ busy = FALSE
    /\ IDLE = FALSE /\ ended = 0 /\ late = FALSE
    /\ put_index = 0 /\ get_index = 0 /\ is_full = FALSE
    /\ last_index = 0 /\ pc = "none" /\ recv_len = 0 /\ length = 0
    /\ data = [i \in Index |-> 0]
    /\ taken = 0

-----------------------------------------------------------------------------
(* The hardware.                                                           *)
Byte ==
    /\ arrived < Total /\ arrived - taken < Burst
    /\ arrived' = arrived + 1
    /\ buffer' = [buffer EXCEPT ![bufsz - counter] = arrived']
    /\ counter' = IF counter = 1 THEN bufsz ELSE counter - 1
    /\ busy' = TRUE
    /\ UNCHANGED <<IDLE, ended, late, fifo, handler>>

FallIdle ==
    /\ busy /\ busy' = FALSE
    /\ IDLE' = TRUE
    /\ ended' = arrived /\ late' = (pc # "none")
    /\ UNCHANGED <<counter, buffer, arrived, fifo, handler>>

-----------------------------------------------------------------------------
(* The handler.                                                            *)
recv_total_index == bufsz - counter

(* Mutant: a controller behind last_index has received nothing.            *)
RecvLen_Positive == IF recv_total_index > last_index THEN recv_total_index - last_index ELSE 0

(* 24 bits of the difference fit beside the event in its word; when the    *)
(* controller has started again they are those of a negative number.       *)
RecvLen == (recv_total_index - last_index) % TwoTo24

(* Mutant: a buffer just completed is left to the handler of its end.      *)
Interrupted_NotAtEnd == pc = "none" /\ IDLE /\ counter # bufsz

Interrupted == pc = "none" /\ IDLE

uart_isr ==
    /\ Interrupted
    /\ recv_len' = RecvLen
    /\ last_index' = recv_total_index
    /\ pc' = IF recv_len' # 0 THEN "indicate" ELSE "clear"
    /\ length' = 0
    /\ UNCHANGED <<line, IDLE, ended, late, fifo, data, taken>>

(* put_index is a u16 and may pass the end of the buffer or get_index.     *)
Advanced == (put_index + recv_len) % TwoTo16

Overwrites ==
    IF get_index <= put_index THEN Advanced >= bufsz /\ Advanced % bufsz >= get_index
                              ELSE Advanced >= get_index

rt_dma_recv_update_put_index ==
    /\ put_index' = IF Advanced >= bufsz THEN Advanced % bufsz ELSE Advanced
    /\ is_full' = (is_full \/ Overwrites)
    /\ get_index' = IF is_full' THEN put_index' ELSE get_index

rt_dma_calc_recved_len(put, get, full) ==
    IF put = get THEN IF full THEN bufsz ELSE 0
    ELSE IF put > get THEN put - get
    ELSE bufsz - (get - put)

rt_hw_serial_isr ==
    /\ pc = "indicate" /\ pc' = "read"
    /\ rt_dma_recv_update_put_index
    /\ length' = rt_dma_calc_recved_len(put_index', get_index', is_full')
    /\ UNCHANGED <<line, IDLE, ended, late, last_index, recv_len, data, taken>>

(* Mutant: the second part is taken from where the first began.            *)
Copied_FromGet(i) ==
    IF get_index + length < bufsz \/ i < bufsz - get_index THEN buffer[get_index + i]
    ELSE buffer[get_index]

(* Two calls of rt_memcpy where the bytes pass the end of the buffer.      *)
Copied(i) ==
    IF get_index + length < bufsz \/ i < bufsz - get_index THEN buffer[get_index + i]
    ELSE buffer[i - (bufsz - get_index)]

(* Mutant: get_index is left at the end of the buffer.                     *)
Got_AtEnd == IF get_index + length > bufsz THEN (get_index + length) % bufsz
                                           ELSE get_index + length

Got == IF get_index + length >= bufsz THEN (get_index + length) % bufsz
                                      ELSE get_index + length

(* The call_back reads all there is (rt_serial_read, _serial_dma_rx).      *)
_serial_dma_rx ==
    /\ pc = "read" /\ pc' = "clear"
    /\ data' = [i \in Index |-> IF i < length THEN Copied(i) ELSE data[i]]
    /\ get_index' = Got
    /\ is_full' = (is_full /\ length = 0)
    /\ taken' = taken + length
    /\ UNCHANGED <<line, IDLE, ended, late, put_index, last_index, recv_len, length>>

(* Only now the flag is cleared: an idle line since then goes unnoticed.   *)
ClearIdle ==
    /\ pc = "clear" /\ pc' = "none"
    /\ IDLE' = FALSE
    /\ UNCHANGED <<line, ended, late, fifo, last_index, recv_len, length, data, taken>>

-----------------------------------------------------------------------------
Handler == uart_isr \/ rt_hw_serial_isr \/ _serial_dma_rx \/ ClearIdle

Next == Byte \/ FallIdle \/ Handler

Spec == Init /\ [][Next]_vars

(* The interrupt is served as long as its flag is up.                      *)
FairSpec == Spec /\ WF_vars(Handler)

-----------------------------------------------------------------------------
(* TypeOK: the indices stay inside the buffer and nothing read is longer   *)
(* than it.                                                                *)
TypeOK ==
    /\ counter \in 1 .. bufsz /\ buffer \in [Index -> Nat] /\ data \in [Index -> Nat]
    /\ last_index \in Index /\ put_index \in Index /\ get_index \in Index
    /\ recv_len \in Nat /\ recv_len < TwoTo24 /\ length \in 0 .. bufsz
    /\ pc \in {"none", "indicate", "read", "clear"}
    /\ IDLE \in BOOLEAN /\ is_full \in BOOLEAN /\ busy \in BOOLEAN /\ late \in BOOLEAN
    /\ arrived \in Nat /\ ended \in Nat /\ taken \in Nat

(* InOrder: the call_back reads the bytes that follow those it read last,  *)
(* each once and in order, wherever the end of the buffer falls and        *)
(* however many more arrive meanwhile.                                     *)
InOrder ==
    pc = "clear" => \A i \in 0 .. length - 1 : data[i] = taken - length + i + 1

(* NothingLeft: once the handler is done and the line is quiet, all bytes  *)
(* have been read; the end of a frame is missed only if it comes while the *)
(* handler works on the one before.                                        *)
NothingLeft == pc = "none" /\ ~IDLE /\ ~busy /\ ~late => taken = arrived

(* FrameDelivered: a frame whose end is not missed is read, whatever comes *)
(* after it.                                                               *)
FrameDelivered == \A n \in 1 .. Total : (ended = n /\ ~late) ~> (taken >= n)
=============================================================================
