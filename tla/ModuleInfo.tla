----------------------------- MODULE ModuleInfo -----------------------------
(***************************************************************************)
(* The state the threads of the module share without any lock: the fields  *)
(* of module_info (Uart.c), the event for the infrared chip (infrared.c)   *)
(* and the page stack pageInfor (Oled1309.c).                              *)
(***************************************************************************)
EXTENDS Common

VARIABLES
    addr,            \* modbus address
    register_state,  \* TRUE: REGISTER_SUCESS
    brand_code,      \* brand code the chip matched
    ctrl,            \* u16 command for the air conditioner
    select,          \* "MATCH" or "LEARN"
    find_location,   \* the hub asked the LED to blink
    infrared_event,  \* global event: [event, call_back]
    pageInfor        \* u32 of four page bytes, the current page last

module_info == <<addr, register_state, brand_code, ctrl, select, find_location>>

pageReturn == Shr(pageInfor)
=============================================================================
