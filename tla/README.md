# Verification of the infrared module's firmware

The repository is the firmware of an STM32F1 board that lets a control hub drive an air
conditioner. The hub talks modbus over RS-485 (UART 1); the board talks to an infrared code
library chip (UART 2), which sends the infrared commands; a small display with three buttons
(Enter, Up, Down) lets a person match a remote control, teach the chip two commands, choose
between the two modes and try them out. The application lives in
`src/infrared_module/applications`; the rest of the repository is RT-Thread, vendor libraries,
board support and documents.

## 1. Inventory

| Part | Source | State it keeps | Operations |
|---|---|---|---|
| Button task | `Button/ButtonTask.c` | `buttonList` (type, press_state, have_read, 16-bit continue_time), `btn_cooling` | sample all pins every 20 ms, derive SHORT/LONG_PRESS, call the button's call_back |
| UART task | `Uart/Uart.c` | four software timers, `startFlag`, `connect_monitor`, `ctrl_pre`, `sendCmdCnt`, local copies of the two events, `modulePre`, IO debouncing | one iteration every 50 ms: IO_CHECK, hub frame, chip frame, flash save, 100 ms / 1 s / 5 s / 10 s work |
| Receive callbacks | `Uart/Uart.c` | `uart1_msg`, `uart2_msg` | copy a received frame, filter it, raise the flag (interrupt context) |
| Hub protocol | `Uart/module.c` | `mater_envent` | register, read and write registers, reply, flash read and write |
| Infrared chip protocol | `Uart/infrared.c` | `infrared_event` | eleven senders, some of which also set `ctrl`, `switchState`, `nowTemp` |
| Module state | `Uart/Uart.c`, `Uart/Uart.h` | `module_info`: addr, register_state, brand_code, ctrl, select, find_location | read and written by every thread, no lock |
| Display thread, pages, button call_backs | `Oled1309/Oled1309.c`, `Oled1309/OledPage.c` | `pageInfor` (a stack of four page bytes in a u32), `pageSelect` (cursor, select), `reflash_flag`, `backlightTime` | draw the current page, open, leave, post infrared events, backlight |
| Timers, checksums, GPIO | `main.c`, `crc_32.c` | – | `TimerTask`, `usModbusRTU_CRC`, `checkResult`, `LED_*`, `ReadUniqueId` |
| Flash driver | `drivers/drv_flash_f1.c` | the flash page | read, erase, program |
| Serial driver | `drivers/drv_usart.c`, RT-Thread's `serial.c` | DMA ring, receive fifo | interrupt at the end of a frame, read |
| Display driver | `Oled1309/st7567/ST7567.c` | pixel buffer | output only |

**Interaction.** Three threads run under RT-Thread's fixed priorities: UART (18) preempts the
display thread (20), which preempts the buttons (21); the receive callbacks run in interrupts.
They share `module_info`, `infrared_event`, `mater_envent` and `pageInfor` without locks. The
pages ask for infrared work by posting an event; the UART thread copies the event once a
second, acts on the copy, and writes the copy back when a step is finished. Events carry a
call_back that the UART thread invokes to show progress; one of them (`matchCallBack`) sleeps
a second in the middle of the UART thread.

**What is hard here.** The interrupt writes the frame buffer while the thread reads it, and
below it the DMA controller writes the ring while the driver reads that. Two local copies of
shared events go stale between 1 s ticks and are written back over newer values. Three threads
shift the page stack, two move the cursor and switch the light, none with a lock. Changes of
`ctrl` and of the saved fields are found by comparison with an older copy. The registration
protocol spreads over a 1 s, a 5 s and a 10 s timer and a 30 s monitor. Chip replies are not
matched with requests. A 16-bit press counter wraps. Erasing and writing the flash may fail, and
the power may go in the middle. `PROJECT.json` lists these hazards with their lines.

**What makes each part correct.**
Button task: one report per hold, by its length. UART task: a frame is handled only if it
passed the filter; every command of the hub reaches the air conditioner, three times; an
unregistered or forgotten module registers again and a connected one does not; what is in flash
agrees with what is in memory; the LED stops blinking; no call through a pointer that is not the
event's own; a page's command stops when the page is left; a save is reported only if it was sent.
Display: no page is lost from the stack, the cursor stays on the menus, the light goes out and
comes back, the home page shows current values. Flash: a restart restores what was saved.
Serial: every byte is read once and in order. CRC: intact frames pass, damaged ones do not.

## 2. Modules

| Module | Role | Proofs |
|---|---|---|
| `Gesture` | abstract specification: reports of the buttons as a function of the length of a hold | |
| `ButtonTask` | the button thread, implements `Gesture` | `ButtonTaskProofs` |
| `Common` | page and event names, the page stack's shifts, `TimerTask`, `getTempByCtrl` | |
| `ModuleInfo` | the variables all threads share | |
| `UartTask` | the UART thread, the receive callbacks, and the page threads as its environment | `UartTaskProofs` (registration, call_backs), `UartTypeProofs` (types), `UartSendProofs` (flash, commands) |
| `MCUartTask` | frames, flash images and other values for its configurations | |
| `OledTask` | the display thread, the button call_backs, and the UART thread as their environment | `OledProofs` |
| `OledLeave` | `OledTask` with a history of leaving pages | |
| `FlashStore` | saving, power loss and restart, down to half-words | `FlashStoreProofs` |
| `SerialDma` | from bytes on the line to the call_back's buffer | `SerialDmaProofs` |
| `ModbusCrc` | the CRC on both ends of a damaged line | `ModbusCrcProofs` |

The modules share no state space; each takes the others as its environment, and what it
assumes of them another one shows:

- `UartTask` lets the pages leave any `Stack`, post any of `PanelEvents` and select either mode
  whenever they can run. `OledTask` shows that they do no more (`TypeOK`: `pageInfor` is a
  `Stack`, `posted` is one of `PanelEvents`), even when the threads tear each other's updates.
  `OledTask` in turn lets the UART thread pop a page, change `ctrl` and what the home page
  shows at any instruction, a superset of what `UartTask` does.
- `UartTask` saves in one step; `FlashStore` breaks that step up.
- `UartTask` has frames arrive whole; `SerialDma` shows when they do, and that a read never
  brings bytes twice, out of order or with a gap (`InOrder`).
- `UartTask` gives each frame an attribute `ok`; `ModbusCrc` shows what it is worth.

### ButtonTask

One action, `Buttonprogram(down)`, is one call of the C function with the buttons in `down`
pressed. `Counts`, `Cool`, `Pressed`, `Released` and `Scan` are the branches of its loop. The
stored `type` after the step is the argument of that step's call_back. The block of lines 24-33
compares `on_set` (0 for every button) with a static 0 and never does anything; it is left out,
and so `btn_cooling` only counts up from power on. `hold` is a history variable: how long the
hand has held the button, the reports this hold has received, and for how many samples it has
been released. The environment is constrained by two constants: `MaxHold` bounds a hold, and
`MinGap` says for how many samples a release lasts at least (1 allows bouncing).

### UartTask

`pc` walks through one iteration of the loop in `UartTaskEntry`:

    sleep -> io -> uart1 -> (register | command) -> clear1 -> uart2 -> (saved ->) clear2
          -> save -> 100ms -> 1s -> link -> ctrl -> 5s -> 10s -> sleep
    uart2 -> fault

Each step is the code between two points at which something else can matter. `Uart1_input` and
`Uart2_input` may occur between any two steps. The page threads have lower priority, so they run
only while the thread sleeps: at `sleep`, and at `saved`, the one-second delay inside
`matchCallBack`. There `UiPage`, `UiPost`, `UiStore` and `UiSelect` stand for them.

Posting an event copies a structure of two words (infrared.c:25), and the threads that post from
the pages can be interrupted between the two: `UiPost` stores the event, `UiStore` the call_back,
`storing` is what each thread has yet to store. The UART thread may take the event or write its
own back in between, and the display thread may run a whole post between the stores of a
button's. A pair torn that way has the call_back of another post, which for a button's or the
test page's is an uninitialized local: a chip reply is then handled through a foreign call_back
or a wild pointer. `WildCall` lets a wild call end in a hard fault, after which nothing happens;
that it happens to hit one of the two call_backs is what the other actions allow. The UART
thread's own posts are single steps, since only interrupts, which do not touch events, can strike
between their stores.

`Uart1_input` copies before it filters, as the code does, and bytes that a short frame does not
bring keep their old values.

Abstractions. A hub frame is its size, whether its CRC is right, and the words the code reads; a
chip frame is its size, its first two bytes (AA55, zero or other), command byte and code. A sent
message is a record with the fields a property can tell apart. Time is counted in iterations;
the year and the steady LED have no influence on the state and are left out. The flash CRC is
computed from memory two structures behind `module_info` (`getModuleInfo() + 2` is pointer
arithmetic on the structure), so its verdict does not depend on the image: `UartInit` allows
both. The memory the matching `memset` clears is not modelled. Flash saves occur only when
address, brand code or mode differ from `modulePre`, and `ctrl` is saved along with them.

History variables (`quiet`, `answered`, `accepted`, `lastSent`, `commanded`, `copies`,
`unsent`, `saveSent`, `cut`, `localCut`, `uiWants`, `wish`) record what happened for the properties; no action is
guarded by them.

Actual periods. `TimerTask` counts from 0 to `touchTime` inclusive, so a timer fires on every
`touchTime + 1`-th call. With the 50 ms period the "100 ms" timer fires every 150 ms (the "60
seconds" of blinking in Uart.c:399 are 90) and the "1 s" timer every 1.05 s. The "every 5 s" of
Uart.c:543 sets an event that is sent from the block of the 10 s timer.

### OledTask

`opc` is the program counter of the display loop, `bpc` that of a button call_back:

    opc: start -> look -> program -> (shift -> load -> or | return) -> tail -> sleep -> look
    bpc: idle -> enter -> select -> reflash -> idle
         idle -> up | down -> compare -> load or wrap -> store -> reflash -> idle
         idle -> over -> leaveLoad -> leaveStore -> idle          (long press of Enter)

`pageInfor <<= 8`, `pageInfor |= x` and `pageSelect.cusor++` are loads and stores with registers
`oreg`, `breg`, `bval`: the build does not optimize, and every higher-priority thread may strike
between the two. Call_backs run while the display thread sleeps; the UART thread's effects
(`UartReturn`, `UartCtrl`, `UartShow`) occur anywhere. `ctrlNew` says whether `module_info.ctrl`
differs from the loop's copy; `screen` whether the home page is drawn, with current or old
values; everything else that is drawn is left out. `nowPage`, the local copy, and `nowPagePre`
are one variable: nothing reads the old value once a page is drawn. The 3 s timer, the `cnt` of
the blinking text and `cleanLastMatchRes`' variable influence nothing and are left out.

Tearing is real here: a push that the UART thread interrupts can restore a page it has just
left, or combine the numbers of two pages (`Or`). `StackFits` and `MenuInBounds` are what
survives it.

### FlashStore, SerialDma, ModbusCrc

`FlashStore` follows `module_info` from the comparison with `modulePre` (`Check`) through
`stm32_flash_erase` and the loop of `stm32_flash_write`, half-word by half-word, as
`HAL_FLASH_Program` does it; each may fail, and the result is ignored. `PowerLoss` strikes
anywhere, leaves anything in what was being erased or programmed, and loses the memory. `Boot`
reads the page back. `HalfWords` groups the fields as the structure lays them out: the address
shares its half-word with the type, 0xB4 since the start, so that after a save this half-word
reads neither as zero nor as erased, even for address 255; the mode shares its with
`find_location`. The controller programs a half-word only if it is erased, or to zero
(`Programmable`), which decides what a write after a failed erase can do. The CRC
`initModuleInfo` computes is that of unrelated memory (`Behind`).

`SerialDma` numbers the bytes. `Byte` and `FallIdle` are the hardware, which waits for nobody;
`uart_isr`, `rt_hw_serial_isr`, `_serial_dma_rx` and `ClearIdle` are the handler's parts.
The lengths keep their widths: `recv_len` is negative when the controller has started again, its
24 low bits travel in the event, and the u16 `put_index` is reduced afterwards. `late` marks the
frames whose end falls into the handler: the idle flag is cleared last, so their end goes
unnoticed, and they are read together with the next frame.

`ModbusCrc` runs the loop of `usModbusRTU_CRC` on the sender's and on the receiver's side, a
number being the set of its one bits, and damages bits in between. `damaged` is a history
variable, the positions of the damaged bits in the frame.

## 3. Runs

| Run | Expect | Shows |
|---|---|---|
| `button_gestures` | pass | Three buttons, releases of two samples and more, holds below the wrap: `TypeOK`, `LongReported`, `LongOncePerHold`, and the refinement of `Gesture`. |
| `uart_link` | pass | Registration against a hub that answers this module, answers others, sends short replies, asks for the location, uses functions the module does not know, or is silent: `TypeOK`, `RegisterJustified`, `RegistersWhenSilent`, `BlinkEnds`. |
| `uart_ctrl` | pass | Writes to the control and address registers, damaged frames, IO_CHECK, the test page and changes of mode, from a used flash in learn mode and from an erased one: `OnlyAcceptedFrames`, `CommandReachesAC`, `Persisted`, `ThreeCopies`. |
| `uart_ir` | pass | Chip replies of four kinds at any time, and the pages between them, every post in two stores: `CallBackFits`, `Persisted`, `SendsAsAsked`. |
| `oled_pages` | pass | All interleavings of display loop, call_backs and UART effects: `TypeOK`, `StackFits`, `MenuInBounds`, `DarkMeansIdle`, `LightGoesOut`, `HomeCurrent`. |
| `flash_save` | pass | Failing saves, power loss anywhere, restart with a CRC that agrees or not: `TypeOK`, `Durable`, `RestartRestores`. |
| `serial_ring` | pass | Frames of one to four bytes round a ring of five: `TypeOK`, `InOrder`, `NothingLeft`, `FrameDelivered`. |
| `crc_damage` | pass | All damage of up to five bits in a frame of four bytes: `TypeOK`, `IntactAccepted`, `OnlyDamageMatters`, `DamageDetected` (up to three bits), `OddDamageDetected`, `BurstDetected` (sixteen bits in a row). |
| `uart_bus` | violation | `OnlyAcceptedFrames` fails: a damaged frame arrives in the 50 ms in which an accepted one waits for the thread, takes its place in the buffer, and is handled. A frame for another module that comes in the wait makes the thread drop the accepted one (Uart.c:283) and is handled itself only if it comes after that test. |
| `uart_late_reply` | violation | `SavedMeansSent` fails when the chip answers twice. |
| `oled_leave` | violation | `LeaveIsFinal` fails: the page is drawn between the end event and the pop. |
| `flash_torn` | violation | `FirstUseOnly` fails: a save that loses its power during or after the erase looks like a first use. |

**Exceptions written into the properties.** Some properties hold only with an exception, and the
exception is what the code does:

- `CommandReachesAC`: a command equal to `ctrl_pre` that was not the last one sent goes
  unnoticed, after a restart (the flash kept it) or when it undoes a command of IO_CHECK or of
  the test page within the second; and a change of mode sends nothing, so the command sent last
  may still be the other mode's. Uart.c:522 says a received command is sent three times.
- `ThreeCopies`: match mode only. In learn mode, where the first sending replaces `ctrl`, the
  command is sent a fourth time, against "send three times" of Uart.c:217 and 522. The count
  starts again when the mode changes: a command that is being repeated then is repeated in both
  modes.
- `CallBackFits`: pairs torn between the two stores of a post (`cut`, `localCut`). The property
  says that there is no other way to a foreign call_back; that this one exists, and can end in a
  hard fault, is in the model.
- `OnlyAcceptedFrames` in `uart_ctrl`: the hub waits for its answer (`HubWaits`), so what the run
  shows is the filter. Nothing in the code makes a shared bus behave like that, and `uart_bus`
  shows what happens when it does not.
- `SendsAsAsked`: a chip reply handled after the pages have posted something new writes the old
  event back (`wish = "lost"`), and its command goes out every second from then on, even though
  the page has been left.
- `RegisterJustified`: only commands reset the monitor, not the answer to a registration, so a
  module that is answered but not commanded keeps registering (Uart.c:512 speaks of messages).
- `Persisted`, `Durable`: address 0, brand code 0 and match mode together equal the zeroed
  `modulePre` and are not saved in the first iteration. `Durable` promises nothing after a failed
  save, which is not tried again before the next change.
- `NothingLeft`, `FrameDelivered`: frames whose end falls into the handler.
- `RestartRestores`: only if the CRC agrees. If not, the comment at Uart.c:62 takes the data for
  unused, and line 66 means to clear it, but `getModuleInfo() + 2` is two structures further on:
  brand code and mode stay as the page has them, and only the address becomes 1. No run says
  that this is right or wrong; `flash_torn` shows that the verdict is.
- `Gestures`: releases of two samples and more (`MinGap = 2`) and holds below the wrap. A release
  of one sample within a hold yields SHORT_PRESS, then LONG_PRESS, and so does a hold in which the
  counter wraps, although the comment at ButtonTask.c:21 has `btn_cooling` keep the two apart. No
  run covers this. `LongReported` and `LongOncePerHold` hold in these cases too, which only their
  theorems show.

**Bounds.** Timer lengths are scaled down and keep their order (`uart_link`: 1, 2, 5 and 11
calls, so that the timers meet in every phase); the monitor expires after 6 ticks instead of 30,
more than lie between two firings of the 10 s timer, as in the code, the blinking after 3
instead of 600, IO_CHECK after 0 to 2 periods instead of 30, the backlight after 2 ticks instead
of 60. In runs about something else the timers are as short as possible. The counters are only
compared with their limits, so longer ones add waiting and no new decisions. `HubWaits`
restricts the hub to one frame at a time, which is how a modbus master behaves on a bus of its
own, not on a shared one; `uart_bus` lifts it. Two control words (on at 25 degrees, off at 16), two addresses and one
brand code are enough to tell old from new values. `uart_ctrl` has one test event, `uart_ir` one
end event and one stack of pages to leave: the others differ only in the word that is sent.
`Damaged` is the on command with one bit lost, so that it can be told from the intact one. `MaxHold` (160 ms in scaled time) is beyond
the long press. `oled_pages` is complete for its constants: every page, key and tear. The ring of
five bytes passes its end twice in `Total` = 14 bytes. `crc_damage` takes one content: by
`OnlyDamageMatters`, which is proved, the content has no influence on the verdict. Four bytes
hold the smallest damage that goes unnoticed, the polynomial's own pattern of four bits over a
span of seventeen, so that the run shows the three limits to be sharp; the theorems of section 4
extend them to longer frames. No state
constraint and no symmetry is used. `CHECK_DEADLOCK FALSE` in `serial_ring` and `crc_damage`:
the line may stay silent, and a frame has an end; in `uart_ir` and `uart_late_reply`: a hard
fault stops everything.

**Fairness.** `FairUartSpec` has weak fairness of `UartStep`: RT-Thread always returns to the
highest-priority application thread once its delay has elapsed, and no step of it waits for
anything else. `FairOledSpec` has weak fairness of `OledStep`: the UART thread sleeps in every
iteration, so the display thread gets on. Nothing is assumed of the button thread, which only
runs when pressed. `FairSpec` of `SerialDma` has weak fairness of the handler: an interrupt is
served while its flag is up. Nothing is assumed of the line, the hub, the chip or the user:
`RegistersWhenSilent` says "unless frames that clean the event keep coming", `LightGoesOut`
"once the buttons are left alone", `HomeCurrent` "while the home page stays open".

## 4. Proofs

All theorems hold for every value of the constants that satisfies the named assumptions
(`ButtonAssumption`; `TimeAssumption`, `FlashAssumption`, `HubAssumption`, `ChipAssumption`,
`PinAssumption`, `UiAssumption`; `OledAssumption`; `StoreAssumption`; `SerialAssumption`;
`CrcAssumption`), which TLC evaluates in the runs.

*Buttons* (`ButtonTaskProofs`). `TypeCorrect`, `LongIsReported` and `LongIsReportedOnce` rest on
the inductive invariant `IInv` = `TypeOK` and `HoldInv`. `LongReported` is not inductive: the
code sees only `continue_time`, modulo 2^16, and `have_read`. `HoldInv` ties them to the hold:
`continue_time` is the length of the hold until LONG_PRESS is told, and from then on `have_read`
is set. Bounces and the wrap are included. `ImplementsGesture` adds `CleanHands` (releases of two samples, holds below the wrap) and the invariant `CleanInv`, under
which `continue_time` is exactly the length of the hold; the refinement then maps every sample to
one step of `Gesture`.

*UART* (`UartTaskProofs`, `UartTypeProofs`, `UartSendProofs`).
- `RegistrationIsJustified`: the invariant `LinkInv` says that `connect_monitor` is the silence,
  that the global register event is justified whenever it is up, and that the local copy was
  justified when taken or an answer has come since. `WhoRegisters` shows that only the first
  registration and the 10 s block send one.
- `CallBacksFit`: `FitsInv` adds to `CallBackFits` which call_back each thread has yet to store
  (`PostInv`): while `cut` names a thread, the event in memory is the one whose call_back that
  thread holds, so that its second store completes the pair. The rest of the argument is where
  events come from, and that a tick or a write-back takes `cut` along.
- `UartTypeCorrect`: `TypeOK` is inductive together with `LinkInv`, which bounds
  `connect_monitor`. `WhoWrites` lists the actions that write each part of the state; one lemma
  per part then looks only at its writers. The interesting ranges are the ones the code does not
  check: `addr` and `ctrl` come from frames and are reduced to their C width, `nowTemp` comes from
  any `ctrl`.
- `InfoIsPersisted`: `SaveInv` adds that the flash always holds what `modulePre` says, once
  something has been saved, and that the fields cannot change between the save step and the end
  of the iteration.
- `SendsWhatPagesAsk`: `AskInv` relates the global event, the local copy and the page's last
  wish: until the wish is lost, both events belong to the flow the page started.
- `CommandsReachAC` and `NoCommandTooOften`: `CtrlInv` says that `ctrl_pre` is what was sent last
  unless `unsent`, and that `copies` and `sendCmdCnt` count together. A change of mode keeps it
  because what is sent for `ctrl` depends on the mode (`InMode`): either the command last sent is
  the right one in the new mode too, or it is marked `unsent` until the next sending. The count
  is tied to `sendCmdCnt` in match mode only; a change of mode starts it again.

*Display* (`OledProofs`). `OledInv` is inductive: `TypeOK`; `StackInv`, the depth at which each
page can lie and what the registers of the two threads may hold in the middle of a push or a pop;
`CursorInv`, which bounds the cursor and the ends of the menu together with the value a call_back
has loaded and not yet stored; and `DarkMeansIdle`. `StackFits` and `MenuInBounds` alone are not
inductive: a stale register would put anything back.

*Flash* (`FlashStoreProofs`). The invariant says which half-words of the page already agree with
memory at every position of the write loop, that memory does not change meanwhile, and that the
page keeps what was saved until the next erase. `Durable` is its end, `RestartRestores` carries
it over the power loss.

*Serial* (`SerialDmaProofs`). The invariant places every byte: the ring holds the last bytes
that arrived at their number modulo `bufsz`, `last_index` and the two fifo indices are the
numbers of the bytes taken or indicated, modulo `bufsz`. `Burst < bufsz` makes these unambiguous.

*CRC* (`ModbusCrcProofs`). One turn of the loop is linear in the exclusive or (`BitStepLinear`),
so the receiver's register is the sender's with the register of the damage alone (`Linear`), and
the comparison comes out equal exactly if that register equals the damage of the last two bytes.

The rest follows the register of the damage alone.
- `OddDamageIsNoticed`: the polynomial has an even number of terms, so a turn changes the parity
  of the register exactly when a damaged bit enters (`ParityInv`).
- `BurstIsNoticed`: until the first damaged bit is shifted out it is the lowest bit of the
  register; from then on the register has a bit so high that the rest of a burst of sixteen does
  not reach it (`Front`, `BurstInv`), so it is never cancelled.
- `UpToThreeNoticed`: three bits are an odd number; for two (`PairInv`) the register of the
  first, a turn at a time, never holds one bit alone where the second could cancel it. For that
  the proof lists the 64 registers a single bit goes through in a frame of eight bytes
  (`NeverOneBit`); its condition, `Size <= 8`, covers the longest frame of the hub, the
  registration reply of ten bytes with its CRC.

*Only model-checked*: `OnlyAcceptedFrames`, under `HubWaits`; liveness (`RegistersWhenSilent`, `BlinkEnds`, `LightGoesOut`,
`HomeCurrent`, `FrameDelivered`), which the prover cannot do. For longer frames than the hub's,
`DamageDetected` would need an induction over the period of the polynomial and is left open.

## 5. Plan

1. `UartTask`, `OledTask` and `ButtonTask` in one state space, to replace the assumptions of
   section 2 by a refinement.
2. A module `Registers` for the values of READ_MUTI replies and their length byte.
3. An abstract store that saves in one step, and `FlashStore` proved to implement it, so that the
   single step of `UartTask` rests on a refinement.

## 6. Not modelled

The display driver and fonts, the real-time clock (its only use is commented out), start-up, the
kernel, vendor libraries and board support: `PROJECT.json` has the reason in each case. They are
nearly all of the repository's lines; the application's own code with state is modelled except
for the following. Failure of `rt_malloc` in the hub protocol. Frames longer than `uart1_msg.data`
(100 bytes) and bursts of the size of the DMA ring. `checkResult`, which is only computed for
sending, `crc_32.c`, of which `ReadUniqueId` (main.c:123) uses `crc32_cal` to make the module's
identity, the constant `MyId`, and the register values in replies. The memory behind
`module_info` that `initModuleInfo` reads and clears.
