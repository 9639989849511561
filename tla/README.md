# Verification of the SecondLibraries car

TLA+ models, TLC runs and TLAPS proofs for the C++ libraries in this repository
that drive the second car of a two-car course: an ATmega2560 core board, an FPGA
board on its external bus, a camera, a speech module and the sensors and lamps of
the course. The code is single threaded; what makes it hard is everything it talks
to without a protocol to speak of: an FPGA that reads and writes shared memory
while the processor does, wheels that turn while a counter is read in two halves,
a radio that loses, repeats and delays, and timers that fall behind.

`PROJECT.json` lists components, runs, mutants, the map from definitions to source
lines, findings, hazards and theorems. This file says how they belong together.

## 1. The system

### Components

| part | code | state | operations |
|---|---|---|---|
| key scanner | `CoreKEY` | four debounce counters `Key_cnt`, the latch `Key_Rt` | `Initialization`, `Kwhile` (called in the sketch's loop), `Check`, `Run` |
| timer | `Metro` | `previous_millis`, `interval_millis` | constructor, `interval`, `check`, `reset` |
| shared memory | `ExtSRAMInterface` | none of its own; the mailboxes in the FPGA | `ExMem_Read/Write`, `ExMem_JudgeWrite` (write and read back), `ExMem_Write_Bytes`, `ExMem_Read_Bytes` |
| command checks | `Command` | the table of commands | `Judgment` (check byte) |
| moves | `DCMotor` | PWM registers; the code disc and line sensors in the FPGA | `Go`, `Back`, `TurnLeft`, `TurnRight`, `CarTrack`, `CarTrack_MP`, `Back_Black_Line`, `ClearCodeDisc`, `Stop` |
| tasks | `Drive` | `roadWay`, report and reply buffers, `gz_res` | `Task_Out`, `Analyze_Handle`, `Auto_Drive`, lamp, garage, gate and display dialogues, combined moves |
| camera | `Openmv` | `DataOTABuf` | QR, traffic light and figure recognition over 0x6038 |
| speech | `Syn7318` | response and result buffers | status query, synthesis, recognition over a serial line |
| sensors and outputs | `BH1750`, `Infrare`, `Ultrasonic`, `CoreLED`, `CoreBeep`, `LED`, `BEEP` | pins and registers | one reading or one signal each |

The other nineteen directories are Arduino libraries vendored with these as they are
distributed: Ethernet, WiFi with its lwIP firmware, TFT, SD, Servo and so on. They hold
most of the repository's lines; nothing in the car's own libraries calls them.

### How they interact

* **Calls.** `Drive` calls everything; `DCMotor::CarTrack` calls back into `Drive`
  (`FX_Correct`), which calls `DCMotor` again.
* **Shared memory with the FPGA.** Outgoing mailboxes at 0x6008 (commands) and
  0x6080 (reports to the main car), incoming ones at 0x6100 (radio) and 0x6038
  (camera). Byte 0 of each is its flag: not zero means a message is there. The code
  disc and the line sensors are bytes of the same memory that change by themselves.
* **The radio.** The main car sends commands and frames of a road; the second car
  answers "busy" and "done", six times each. Commands to the garages go out and their
  replies come in the same way, the replies into the main car's mailbox.
* **The camera** is asked by a command and answers into its own mailbox, with a type but
  no number. **The speech module** is on a serial line, `Serial2`, with its own
  acknowledgements and results.
* **Time.** `millis()` and `Metro` timers, polled. Ticks missed in a long task come
  back to back afterwards.

### What is hard

The hazards, each at its line, are in `PROJECT.json`. In short: the order of byte
writes against an FPGA that may look at any time; waits that give up after a second;
torn reads of the code disc; a disc cleared late; copies of a command that must not
run twice; reports and answers without numbers, which may be about an older request;
waits without end; crossings, cards and terrains that must be told apart from rows of
sensors; wrap of the millisecond counter; debounce with a backlog of ticks; and a lamp
whose level is guessed from light readings.

### What makes each part correct

* key scanner: noise never makes a call, a press makes exactly one, the latch falls
  when and only when all keys are released;
* timer: the unsigned difference is the true time, whatever wraps;
* outgoing mailbox: a channel that delivers messages whole, in order and at least
  once as long as the FPGA is prompt, and a bounded damage when it is not;
* moves: bounds on the distance really travelled, a truthful result, an end;
* command loop: a command is run once, "done" is never believed early, and a message
  is lost unread in two places only;
* lamp: its level is found, and it is left where the caller wants it;
* QR code: the result is the expression's value by the usual precedence, and no number is
  cut off in the 16 bits it is built in or the byte it is stored in;
* driving: the line is not lost, a leg ends at the next crossing and nowhere else, a turn
  ends at the next line, and every call returns;
* map: a move of `CheckRoad` ends where it was asked to, with the heading it returns;
* camera: an answer is the present request's, or an older one's in the case stated;
* garages: success means that the lift is there;
* speech: a word was spoken during the call that returns it, and calls return, but for two waits.

## 2. Modules

| module | models | state to code |
|---|---|---|
| `Metro` | `Metro.cpp` | `now` = `millis()`, `previous`, `interval`; `debt` is the true time since the last due tick (history) |
| `CoreKEY` | `CoreKEY.cpp` without its timer | `Key_cnt`, `Key_Rt`; `pins` is the port; `lows`, `highs`, `held`, `called` record what the properties speak of |
| `KeyPad` | `Kwhile()` as it is, EXTENDS the two | `Poll` is one call of `Kwhile()` |
| `Channel` | nothing in the code: the promise of an outgoing mailbox | |
| `Mailbox` | `ExMem_Write_Bytes`, `ExMem_JudgeWrite`, the loop of `ClearCodeDisc`, byte by byte, against the FPGA | `mem` the mailbox, `pc`/`cur`/`i` the writer, `out` what the FPGA took; `late`, `owed` history |
| `Motion` | `Go` and `Back` over a distance with `ClearCodeDisc` and `Get_Distance` | `pc`, `why`, `tries` the place in the code ("decide" between a reading and what comes of it, "wait" the `delay(10)` after it), `half` the byte read first, `moved` the pulses since the last step, `disc`, `pending`, `due` the FPGA and the timer |
| `TaskOut` | `Task_Out` with its read, task, reports and wipe, and the main car | `inbox` 0x6100, `msg` = `zigbee_data`, `j` the report loops, `roads` = which frames of `roadWay` are stored, `report` 0x6080, `k`/`phase` the main car; `crossed` history |
| `Lamp` | `T_G`, `Auto_T_G`, `Get_Light` | `i`, `ght`, `gz_res`, `target` as in the code; `level` the lamp |
| `QRCode` | `QR_Data_Handle`, `judge`, `Check` | the code's local variables; `shown` the expression in the QR code |
| `Steering` | `Track_Adjust`, `SpeedCtr`, `SpeedSetOne`: operators only | a sensor byte is the set of its dark (zero) bits; the result is what the two bridges' inputs get |
| `Track` | `CarTrack`, `CarTrack_MP`, `Back_Black_Line`, `TurnLeft`, `TurnRight`, and `ZH_XJ`, `ZW`, `FX_Correct` as lists of calls | `mp` = `mp_value`, `err` = `track_err_cont`, `disc` the code disc in cells of 50 pulses, `todo`/`fix` the calls that are left; `x`, `at`, `width`, `slant`, `leg` car and course; `looked` says whose turn it is; `passed` history |
| `Road` | `CheckRoad`: operators only | a row of the table is a record: move asked for, turn, ride, new heading |
| `Camera` | the requests of `Openmv` and their callers in `Analyze_Handle` | `step` the place, `box` 0x6038, `due` what the camera owes, `figures` = `rgb_data` as reported; `owing` history |
| `Garage` | `C_K_Set_Layer`, `C_K_Get_Layer`, `Get_ZigBee_Data`, `Clear_ZigBee_Data` | `goes` the place, `reply` = `ZigBee_command`, `inbox` 0x6100, `sent`/`back` the radio, `floor`/`goal` the lifts; `foreign`, `gaveup` history |
| `Dialogue` | EXTENDS the two: the car's one thread calls camera or garages | |
| `Speech` | `SYN7318.cpp` against the module | `pc`/`kind` the place and the call, `rx` the receive buffer (one record per frame), `cmds` the line out, `mode`/`owes` the module; `late`, `reset`, `missed` history |
| `MC_*` | instances for TLC | |
| `*_proofs` | theorems | |

One step of a model is one access to something another party can change (a byte of
shared memory, the disc, the timer, the lamp); local computation between two such
accesses belongs to the step. Operators that stand directly before a definition and
are called its variants are plausible slips in that code; no specification uses them.
`PROJECT.json` pairs each checked property with one that breaks it.

What is not in the repository is modelled from how the code uses it: the FPGA takes a
message once its flag is up, copies the whole body and takes the flag down (that is
what the wait for the flag in `ExMem_Write_Bytes` relies on), and leaves an incoming
mailbox alone while its flag is up; moving wheels make at most one pulse between
two accesses to the bus (microseconds, where a pulse takes milliseconds), but up to `Lag` in
a `delay(10)` and in what `Back()` prints between a reading and its decision; `Lag` is any number with
`2 * Lag + 2 < Base`, below 127 on the board, where a few pulses fit; stopped wheels stand at once, so that
what they roll on in the `delay(50)` after `Stop()` comes on top of the bounds; a QR message is the expression followed by its tail byte, which
ends the text; the main car repeats a command until it hears "busy" and goes on when
it hears "done" (which is what six reports of each kind and the wipe of the inbox are
there for).

* **Course** (`Track`): a leg is a sequence of cells of 50 pulses, line, white or black, between
  the bars of two crossings, which are three cells wide. A bar may be met at an angle, so that one end of a row sees it first.
  All four branches leave a crossing. The first nine cells of a leg are plain line; what else a leg may be is `IsLeg`, an
  assumption on the constant `Courses`. A terrain begins within 500 pulses of where
  `CarTrack` started, which is the distance the code looks for one. Between two looks the
  car moves by at most one cell and half a sensor sideways, a line bends no faster than that, and turns
  take less than the ten seconds after which they are given up. Straight moves over a
  distance (`GO_MP`, 150 pulses to look again, the way over the terrain) are on a straight line and exact: `Motion` says
  how exact. A car on the bar of a crossing is asked to track, not to turn.
* **Camera**: it answers a request once, late, or never, and leaves a full mailbox alone.
* **Garages**: commands and replies keep their order and may be lost; a lift moves one
  layer at a time, on the commands it hears only.
* **Speech module**: it acknowledges each command, answers a query by "idle" or "busy", says
  "idle" when it has spoken and sends one result for what it heard; a new command takes over. A frame
  takes longer on the line than a turn of the waiting loops, so that frames pile up only
  where nobody looks.

## 3. Runs

| run | shows | bounds |
|---|---|---|
| `keypad` | noise immunity, one call per press, release, debounce time, presses reported, with a timer that falls behind and a counter that wraps | 2 keys (priority, overlap and two presses need two), active above 2, cap 4 (so that a counter falls through an active value, as 12 to 9 does), interval 2 in a clock of 7 ms so that wraps fall inside an interval, backlog up to 5 ms |
| `mailbox_late` | with waits that may give up: torn and lost messages only under a late write; every write returns | 3 messages so that the torn mixture, the owed and the written message can differ; 4 bytes: flag, two inner bytes and a last one |
| `mailbox_prompt` | without: implements `Channel`; what is being written is delivered | the same |
| `mailbox_clear` | a finding: the clear command is taken with a check byte of another message | one other message |
| `motion` | bounds on the distance, truthful return, moves end | a disc of two base-7 digits (49 values) for two bytes, margins 5 and 4 in the place of 20 and 6 (a margin below the digit's range, as 20 is below 256, so that torn readings fall on both sides of it), up to two pulses in a delay or a print (the most for this disc, and enough that the pulses of one wait are not those of one access), two looks at the timer for five; two distances, one that a torn poll may hide until the next (`OvershootBound` is reached in both directions) and one that a torn poll may take for reached a whole low digit early (`NeverFarShort` is reached); both directions; an initial disc of 0, just past a carry, and -1 |
| `taskout` | commands run once, "done" is true, messages are lost unread in two places only, all commands get done | 3 commands (a report of one can be taken for the next but one), a first and a last frame, 2 reports of each kind, doubled for routes that report themselves |
| `lamp` | the level is found and the lamp ends as asked | all four levels, a sensor that may be dead, and readings of the top level above, equal to and below the next |
| `lamp_auto` | a finding: dimmed twice after a false drop | the same |
| `qr` | the result of an expression is right, and no number is cut off on the way | all 27 patterns of signs over numbers of one and two digits whose products exceed 16 bits and whose differences go below zero; what local variables hold at first is 0 or 42 |
| `track` | the line is never lost; `CarTrack` ends at the next crossing, `FX_Correct` at the bar behind, a turn at the next line; every call returns | four legs: plain, a card at its end, a card half way, and a terrain between two white strips; lines of one and two sensors; the three ways of meeting a bar; all modes of `ZH_XJ`, turns and corrections in any order, for ever |
| `dialogue` | whose answer is taken, and what a garage's success is worth | three requests of any kind to the camera (an old answer, the present request and one in between), two calls to two garages with three layers (so that a lift passes a layer on the way) and two commands and two replies on the air; one message of the main car that names a layer |
| `speech` | words are fresh; two waits never end, everything else returns | three calls of any kind: one that gives up, one in which its result comes, and one after it |

### Fairness

* `KeyPad`: weak fairness of `Poll` and of `Millisecond`: the sketch's loop calls
  `Kwhile()` and time passes. No finger is obliged to move.
* `Mailbox`: weak fairness of each step of the writer and of the FPGA's `Take`; strong
  fairness of `GiveUp` and `JudgeGiveUp`, because the second measured with `millis()`
  comes to its end however the loop's other exit flickers. `WriteReturns` needs no
  prompt FPGA; `EventuallyDelivered` is checked without timeouts.
* `Motion`: weak fairness of the processor, the tick, the clear command and the
  wheels. `MoveEnds` never uses the 30-second timeout: `DecideToStop` may give up at any
  poll but is only forced together with the other steps of the processor, whose
  alternative is to wait for the next poll. A clear command that is never carried out and a wheel that is blocked are
  excluded by the fairness of `ClearDisc` and `Pulse`: with either the move does not end.
* `TaskOut`: weak fairness of `Task_Out`; strong fairness of the two ends of the
  read-back loop (a second ends); strong fairness of sending and hearing, which is what
  repetition on a lossy radio is worth; and noise that stops some time, since a message
  that comes at every wrong moment can keep every command out. `AllDone` allows for the
  one case the protocol has no answer to: all reports of one "done" lost.
* `Track`: weak fairness of the code, and strong fairness of moves, since turning wheels move the car
  sooner or later; how often the code looks in between is free.
* `Speech`: weak fairness of the sketch's steps (`GiveUp` among them, a second passes), of the
  module's acknowledgements and answers, of the end of its speaking and of its result.
  Nobody is obliged to call. `CallReturns` names the two waits that do not end, and
  `HangsForGood` says that they never do.
* `Dialogue`, `Lamp` and `QRCode` have no liveness property: all their waits end by time, or
  nobody promises an answer; `Ended` is about the step that ends the lamp's dialogue.

## 4. Proofs

TLAPS checks the following for every value of the constants that satisfies the
modules' assumptions.

* **`KeyPad_proofs`** - scanner, timer and the two together. The scanner's invariant `IInv` adds to
  the type how the counter of a key relates to its history: `lows` counts at least the counter while
  it rises, an active counter can only have come from more than `Hold` low samples, a key at rest has
  counter zero, and the held key is active and latched. With it: `NoiseImmunity`,
  `LatchTracksActivity`, and `NoCallWhileHeld` as an action property. None is
  inductive alone: a scan that drops the latch is only known to be right because
  the counters say that all keys are released. `ClockIsExact` follows from the bound on `debt` that
  keeps the owner less than a turn late; the arithmetic is two lemmas on `%`. The composition
  implements both parts (`PadScans`, `PadTicks`), so their safety properties
  carry over (`PadIsSafe`); `DebounceTime` needs both at once: an on-time sample is an interval after the one before,
  so that the age of a key is at least what its counter says less the timer's debt (`Timed`).
* **`Mailbox_proofs`** - the invariant `MailboxInv`: the bytes above the one being written
  are the message's (`Filled`), a byte judged right has settled (`Settles`), the flag is down
  while the body is written unless the write is late (`FlagDown`), and an owed message
  is in the mailbox (`OwedIsThere`). From it `TornOnlyIfLate` and `LostOnlyIfLate` (assuming
  no message is written flag first), and, assuming also that no wait runs out, that every
  step of the mailbox is a step or a stutter of `Channel` (`ChannelRefinement`): the
  message under way is the one written, or the one whose flag is up.
* **`TaskOut_proofs`** - the invariant `TaskInv`: the command in the inbox, in the copy and under
  way can only be the main car's present one or one that was run already, reports are true
  of it, and after "busy" was heard no further copy can arrive. From it `OncePerCommand`,
  `DoneMeansRun` and `UnreadLosses`, for any number of commands, frames and
  reports. The last rests on `ReadOrCrossed`: until its flag is down, what is in the inbox is what was read, unless it came
  during the reading back, which may be after a command, a frame or junk alike. (That it is lost then is the hazard at line 131 of
  `ExtSRAMInterface.cpp`, and is in the model.)

* **`Dialogue_proofs`** - the garage's invariant `GarageInv` is about
  what is under way between car and lift: commands to one garage all carry the layer of the
  present call (`SetsFit`), a query comes after a command to go there (`SetsInOrder`), a
  reply of the layer asked for was sent when the lift was there with nowhere else to go (`RepliesFit`, `Settled`), the
  buffer holds only what was read in this call (`ReadSoFar`), and once told the lift is going to the layer (`Told`).
  Each holds only as long as no call has given up; `SuccessIsTrue` needs all of them, since the reply that
  is read may be the answer to any earlier query of the call. For the camera `OnlyMine` says that
  with nothing owed at the call's beginning what is in the mailbox after the clear, and
  what is due, is this call's. Both carry over to the composition:
  `AnswerIsMineAlways`, `SuccessIsTrueAlways` and `DialogueTypeCorrect`, for any numbers of calls, garages, layers and
  messages on the air.
  The same module proves what is made of a QR code's text. `EvaluateIsRight`: numbers that differ by a multiple
  of four stay so under `judge()` (`JudgeIsAlike`, which needs W to be a multiple of four), and for each set of places of '*' the code's
  order, done exactly, is the usual precedence (`OrderIsRight`). `TextFacts` says where each
  character stands. The invariant `QRInv` says that what was read is stored as it is in the expression and
  that `num_flag` and `value` tell how much of the number under way was read (`UnderWay`). From these
  `QRTypeOK`, which says that the reductions to 16 and to 8 bits change nothing before the evaluation, and `ResultIsRight`, for all numbers up to 99, where the run has four of them.
* **`Motion_proofs`** - the invariant `MotionInv`: which way the wheels turn at each place of the code (`Power`), what `reading`, `half`
  and `disc` can be there (`Places`), and, while the wheels turn, that the disc is the distance travelled less what was gone when it was
  cleared (`Clearing`, `OnTheWay`, `AtRest`). The heart of it is the torn reading: two bytes read a pulse apart
  are right, or too small by a whole low byte when the carry falls between them in one order, or too large by as much in
  the other. A poll that goes on past the distance was torn, and so the disc was next to a carry (`Past`, `Behind`); since the pulses
  until the next poll are counted (`Counted`) and fewer than a byte's range (`2 * Lag + 2 < Base`), the next one is not torn, so that
  a move runs on for two polls at most. From it `NeverFarShort`, `OvershootBound` and `HonestReturn` for every disc of two digits, every
  margin and every distance that is polled (`Polled`). The proof corrected the model's property: with a wider margin
  than the code has, `NeverFarShort` held in the run of `Back()` also where the disc is cleared under way, and with the code's it does not:
  a reading torn between 0 and 65535 is 255, which is taken for a long way. `NeverFarShort` now says so.
* **`Speech_proofs`** - the invariant `SpeechInv`: which results may be in the receive buffer, on the line and in the module at each place of the dialogue.
  Results carry the number of the call they belong to (`Numbers`); while nothing was late, the module, its
  commands and its answers are in step with the place of the code (`InStep`, by stages), so that nothing of an older call is left
  when a call begins to wait for its word (`Awaited`). `WordIsFresh` needs all of it. `HangsForGood` needs that after a reset, or
  after a result thrown away, nothing the code waits for is left or will come (`Missed`, `AfterReset`). For any number of calls.
* **`Lamp_proofs`** - the invariant `LampInv`: as long as the readings rise, `i` presses have taken the lamp `i` levels up from where it
  was (`Climbing`), which the first drop ends at the top level, or one press before it (`fooled`). From it `LevelIsFound` and
  `Ended`, for any number of levels from three up to 127 (the code adds in a `uint8_t`).
* **`Track_proofs`** - the drive on the course. First what the rows see: as long as the line's middle is in a band of `6 - width..8 + width`
  half sensors (`Band`), each test of the code is one about the cells the two rows are on (`Views`,
  `Specials`), whatever the angle at which a bar is met. The table of `Track_Adjust`, worked out at each of the speeds
  it is called with, moves every picture of the band back towards the middle by as much as a bend takes it away, and does
  nothing at any other picture (`Steers`). The invariant `TrackInv` then has, for
  each place in the code, where on the leg the car can be (`Places`): for instance that a car on its way to a terrain has gone less
  than 500 pulses and has `track_err_cont` set once it is past the white cells (`ToTerrain`), that a correction begins each of its
  parts at one of two cells (`Aligning`), and in a turn how the line's place and the lines that passed go together
  (`TurningOff`, `TurningTo`); and that the calls still to come are in an order in which no
  turn is asked for on a bar (`InOrder`). None of the four properties is inductive without it: a turn
  ends at the next line only if it began off the bar, where `StepAhead` leaves the car, which depends on where `CarTrack` ended, and that on
  pictures that are only known while the line is in its band. From it `TrackTypeOK`, `NeverLost`,
  `EndsAtCrossing` and `TurnsToNextLine`, for every set of legs `IsLeg` describes - any length, any cards after the first
  nine cells, terrains of any length the car lands behind - where the run has four.
  `IsLeg` is what the code takes for granted of a course that is not in the repository; the numbers in it are the code's (the
  500 pulses and `GO_D_X` after a terrain). The proof corrected the model's assumption on the line's width, which allowed four sensors:
  the table has no rows for the pictures of a line wider than two, and TLC finds `NeverLost`
  violated with them. `Widths` is now at most two.
  The same module proves `CheckRoad`'s table: each row turns to the heading it returns and moves
  where it was asked to, no two rows answer one question (`ArrivesAlways`), every move along
  a street but half a leg back has a row (`AnswersAlways`), and headings stay right along a chain of
  moves (`MovesChain`).

Every invariant that a run checks is proved. Only model-checked: liveness everywhere (`PressIsReported`, `WriteReturns`,
`EventuallyDelivered`, `MoveEnds`, `AllDone`, `TrackReturns`, `CallReturns`), which is out of this prover's reach.

## 5. Findings

* `mailbox_clear`: `ClearCodeDisc()` writes its command flag first and does not wait for the
  mailbox to be free, so that the FPGA may take it with the bytes, and the check byte, of the
  command before.
* `lamp_auto`: after a false drop at the top level `Auto_T_G()` dims twice.

* The delay before the disc is read, set with `interval(20)`, is not one: the timer runs freely, and ticks
  missed in the move before are due at once. `OvershootBound` (run `motion`) allows for it, besides the pulses of two polls with their delays.
* `QueryStatus()` resets a busy module and then waits for an answer to a query it does not
  repeat (run `speech`, `HangsForGood`).
* `CommandSendCheckACK()` does not know two results of the table in the same file; three calls
  then wait for ever (the same property).
* `C_K_Get_Layer()` returns nothing on a reply that is not the garage's, and its caller compares what it
  gets (run `dialogue`; `SuccessIsTrue` has to except such calls).
* By reading: `Start_ASR_WEN()` stores its dictionary one place too far; `R_X` turns left.

Smaller things seen on the way: `CarTrack` takes the outermost pictures for a crossing before `Track_Adjust`
sees them, so that the last rows of its table are out of reach there; the default of `ZH_XJ`
tracks over as many pulses as the mode's number; `Z_X_Led(0x10)` ends with all lamps off.

## 6. Not modelled, and the plan

Not modelled:

* the vendored libraries, which the car does not use: some 220 000 lines, next to which
  the car's own code is small;
* pin and register writes, PWM, carrier timing, I2C and pulse-width measurements: pure input and output;
* messages to gate, displays and rotating lamps, which are written and forgotten, and the
  page turns of `QR_Distinguish`;
* the routes of `Auto_Drive`: fixed lists of the calls `Track` makes in any order, the timed half
  turns of `ZW`, and the moves into the garage;
* mode 2 of `FX_Correct` and `FX_Correct_back`, which nothing calls;
* the contents of reports, and check bytes beyond whether they fit (`Command.Judgment`);
* the sketch and the main car, which are not in the repository.

Next: an abstract drive from crossing to crossing (at a crossing, heading, under way) that `Track` and `CheckRoad` together implement,
so that a route of `Auto_Drive` can be checked as a path on the map.
