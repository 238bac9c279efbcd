# A verification project for SMD_Control_Server

SMDServer is a small C daemon between TCP clients and a stepper-motor drive (an SMD, reached over
Modbus/TCP). A client connects, writes textual commands (`connect,…`, `jogCW,…`, `holdMove`, …), and is
answered with texts (`COMMAND_SUCCESS`, `INVALID_INPUT`, …). This directory holds TLA+ modules
translated from the C sources, TLC configurations that check them on small instances, and TLAPS proofs
about them for every instance. `PROJECT.json` lists runs, mutants (faulty variants of single definitions
that each property must refute), the map from definitions to source lines, hazards, findings, theorems.

File names below are relative to `src/SMD_Control_Server/src/`.

## 1. Inventory of the system

| Component | State it keeps | Operations | Interacts with |
|---|---|---|---|
| Session loop, dispatch, answers (`SMD_SocketOps.c`) | listening socket, the one client socket, read buffer | `open_server_socket` (accept/read loop), `parse_socket_input`, `parse_smd_response_to_client_input`, `write_to_client` | calls the SMD_* functions, reads and sets the global flags |
| Globals (`SMD_Constants.c/.h`) | `SMD_CONNECTED`, `smd_command_connection`, `DEVICE_IP`, `STATUS_MANUAL_MODE_ENABLE`, `STATUS_WAITING_FOR_ASSEMBLED_MOVE`, `STATUS_TYPE_ASSEMBLED_MOVE` | — | shared by the main thread, the manual-mode controller and every Modbus thread, without a lock |
| Motor commands (`SMD_Motor_Commands.c`) | — | one function per command: parameter limits, register and value tables | `send_modbus_command` |
| Modbus writes (`SMD_Modbus.c`) | per call: a thread, a connection, a result | create and join a thread; connect, write the registers one after the other, close; on errno 9 send a hold or stop again | the drive |
| Modbus reads (`SMD_Modbus.c`) | per call: the same | read ten registers, write them to the client | the drive, the client socket |
| Manual mode (`_manual_mode_controller`) | a detached thread; `current_speed`, `current_jog_direction` | poll `/tmp/smd_manual_values`, jog, hold, turn | the flag, `DEVICE_IP`, the drive, the Arduino's file |
| Assembled moves (`SMD_program_assembled_move`, `SMD_run_assembled_move`, …) | flag and type of the uploaded move; drive memory | first block, then segment by segment with a handshake over status bits | drive, client ("segment accepted" lines) |
| Conversions (`SMD_Utilities.c`) | errno, which is never cleared | words of an integer, status word as bits, tokens | all parsers |
| Start-up (`main.c`) | — | options, daemon, signals | starts the loop |
| Arduino sketch, Python example | outside the process | write the value file; a sample client | — |

What makes each hard, and what makes it correct:

* **Session loop.** One read may return two inputs, the client may leave at any point or drop off the network
  without a word, a write may raise SIGPIPE, a connect may fail half-way. Correct: flags and handle agree; nothing is closed or freed twice;
  no client inherits a drive; every mode is left in a controlled way; every request is answered.
* **Modbus writes.** Two threads' writes interleave register by register; single writes fail; retries nest.
  Correct: a result means what it says; a motion starts only with its own parameters; calls return.
* **Manual mode.** The controller tests its flag once per turn and then acts on it for up to half a second.
  Correct: the motor reverses only through a stop, zero stops it, controllers end, closed means stopped.
* **Assembled moves.** A segment is handed over by a handshake over one status bit, whose reads and writes
  can fail unnoticed; an upload breaks off after any segment. Correct: what is accepted is in the drive, whole
  and in order; the client is told of no segment the drive lacks; no other move than the one uploaded is run.
* **Conversions.** Boundaries at 16 bits, at 1000, at the sign; a stale errno; reports built in a buffer whose
  own length is the limit. Correct: the drive gets legal values, and the client's own where they fit.

`PROJECT.json` lists 40 hazards, each at its line and with the properties that would see it go wrong, or with the reason
why none does.

## 2. Modules

| Module | Models | Proofs |
|---|---|---|
| `SessionProtocol` | abstract: the modes of a session, the orders each mode may give, the mode that may follow | |
| `SessionServer` | the main thread: loop, dispatch, flags, command connection, answers | `SessionServerProofs` |
| `MotorOrder` | abstract: a command acts on the motor at one moment between its call and its return, or not at all | |
| `ModbusSend` | `send_modbus_command` and its thread, register by register | `ModbusSendProofs` |
| `ManualMode` | controllers and the main thread's commands around them; instantiates `ModbusSend` | `ManualModeProofs` |
| `MoveUpload` | abstract: an upload loads the segments one by one and accepts all of them, or fails | |
| `AssembledMove` | `SMD_program_assembled_move`, the JSON parser's array, the loop over the segments, the drive's side of the handshake; builds on `Conversions` | `AssembledMoveProofs` |
| `Conversions` | operators: `strtol` and errno, the cut to 16 bits, words, the status word as binary digits, the lengths of a report's fields | `ConversionsProofs` |
| `CommandValues` | from the numbers of a request to the registers of its command, from registers to the report; builds on `Conversions` | `CommandValuesProofs` |
| `MCSessionServer`, `MCModbusSend`, `MCManualMode`, `MCAssembledMove`, `MCCommandValues` | finite instances | |

**SessionServer.** `pc` is where the main thread is: `accept()`, `read()`, in `parse_socket_input`
(`execute`), in the answering ifs (`reply`), or dead. `stream` is what the client wrote and the server has
not read; `buf` what one `read()` returned, one or several inputs in one piece. An input keeps what the
parser tells inputs apart by: leading command, number of commas, whether numbers are within limits, the
drive named or the type of move. The dispatch is kept as the code has it: `jog` and `home` are searched for
anywhere in the buffer (`strstr`), the others at its start (`strncmp`), commas are counted over the whole
buffer. The commands that check parameters and send one Modbus command are one action, `MoveMotor`, over the
table `MotorCommand` (tokens required, order, return codes); every other branch is an action of its own.
A Modbus command is one step with either result; `orders` collects those sent for the current request.
`misuse` records a double close, a double free, or a command to a freed address by the main thread.
`cl = "closed"` is the descriptor the server itself closed after INVALID_INPUT and goes on reading.

`peer` is the client at the other end. It may leave (`ClientLeaves`: its kernel says so, and `read()` returns) or
vanish (`ClientVanishes`: nobody says anything). The server's socket has neither keepalive nor a timeout
(`SMD_SocketOps.c:48-57`), so a vanished client is noticed only if something written to it stays unacknowledged
(`"overdue"`) until the kernel gives up (`TransportGivesUp`); with nothing under way (`"lost"`), `read()` blocks for ever.

`connect` drops the last byte of the address whatever it is (`SMD_SocketOps.c:179`), so without a newline at its
end it names another drive or none (`Named`).

`profile` is, per drive (external), the assembled move it holds, or `"partial"` for one begun and not finished.
The first block of `programAssembledMove` begins a move (`BeginsMove`), unless it is lost or the drive is still in the
programming of the move before and goes on with that; a refusal of the JSON that follows does not undo it,
and `STATUS_TYPE_ASSEMBLED_MOVE` is not touched by either. An upload that is accepted leaves the move that
was asked for, and with `UploadMayLie` possibly another: `AssembledMove` says when that happens.
`AssembledMove` has the reasons for the deaths in `ExecuteKills`, too.

**ModbusSend.** `frame[s]` is the call that sender `s` is in: the point reached, the command, the next write,
how many writes have reached the drive, and the depth of retries. `drive` (external, not in the repository)
is what the source takes it for: registers, and a motion that starts with the parameters the registers hold
when a command bit is set in register 1024. The acceleration, deceleration and jerk registers are one,
`ramp`; the two words of the speed are one. A retry (errno 9) is a nested call whose own frames only wait.

**MotorOrder.** What a caller may think of a command. `Carried` says what the motor does after it: the
direction asked for, the parameters asked for if nothing was lost and one sender alone moves the motor, a rest
after a stop. `Answer` says what may be told: success only when the moment has passed, failure only when nothing
was sent or of a stop. The stages of an order are read off the calls of `ModbusSend` by its operator `Order`.

**ManualMode.** The controller's loop is cut where another thread can act: test of the flag, read of the
file, each Modbus step, the half-second sleep. Of the main thread it keeps start, stop, reset, connect and
disconnect, and (for a client that is not patient) jog and hold. Modbus steps are those of `ModbusSend`.
There is one drive in this module, reconnects reach the same one.

**AssembledMove.** One action per Modbus command or read of the upload: the first block and its read, the
parser, and per segment its write, the read before it is confirmed, 2048, the read after. `segments` is the C
array: an element is filled at the place its item has in the JSON object, and "type" is an item too. `drive`
(external) is the programming state the source takes it for: bit 9 is set while it waits for a segment, 6144
in register 1024 makes it take what the parameter registers hold at that moment, 2048 sets the bit again. The
write of each parameter may be lost on its own and is then reported as a success (`SMD_Modbus.c:239`): `Losable` are the
parameters this may happen to, and `Written` is what the registers hold after the others have arrived. What a
command in between left in them is `"garbage"`. A lost write of the configuration word in 1025 shows as a segment
the drive refuses or as the first block lost. `ClientGone` is a client that leaves while the server waits for its
move. `bit9` is what index 6 of the binary text showed,
computed by `Conversions` from a status word with any of the other bits. `Faults` selects what may go
wrong; the list with its meanings stands at the constant. Every failure ends in `Fail`, which resets the drive's
errors unless that fails too. What comes after a move is uploaded (runs, disconnects) is in `SessionServer`, for which
the upload is one step.

**Conversions, CommandValues.** A number of the protocol is `high * 2^16 + low`, or no number, or one beyond
64 bits; what matters to `strtol` and to the two casts behind it is kept, the digits are not. `Serve` is a
whole request: tokens in the order the parser assigns them, the cut to `int16_t` of those that are assigned to one, the
limits, the register table of the command, 16 bits on the wire. `errno` is the only thing that passes from one
request to the next. `Received` is how a drive reads the registers back, `Documented` where
`SMD_Constants.h` says each parameter stands; neither is taken from the code that is checked. `WholeFields`
follows the ten `strncat` calls of a report, each with the length of the buffer so far as its limit.

## 3. Runs

| Run | What it asks | Bounds |
|---|---|---|
| `session` | Types; handle and flags agree; no misuse; modes exclude each other and need the drive; nobody inherits a drive; manual mode ends in a stop; `SessionProtocol` is implemented; the drive is released after every client that leaves or whose loss shows; every request is answered or is one of the two silences | two drives (and an address without one, and a connect without a newline), every command well-formed, with a wrong number of parameters or out of range, five kinds of move, uploads that break off; one input at a time |
| `session_pipelined` | A rejected client gets nothing more executed; no run is sent to a drive with another move than the one uploaded; what a client that left had written is worked off and the drive closed | one drive, 12 inputs, two in a read; uploads do not break off, and what they accept is loaded |
| `modbus_send` | What FAILED means; a motion has the parameters asked for; `MotorOrder` is implemented; calls return | a mover and a stopper, two parameter sets, all faults, two retries |
| `manual_mode` | What a controller believes of the motor is so; reversal through a stop; zero stops; with the flag down a controller never begins another turn | one controller, two directions and speeds, no faults, patient client |
| `manual_hasty` | Controllers end once the flag stays down; a motor at rest behind a closed connection is moved only by a controller left over from manual mode | two controllers, failing threads and errno 9, a client that restarts and jogs at once |
| `command_values` | Legal values reach the drive, and the client's own; a stale errno moves nothing; reports are whole | every command; each parameter in turn at and beyond every limit, at the edges of 16 and 32 bits, no number, an overflow; reports with the shortest and longest fields |
| `assembled_move` | Array, drive, client and loop stay in step; `MoveUpload` is implemented | an array of three, all moves of 0 to 4 segments of two kinds, two parameters of which the write of one may be lost, types known, unknown and missing, broken JSON, three sets of other status bits, the tolerated faults |

Why the bounds are enough. The server's state depends on at most the current buffer: longer streams
repeat what two inputs already show, since only the first input and the presence of a jog or home matter.
Two drives are what it takes for state of one to be mistaken for state of the other; the safety theorems hold
for any number anyway. Two senders are all the server has in one mode (main thread and controller).
`MaxThreads` bounds how many threads a chain of retries gets before `pthread_create` fails: every
waiting thread keeps its stack and its place, so the chain does end, and two retries show nesting; the
theorems hold for every value. An array of three segments instead of sixteen has a first, a middle and a last
element, and moves exactly at and beyond its limit. `Controllers` bounds the threads alive at one time; a start beyond it is
not taken.

Conditions that properties rest on, and are named there:

* `Patient` (run `manual_mode`): manual mode is started with the motor at rest and no earlier controller
  alive. The code does not ensure it, so a run without it is also there (`manual_hasty`).
* `RunsNoOtherMove` holds, and is proved, for one drive (`OneDrive`), uploads that do not break off
  (`UploadMayFail = FALSE`) and acceptances that are true (`UploadMayLie = FALSE`). `RunsNoOtherMove`
  does not exclude a move that was
  begun and not finished: after an upload, a second `programAssembledMove` and a JSON that is refused, the type
  still noted lets a run be sent to a drive whose new profile is empty. What such a drive does is not in the
  repository. Of the properties of `session` only `TypeOK` looks at `profile`, and its theorem holds for either value of
  `UploadMayLie`; the run has FALSE.
* `ClientGoneDriveReleased` is about clients that leave, or vanish with something written to them. Of a client that
  vanishes in silence it is false (`peer = "lost"` in its premise, and the run fails): see section 5.
* `MotionIsAsAsked` is proved for one moving sender (`OneMover`); two can mix their parameters.
* `ZeroStops`, `ReversesThroughStop` and the second half of `ControllerKnowsMotion` assume no lost writes: a hold
  that is lost but reported done (finding `doc_modbus_success`) leaves the motor turning. The last two are
  proved for `Patient` and `Faults = {}`. `OnlyStraysMove` and `ControllersRunDown` need neither.

* `AssembledMove!Conditions`: the faults are among `Tolerated`, the JSON names its type behind the segments
  (`TypeLast`, as `SMD_Motor_Commands.h:227` shows it), and no upload starts in a drive that is still in the one
  before (`Again`). Not tolerated are a 2048 that is lost but reported done, a status word that was not read before a
  segment is confirmed, and a manual-mode controller that is still in its last turn: each lets an upload be
  accepted with a segment missing or with a profile that was begun before. Without `TypeLast` even a faultless upload
  is wrong (finding `doc_upload`).
* A lost parameter write is no such condition: `UploadState`, `ToldIsLoaded` and `ImplementsUpload` are stated of
  `Views`, which see the parameters outside `Losable`. So whatever set of writes may be lost, number and order of the
  segments are right, and every other parameter is; with `Losable = {}` they speak of whole segments. That an accepted
  move is loaded as it was asked for (`AcceptedMeansLoaded`) needs `Losable = {}`, which the network does not
  ensure: see section 5.
* `StatusAssumption`: every status word has one of bits 12 to 15. The code reads index 6 of a text without leading
  zeros ("bit 9 is 6 for our purposes", `SMD_Motor_Commands.c:588`); for smaller words another bit would be there.
* `ReportIsWhole` excludes an input report whose first word is below 16 and whose second is above 4095.
* `StaleErrnoMovesNothing` excludes the two presets, which let -1 through.

Fairness. `SessionServer!FairSpec`: the main thread keeps running (weak fairness of its own steps; its calls
return, which `CallsReturn` shows of writes), and `TransportGivesUp`: TCP retransmits only so often before a read or write
reports an error. Nothing is assumed of clients, nor of `Accept`. The read of a client that vanished in silence is not
enabled, so fairness says nothing of it. The session runs have `CHECK_DEADLOCK FALSE` for that state alone: the
server then waits for ever.
`ModbusSend`: a created thread runs and its connects and writes end (libmodbus has time-outs). `ManualMode`:
the threads run; client and Arduino need not do anything.

Taken of the drive, from the source's use and comments: motion starts at the command word and goes on until
held or stopped; 0 or 1024 written to register 1024 does not stop it; closing the command connection stops
it (`SMD_Motor_Commands.h:33`).

## 4. What is proved

Safety is proved for every set of drives, inputs, senders, moves, requests and parameters and for every bound.

* `SessionServerProofs`. The inductive invariant is `Inv` = `TypeOK` ∧ `ConnectionHandle` ∧ `NoMisuse` ∧
  `ModesNeedTheDrive` ∧ `NoClientNoDrive` ∧ `RequestState`. `TypeOK` is inductive by itself, the safety parts lean on each other: `NoMisuse`
  needs `ConnectionHandle` (a close is harmless because `SMD_CONNECTED`, not the dangling pointer, decides);
  `ModesNeedTheDrive` needs `RequestState` (the wait for a move begins in the answer, one step after
  the order, and the drive must still be connected and in no other mode then). `TypeStep` is proved first, then `SafetyStep`,
  one step per action. From `Inv` follow each part as a theorem, the action properties
  `ManualModeEndsInAStop` and `RejectedClientIsCutOff`, and `ServerImplementsProtocol`, the refinement of
  `SessionProtocol` under `Mode`: `InitRefines`, and `StepRefines` with one step per action.
  `RunIsOfNoOtherMove`, for one drive, uploads that do not break off and acceptances that are true, needs one
  invariant more, `NotedIsLoaded`: the one drive there is holds the move of the type noted, or one begun
  since, or nothing has been uploaded yet; beside the upload, the step to look at is `ProgramAssembledMove`, which
  replaces the move and keeps the note. `HoldMoveHolds`, for a client that waits for its answer, needs that then a read returns one
  input (`OneInput`). `RequestsAreNotPassedOver` is the part of `RequestsAreAnswered` that needs no fairness: the
  loop goes on to the next request only after an answer or after one of the two silences; it rests on every request
  having a code by the time it is answered (`HasCode`).
  `GoneClientIsFinished` is the part of `ClientGoneDriveReleased` that needs no fairness: once the client has left,
  every step of the main thread lowers `WorkLeft` (three steps for each unread input, and those of the request in hand),
  and the session that ends leaves no drive connected. It needs that a client is at the other end only
  while it is served (`PeerAtWork`).
* `ModbusSendProofs`. `Inv` = `TypeOK` ∧ `CallState` ∧ `FailedMeansUntouched`. `CallState` is the
  strengthening: only stops are retried, nothing is written before the connection is there, and the
  registers written by a sole mover keep its values, since no other sender's command writes them. With it,
  and the lemma `MoveIsLast` (the command word is the last write of a motion command),
  `SoleMoverMovesAsAsked` follows. `SuccessIsWholeUnlessLost` says that a lost write is the only fault
  that makes a success untrue. `CallsAreFinite` is the part of `CallsReturn` that needs no fairness: every step of a
  call, whether it fails or not, makes the natural number `StepsLeft` smaller, which is at most 9 * `MaxThreads` + 8.
  `CallsImplementMotorOrder` is the refinement of `MotorOrder` under `Order`. It rests on the table of
  writes: a command that acts on the motor does so with its last write and no other (`LastWriteActs`), so
  that all steps before it are stutters, and on `CallShape`: a call that has to connect again starts from its
  first write, with nothing sent. `SessionServer` takes
  a command for one step; for the commands modelled here this is what justifies it.

* `ManualModeProofs` cites the lemmas of `ModbusSendProofs` for the calls of the controllers and of the main
  thread, by an instance of that module. Two invariants, one inside the other:
  `Typed`, inductive for any client and all faults, says what the types are, that the calls keep their own
  invariant, and that a controller that waits for a call waits for the one its local variables ask for.
  `Knowing`, for a patient client and no faults, adds that there is one controller (`SoleController`) and
  that it knows the motor (`MotionKnown`): the motor stands or turns in `current_jog_direction`, and stands once a hold
  is over. `TurnsThroughStop` follows from it, since the controller writes its new direction only behind its
  hold. A hold may find no drive to connect to, and then the controller goes on as after one that was
  done; that does no harm because the disconnection has stopped the motor, which is why `HoldDone` speaks of the
  connection too. For the end of manual mode `Typed` and `BetweenRequests` (a command of the main thread is
  served only while the drive is connected) are enough, so `MotorRestsButForStrays` and `ControllersHaveOneTurnLeft` hold
  of any client and all faults. The second is the part of `ControllersEnd` that needs no fairness; the first says how far the
  promise that `doc_closed_means_stopped` refutes can be relied on.
* `ConversionsProofs`. `WordsRecombine`: the two words of every number up to ±32767999 make it up again, so also at
  0, at multiples of 1000 and below zero; `SpeedWordsAreWords`: the splitting written out in two other places
  is the same function; `StatusBits`: under `StatusAssumption` index 6 is bit 9, and the text takes 17 bytes.
* `CommandValuesProofs`. `LegalValues` and `WhatWasAsked` hold for all texts a client may write. The properties
  are inductive as they stand, since `Serve` sets everything they speak of; the work is in the data:
  one lemma per command says what the last write to each register is (`LastWrite`), and with `WordsRecombine`
  and the limits `ReceivedIsValue` follows: the drive reads back the very value of the C variable.
  `FittingValue` links that to the client's number. `StaleErrno` rests on the last parameter of every command but
  the presets having no legal negative value (`LastParameter`). `TypeCorrect` covers the registers written.
  `ReportsAreWhole` holds for all registers: a report has ten fields, so that the recursive functions that
  follow it are unfolded field by field (`ReportFieldByField`), and no induction is needed.
* `AssembledMoveProofs`, under `Conditions`, for any set `Losable`. The inductive invariant is `TypeOK` ∧ `UploadState`. `UploadState`
  says more than the promise that an accepted move is loaded: in each turn the drive holds exactly the
  segments before it, its own one since bit 9 was seen clear, and the drive waits for a segment exactly when the
  loop is about to send one. Without the last part neither a refused segment nor the reading of bit 9 can be
  followed through the loop. From it follow `AcceptedIsLoaded`, `ToldTheTruth` and the refinement
  `UploadImplementsMoveUpload`, step by step. `StatusBits` connects the word read with the drive's state.

Of the promises of section 5 that a run refutes, three are proved under a condition that the run lacks:
`HoldMoveHolds` (a client that waits for its answers), `SuccessIsWholeUnlessLost` (no lost write) and `AcceptedIsLoaded`
(`Conditions` and `Losable = {}`, for `doc_upload`). The conditions are sufficient; that
each is needed is shown only where a run drops it alone. `TypeIsWhatIsLoaded` has no such theorem: a second
`programAssembledMove` alone makes it false. `RunIsOfNoOtherMove` and `MotorRestsButForStrays` are weaker promises that do hold
where `doc_move_type` and `doc_closed_means_stopped` refute the stronger ones.

Assumptions are the named ASSUMEs of the modules (`SessionAssumption`, `InputAssumption`,
`ModbusAssumption`, `ManualAssumption`, `ParameterAssumption`, `MoveAssumption`, `StatusAssumption`, `RequestAssumption`,
`ReportAssumption`); TLC evaluates them in the runs. The conditions of single theorems stand in their ASSUME or
in the property they prove.

Model-checked only are the properties that need fairness, which TLAPS does not reason about here: `ZeroStops`,
`ControllersEnd`, `CallsReturn`, `ClientGoneDriveReleased`, `RequestsAreAnswered`. Every other property of a passing
run is a theorem.

## 5. Where code and documentation disagree

Five runs are expected to end in a violation; each property states what a comment promises.

| Run | Promise | What the code does |
|---|---|---|
| `doc_modbus_success` | `SMD_Constants.h:342`, success means Modbus returned success | `SMD_Modbus.c:239` overwrites the FAILED of a lost write |
| `doc_move_type` | `SMD_Constants.h:405`, type of the move loaded in the drive | noted before the upload, reset neither by its failure, nor by the first block of a new move, nor by a disconnect |
| `doc_hold_move` | `SMD_Constants.h:117`, holdMove stops motion | with a jog behind it in one read, the jog is executed instead |
| `doc_closed_means_stopped` | `SMD_Motor_Commands.h:33`, all motion stops when the connection is lost | a controller past its test jogs afterwards, over a connection of its own |
| `doc_upload` | `SMD_Constants.h:289`, an accepted profile is in the drive | `SMD_Motor_Commands.c:515` fills the array by position in the JSON object, `"type"` included, and reads it by number of segments: with the type in front, an element never filled is sent and the last segment dropped |

Further differences, seen while reading and modelling, without a run of their own:

* Lost clients: `SMD_SocketOps.c:107` closes the command connection "if the client disconnects", but of a client that
  vanishes in silence `read()` (`:96`) never returns, as the socket has no keepalive and no timeout (`:48-57`): the
  drive stays connected, in manual mode or with a motion going. `ClientVanishes` models it.
* Lost parameters: by `SMD_Modbus.c:239`, the line of `doc_modbus_success`, a segment one of whose parameter writes
  failed is still handed over and confirmed, and `ASSEMBLED_MOVE_ACCEPTED` (`SMD_Constants.h:289`) is answered for a
  move that was not asked for. `AcceptedMeansLoaded` fails with `Losable = {"speed"}`, documented moves and no other fault.
* Answers: `resetErrors` and `relativeMove` answer `COMMAND_SUCCESS`, not `RESET_ERRORS_SUCCESS`
  (`SMD_Constants.h:141`) or `REL_MOVE_COMPLETE` (`:114`); a read that fails is still `HANDLED_BY_CLIENT`
  ("data is being sent back", `:346`) and nothing is sent (`SMD_Modbus.c:353`).
* Numbers: limits such as "1-5000" (`:66`) are tested after a cut to 16 bits, 65537 passes for 1;
  `presetMotorPosition,abc` presets the position to -1; the idle current may be 0 and the motor current must be 10 to
  34 where the documentation has 1 to 100 and 1 to 34; the jerk may be 0, as may the speed.
* Reports: two fields run together when the first words are short and long (`SMD_Modbus.c:331` against
  `SMD_Constants.h:144`).
* Assembled moves: the documented JSON (`SMD_Constants.h:258-283`) has no `"type"`, without which the process
  ends; `SMD_Motor_Commands.h:225` puts the drive back into its normal state after the upload, but register
  1024 stays at 2048; `SMD_Utilities.h:69` asks for a buffer of the binary length and one more, and
  `SMD_Motor_Commands.c:711` passes one of 16 for 16 digits.
* Manual mode: the direction is 1=CW in `SMD_Constants.h:395` and 0=CW in the code; the comment at
  `SMD_Motor_Commands.c:825` announces a sleep of 10 ms before a turn, the code sleeps 500 ms; the flag is up
  although its thread could not be created (`SMD_Constants.h:404`).

## 6. What is not modelled, and why

* Start-up, options, daemon, build files: sequential set-up without state the rest depends on (except that
  SIGPIPE keeps its default action, which `SessionServer` has).
* Texts and logs beyond which answer is given and how long a report's fields are; the Python client (any
  client is allowed); the Arduino sketch beyond the file it leaves.
* How a stream is cut into reads. To the server a fragment is an input of its own, and cut and meaningless inputs are
  in the sets of inputs; that a client's one input may become two such is not.
* Descriptor numbers. After INVALID_INPUT the server closes the client's descriptor and goes on reading
  from its number; `SessionServer` takes that read to fail. A Modbus thread that was given the number in between is
  not modelled.
* What a C program does after writing beyond an array: the 17th byte of a status text is a hazard without a
  model; a move with too many items may end the process in `AssembledMove`.
* Two threads' data race on the flags is modelled as the order of their atomic steps; flags are single
  bytes and are polled across library calls.

## 7. Plan

Done: `SessionProtocol`, `SessionServer`, `MotorOrder`, `ModbusSend`, `ManualMode`, `MoveUpload`, `AssembledMove`,
`Conversions`, `CommandValues`, with proofs of all of them. Next, by importance:

1. A descriptor table for the double close after INVALID_INPUT, with reads that return part of an input.
2. A run for `SMD_Constants.h:404` ("enabled and is active") against a thread that could not be created.

## 8. Running

    tlc -workers 2 -config SessionServer.cfg MCSessionServer.tla
    tlc -workers 2 -config SessionPipelined.cfg MCSessionServer.tla
    tlc -workers 2 -config ModbusSend.cfg MCModbusSend.tla
    tlc -workers 2 -config ManualMode.cfg MCManualMode.tla
    tlc -workers 2 -config ManualHasty.cfg MCManualMode.tla
    tlc -workers 2 -config CommandValues.cfg MCCommandValues.tla
    tlc -workers 2 -config AssembledMove.cfg MCAssembledMove.tla
    tlapm SessionServerProofs.tla
    tlapm ModbusSendProofs.tla
    tlapm ManualModeProofs.tla
    tlapm ConversionsProofs.tla
    tlapm CommandValuesProofs.tla
    tlapm AssembledMoveProofs.tla

The largest run (`session_pipelined`) has about nine million states. It and `session`, whose liveness graph has
about a million, take two to three minutes, `manual_hasty` a minute or two.
