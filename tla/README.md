# Verification of the embedded Linux device runtime

The repository is an interactive shell for small Linux boards: it runs external
commands with job control, and gives access to devices (UART, I2C, OLED, GPIO,
LED) through builtins. This directory holds TLA+ modules of its core, TLC
configurations, and TLAPS proofs. Paths below are relative to the repository.

## 1. The system

| Component | State | Operations | Where it is hard |
|---|---|---|---|
| Signals and event loop (`src/sig.c`, `src/event.c`, `src/shell.c`) | `pending_events`, event pipe, masks | handler, `event_notify`, `event_drain`, `signal_take_events`, `shell_run`, `shell_cleanup` | a handler interrupts the loop anywhere; the pipe may be full; signals do not queue |
| Job control (`src/job.c`, `src/builtin.c`, `src/terminal.c`, end of `src/executor.c`) | job table, process and wait statuses, terminal group and modes | `job_reap`, `job_cleanup_done`, `job_wait_foreground`, `job_continue`, `fg`, `bg`, `reload`, `exit` | children change state at any moment; two readers of wait statuses; failing terminal |
| Launch (`src/executor.c`) | children, gate, pipes, registration | `execute_single`, `execute_pipeline`, `startup_gate_*`, `rollback_*` | parent and children race; each call may fail half way |
| Shutdown (`src/job.c`) | the job table | `job_shutdown` | stale table, processes that do not react |
| Devices (`src/device.c`, `src/device_manager.c`, `src/device_backend.c`, `src/cmd_device.c`) | `Device` per name, its descriptor | open, close, read, write, led, oled, uart, reload, close in the child | long call sequences, failures in the middle of an open |
| UART protocol (`src/uart_protocol.c`, `src/serial_port.c`, `examples/stm32_uart_protocol`) | request, input queue, firmware line buffer, LED | request with a deadline, feed, handle | late, lost and garbled replies without a transaction number |
| Builtin redirection (`src/dispatcher.c`) | stdin, stdout, their saved copies, stdout's buffer | apply, handler, check, restore | each call may fail half way; stdio holds text back |
| Watchdog (`src/watchdog_device.c`, `tools/watchdog_demo.c`) | descriptor, options, timeout, stop flag | open, set timeout, keepalive loop, magic close | a timer runs against the program; signals; failures with the timer running |
| Input line and parser (`src/shell.c`, `src/parser.c`, `src/command.c`) | line buffer, discarding flag, `$?`, command list, its memory | `shell_read_input`, `shell_dispatch_input`, `tokenize`, `build_command`, `command_free` | Ctrl+C between bytes, lines at every limit, failing allocations |
| Configuration files (`src/device_config.c`, `config/config.c`) | the section being read, the caller's configuration | `device_config_load`, `config_load` | limits of every field, late validation, all or nothing |
| LED and display (`src/led_control.c`, `src/sysfs_io.c`, `src/oled.c`, `src/i2c_bus.c`, builtin `led`) | trigger and brightness; framebuffer, display memory and its address pointer | on, off, trigger; init, refresh, clear, text | a command is several writes, each may fail, with or without effect |
| Monitors, system information, logging, tools | none | read `/proc` and `/sys`, print | not modelled |

Interaction: handlers set a flag and write a byte; the loop reads the flag and
calls the job table, or reads one byte of input and dispatches a command. A
command is a builtin (which may act on the job table, the terminal or the
devices) or a launch. A launched child closes the event pipe and the devices
before it waits at the startup gate. When the loop ends, `shell_cleanup` runs
`job_shutdown`, closes the devices, removes the handlers and closes the pipe.

The shell has one thread. Concurrency comes from signal handlers, child
processes, the terminal's user, and the firmware at the other end of the line.

## 2. Modules

| Module | Models | Extends |
|---|---|---|
| `SignalEvent` | handler, self-pipe, `shell_run`, `shell_cleanup` | |
| `ProcessKernel` | external: processes, groups, `waitpid`, SIGCHLD | |
| `JobControl` | table, reap, foreground, fg, bg, terminal | `ProcessKernel` |
| `AtomicLaunch` | abstract: a job as a whole or nothing | |
| `Launch` | one `execute_single` or `execute_pipeline` | implements `AtomicLaunch` |
| `JobShutdown` | `job_shutdown` | `ProcessKernel` |
| `DeviceManager` | devices, table, device command | |
| `DeviceHardware` | LED and display under the device commands and the builtin `led` | `DeviceManager` |
| `UartLink` | host, serial line, firmware | |
| `BuiltinRedirect` | a builtin with redirection | |
| `Watchdog` | watchdog access layer and `watchdog_demo` | |
| `CommandStream` | abstract: lines, their grammar, the commands executed | |
| `Parser` | tokens and `Command`, as operators | |
| `ShellInput` | line buffer, `tokenize`, `build_command`, dispatch | `Parser`; implements `CommandStream` |
| `ConfigMeaning` | reference: valid files and what they mean | |
| `ConfigFiles` | the two line-by-line loaders | `ConfigMeaning` |
| `SignalEvent_proofs` | theorems about `SignalEvent` and `JobShutdown` | both, TLAPS |
| `Launch_proofs` | theorems about `Launch` and `BuiltinRedirect` | both, TLAPS |
| `JobControl_proofs`, `DeviceHardware_proofs`, `UartLink_proofs`, `Watchdog_proofs`, `ConfigFiles_proofs`, `ShellInput_proofs` | theorems | their module, TLAPS |
| `MC...` | instances for TLC | their module |

### SignalEvent

`pc` is the main program's next step and `hpc` the handler's. While a handler
runs the main program does not move, and `sa_mask` keeps the other signal
pending. `Select`, `DrainRead`, `DrainEmpty`, `TakeBlock`, `TakeRead`,
`TakeClear` and `TakeUnblock` are the single reads and writes of `shell_run`,
`event_drain` and `signal_take_events`; `Masked` is the window between the two
`sigprocmask` calls. What a signal is *for* is kept in `changed` (children whose
state change nobody has collected) and `intr` (a Ctrl+C not acted on), so that a
lost wakeup is a state, not a matter of counting signals. A dispatched command
is one step that may collect children; it may also never return. The `read` that
follows a `select` is taken not to block: a terminal that flushes its input on
Ctrl+C between the two would let the real one wait for the next key.

### JobControl

A job is known by its pgid. The linked list is kept as a set with ids: the list
order is the descending order of `Job.id`. `ProcessKernel` gives each process one
reportable change, which a later one replaces, as Linux does. The foreground path
is split at every call that can fail or be overtaken by a child: `FgHandoff`,
`FgModes`, `FgContinue`, `WaitReports`, `WaitFails`, `Rollback`, `SaveModes`,
`RestorePgrp`, `RestoreModes`, `Finish`, `Fail`. `job_reap` asks the kernel one
process at a time (`ReapOne`). A launch has its outcome at once: that `Launch`
implements `AtomicLaunch` is the reason this is sound. Messages and command texts
are left out. The shell is interactive: the terminal calls that do nothing without
a terminal are not a case of their own.

### Launch

The parent's steps are the calls of `execute_pipeline`; a single command is a
pipeline of one, where the steps and their order are the same. `fds` names the
parent's descriptors of this launch, `writers` the holders of the gate's write
end. Every call may fail, with the early return's own set of descriptors to
close (`Abort`), then the rollback. The parent and each child may be killed at
any step.

`AtomicLaunch` has four variables: the job's entry (absent, partial or whole:
group, table, processes, terminal), whether programs may run, which do, and the
outcome. The mapping takes `sent > 0` for the open gate and `Published` for a
whole entry. A launch may still fail after the gate was opened, when all children
that wait at it have died (EPIPE): then programs that already ran are killed and
collected before the entry goes, which `Withdraw` and `Fail` allow and nothing
more.

### JobShutdown

It starts from every table that `JobControl` can leave: `Recorded`, in
`ProcessKernel` because both modules use it, lists the entries possible for a
process whose last change has or has not been collected. That `JobControl` leaves
no other table is the theorem `ReadyForShutdown`. `stray` are jobs with a
descendant, which is no direct child, alive in the group.

### DeviceManager

`Device` is the C record with the errno and the descriptor of its backend.
Backend calls are abstracted to their result, success or an errno of
`BackendErrors` and those a command can produce itself. `FailedOpen` is an open
that failed: at `open(2)`, in the set-up that follows (`SetUpFails`, with what is
then in local variables), or at an OLED whose bus is open already
(`DisplayFails`); what each takes and what its error path closes are written down
separately. `inherited` holds the descriptors the newest
child still has when it waits at the gate.

### DeviceHardware

The table of `DeviceManager` with the hardware behind LED and OLED devices. There
is one LED and one display, which any devices of the table share, and the builtin
`led` drives the LED past the table. `SysfsWrite` is a write that may or may not
take effect whatever it returns; `Confirmed` is the value read back. A refresh is
a packet that sets the display's window and then data packets (`Take`), each of
which goes to the cell the pointer has reached (`CellAt`, `Overwritten`); a failure
leaves the display with any number of them, and its pointer there. `told` is the
last success reported for each of the two, until a later command makes it void.
The kernel's LED trigger may toggle the LED at any time (`Blink`). The frame has
two cells of one bit; what glyphs look like is any picture.

### UartLink

A line of text is two chunks, of which the second holds the newline. The text is a
word (`Word`) or a word with a number (`Numbered`). That is
enough for partial writes, late replies, lost newlines, and replies that start
with the rest of another one. Each chunk remembers its request in `of`; the bytes
do not, and the code reads `of` nowhere.

Damage may read as anything. The port has no parity (`src/serial_port.c:170`) and
the protocol no checksum: `uart_protocol_request` refuses characters that are not
printable, `validate_reply` what is not the syntax of a reply, and a digit that
changes or gets lost is neither. A damaged chunk is therefore gone, or `Noise`
(which shows), or `Garbled`, with a newline or without. A received line that is one
sent line reads as that (`Whole`, `Source`); one with printable damage, or put
together of pieces, reads as any text of the protocol (`Readings`, `AnyText`), on
both sides. So LED=0 may arrive as LED=1, and a HEARTBEAT without one of its digits
may be accepted by another request. `deceived` is a history variable: the host has
accepted a line that nobody sent so. What an accepted reply is worth then depends
on the line, and `OwnReply` and `LedConfirmed` are stated for the time before, or
after the operator has opened an empty link again; `HeartbeatOwn` is about
undamaged replies to undamaged lines, whether deceived or not.

`operator` belongs to a behaviour: its `RecoverAfter` is the set of failures after
which the operator follows `docs/device_layer.md` (close, let the firmware drain
or restart, open). `set_led` and `get_led` of the firmware may fail, and a
`set_led` that fails may have changed the LED.

### BuiltinRedirect

One builtin command after another, each with any set of redirections. `fd` is
what stdin and stdout refer to, `copies` the saved descriptors. Stdio is modelled
as far as it can put text in the wrong place or lose it: `buf` is what stdout
holds back, `error` its sticky error flag, and a flush that fails drops the
buffer, as the C libraries do. Text is `"old"` or `"new"`, by whether it was
printed before the command. Input and output share the actions `Save`, `OpenFile` and `Dup2`,
with `cur` for the stream.

### Watchdog

`watchdog_demo` from start to end, one action per system call of
`watchdog_device.c`. The timer counts ticks; `Ping` sets it back, `Stops` says
when a close stops it. `nowayout` is a board on which nothing stops it. `late`
counts the ticks the runnable program was held back since the last ping. The
requested timeout does not appear: the driver answers with one of its own
(`Actual`), and that one counts.

### ShellInput, Parser, CommandStream

`ShellInput` reads a byte per action, as `shell_run` does; the interrupt is served
between two of them. At a newline or the end of the input (`Submit`) `tokenize`
takes one action per blank (`SkipSpace`) or token (`PushToken`, `TokenizeFail`),
with `at` for its pointer, and `build_command` one action per token, with its
syntax errors (`SyntaxError`) and a failing allocation at each. Memory is a heap of
blocks (`heap`) and the pointers to them (`ptrs`): `build_command` stores what it
allocates at the field it fills (`Target`, `Allocate`; a field that already has a
block would lose it), and `command_free` walks the list from its head and frees the
fields it finds not NULL (`Freed`, `Free`, which notes a block freed twice or not in
use). A character is a string; `$?` counts as one and every other
name is a letter. NUL and carriage return are kept, as they change the line.

`CommandStream` says what the user may rely on. Its grammar does not scan: where a
token starts, which command and role it has, and which lines are well formed are
each stated by position and by counting. The mapping is the obvious one: a line
being discarded is `TooLong`, and commands execute while the dispatcher has them.
`ImplementsStream` therefore compares two definitions of the language on every
line, in every state the buffer can be in.

### ConfigFiles, ConfigMeaning

A behaviour is one load of one file, whose lines come one by one from a small set;
opening, reading and closing may fail at any point. A line has a kind (blank,
header, field, ...), a key, a value and a length, and may have a NUL or, at the end
of the file, no newline; a value is a number, or a text with its length
(`LineType`). A line of the shell's file is what one `fgets` returns: `strlen`
ends it at a NUL, and a longer line is several (`ShellLineWhole`, `AtEof`).
`ConfigFiles` keeps the code's order: fields are checked as they
come, a section at the next header or at the end, `*list = temporary` at last.
`ConfigMeaning` defines validity and meaning of a file as a whole: a device list
has the `Section` of the `Nth` header at each place. Whether a name,
path or LED name is well formed is given (`GoodNames`, ...).

## 3. Runs

| Run | States | Question |
|---|---|---|
| `signal_loop` | 55,218 | Can a wakeup be lost, or a handler run after the pipe is closed? Is every change collected and every Ctrl+C served? |
| `job_core` | 539,774 | Are foreground terminal, limit and status right in every interleaving, and is every zombie collected? |
| `job_faults` | 1,700,000 | Are table and terminal right, also when processes leave their group and the terminal fails? |
| `launch` | 10,461 | Does a launch implement `AtomicLaunch`, leak nothing, and leave nobody at the gate? |
| `shutdown` | 49,831 | Does `job_shutdown` end, and leave nobody? |
| `shutdown_left_group` | violation | ... with a direct child outside its group? |
| `devices` | 306,080 | Do state, `opened` and descriptors agree after any commands, and are LED and display as reported? |
| `uart` | 2,388,395 | Does an accepted reply answer its own request, with recovery and until damage passes for a reply; what is left without; does a request always return? |
| `builtin_redirect` | 792 | Are streams, descriptors, destination and status right after any failure? |
| `watchdog` | 17,360 | Is the timer fed in time, and stopped at every way out? |
| `command_line` | 1,281,550 | Does the shell execute each line as the grammar reads it, whatever cuts it, and leak nothing? |
| `config_files` | 314,226 | Do the loaders accept exactly the valid files, with their meaning? |

`job_faults` and `devices` use symmetry, as they have no liveness property. The
modules' type invariants document the state and are proved for every module that
describes a component.

Every property has a mutant: a changed definition with which TLC must find the
property violated. They are the definitions marked "Seeded bug" and are used by
nothing else.

### Bounds

* `SignalEvent`: two children and a pipe of two bytes read one at a time, so that
  the pipe fills, drops a byte and takes several reads to drain; five signals are
  enough for one to arrive in each of two rounds of the loop while others wait.
  The proofs have no bound.
* `JobControl`: two processes form a pipeline or two jobs. A process is used
  once, so behaviours end; the limit is 1 or 2, so it is reached and lowered.
  The proofs have no bound.
* `Launch`: four commands with `MAX_PIPELINE` 3, so that the limit is hit after
  children exist. The proofs have no bound.
* `JobShutdown`: a pipeline of two and a single command, two retries (50 in the
  code; only "some" and "the last" matter). The proofs take any table and number.
* `DeviceHardware`: two names, two descriptors, one hard and one soft error. Two
  devices show whether one disturbs the other, and may share the LED or the
  display. Two cells are enough for a frame that is half old or shifted. The
  proofs take any number of names, descriptors and cells.
* `UartLink`: three requests and two damaged chunks for the operator who recovers,
  two and one for the one who does not: a reply that comes late needs the request
  it belongs to and the one it meets; the third shows that the confusion does not
  last. The proofs have no bound.
* `ShellInput`: lines of up to six characters with four different ones in a
  behaviour (five keyboards cover every pair of operators that can meet), five
  tokens, three characters in a token and two arguments, so that every limit is
  reached inside a line that fits. A behaviour goes on over any number of lines.
  The proofs have no bound.
* `ConfigFiles`: files of up to seven lines, long enough for a section with all its
  fields and for a third header where two are allowed; each set of lines is built
  around one group of fields with values at and one beyond their limits, or around
NULs, missing newlines and lines that fill the buffer. Buffer
  sizes are the code's; `IntMax` and `UIntMax` only have to be larger than every
  baud rate. The proofs take files of any length and every size.
* `BuiltinRedirect`: none; the state is finite.
* `Watchdog`: two ticks in a second and a delay of one, so that signals and delays
  fall inside a sleep; timeouts of one to three seconds, of which the shortest is
  too short to be served; one or three rounds. The proofs have no bound.

### Fairness

* `SignalEvent`: weak fairness of the kernel's delivery, the handler, the loop
  body and of a `select` whose pipe is readable. Nothing obliges anybody to type
  or a command to return; the properties except a command that runs for ever.
* `JobControl`: weak fairness of the shell's own steps, and strong fairness of
  serving the event pipe at the prompt: each round of `shell_run` looks at the
  pipe before it reads the next byte, so commands cannot overtake it for ever.
* `Launch`: the scheduler runs parent and children.
* `JobShutdown`: only the shell; no process has to end by itself.
* `Watchdog`: the scheduler runs the program and time passes.
* `UartLink`: the clock and the host's reads. The port need not become writable
  and the firmware need not answer.

### What the runs show

All properties hold except in `shutdown_left_group`. `job_shutdown` signals
process groups only and then waits for each direct child without bound; a child
that has left its group is never signalled and the shell does not end, while
`docs/module.md` promises TERM, a bounded wait, KILL and collection.

`StaleOnlyUntilReap` needed an exception for the same reason: `job_continue`
counts a process outside the group as running although SIGCONT did not reach it.

The watchdog is stopped at every way out of `watchdog_demo`, a failed open and a
signal at any moment included, except when the magic character or the close
fails, which is reported, or on a board whose timer does not stop
(`docs/board_runtime_hardware.md` leaves this confirmation open). A timeout that
is longer than a sleep of one second and the delays of a round is served; one of
one second is not, as the loop sleeps for that long.

`docs/device_layer.md` asks for recovery after a timeout. With damage on the line
this is not enough: after EPROTO or EMSGSIZE the rest of the line is still on its
way, and an operator with `RecoverAfter = {"ETIMEDOUT", "EIO"}` meets the reply of
an earlier request with one damaged chunk, without any deception. The careful
operator of `uart` therefore recovers after every failure. No recovery helps
against a damaged line that passes for a reply: the request succeeds, and the
properties say what holds until then.

A Ctrl+C inside an over-long line ends the discarding, and what follows is a line
of its own. `CommandStream` states this (`Interrupt`), as the user's keystroke
separates the two; no part typed before it is ever executed. In the device
commands a byte that is not UTF-8 is an error like any other: the text before it
stays in the framebuffer, and the display is in ERROR until it is closed, because
EILSEQ is not among the soft errors of `device_result`.

## 4. Proofs

`tlapm` checks the proof modules to the last leaf. Every invariant, action property
and refinement of the runs is proved for every value of the constants; only
liveness is left to TLC. The theorems assume only the named assumptions on the constants:
capacities, sizes and bounds are natural numbers (positive where the code has a
positive one), the placeholders are no processes, descriptors or errnos, the jobs
of `JobShutdown` partition the processes (`MembersAssumption`), the lines of a
file are lines (`LinesAssumption`), a typed character is one byte
(`KeyboardsAssumption`), and `int` holds every baud rate
(`SizesAssumption`). TLC checked each inductive invariant on the instances of the
runs before it was proved.

**SignalEvent_proofs.** `NeverSleepsOnWork` speaks of a sleeping shell and is not
inductive. `NothingLost` follows the work on its way: each changed child and each
Ctrl+C has its signal pending, in the handler, in `pending_events` with the loop
certain to look again (`Awake`), or already taken and ahead in the loop.
`TakeAtomic` says that `signal_take_events` is not interrupted between reading and
clearing the flags, and `ExitOrder` that handlers go before the pipe. The key case
is `DrainEmpty`: bytes are gone, flags may be set, and the loop goes on to read
them. Theorems: `TypeCorrect`, `NoLostWakeup`, `PipeOutlivesHandlers`.

The second part of the module is about `job_shutdown`, which follows this loop.
DONE means collected (`CollectedOK`), and once the last loop has begun each process
is DONE or still to be asked for (`ShutdownControl`). `todo` is taken from the
table and not from the kernel, so the table must be right about DONE and may be
wrong about everything else. Theorems: `ChildrenCollected`, `DescendantsKilled`.
Of `ShutdownReturns` the part that is not about fairness is proved too. Each step
of `job_shutdown` lowers the bound `Ahead` on the steps before its last loop or
takes one process off that loop's list (`ShutdownAdvances`). In that loop
`waitpid` blocks only on a child outside its job's group, because SIGKILL has been
sent to all the groups that are not DONE (`StayedOK`, `OnlyLeaversBlock`):
`shutdown_left_group` shows the one way in which the shutdown can hang.

**JobControl_proofs.** The invariant adds to the types: the jobs are disjoint and
have leader and last process (`TableOK`); DONE only for collected processes
(`DoneOK`); every child is in a job (`Owned`); what holds at each step of a
command (`ControlOK`) and who has the terminal there (`TerminalOK`); a wrong entry
has its correction in the kernel (`ReportOK`); a collected process has the status
it ended with (`CollectedOK`). `ReportOK` carries the argument: whoever consumes a
report stores it, and `job_continue` may guess because the kernel then holds a
"continued". Theorems: `TypeCorrect`, `ChildrenInTable`, `TableCatchesUp`,
`PromptTerminal`, `ForegroundTerminal`, `LastProcessDecides`.

`StatusesUpToDate` adds that the stored status of a job is the one its processes
give. `JobLimit` rests on it: only a launch adds an active job, after it has
counted them; the counting uses the library's theorems about finite sets.
`ReadyForShutdown` composes two modules: at the top of the loop, the only place
`shell_run` ends at, the table is one of those `JobShutdown` starts from.

**Launch_proofs.** The invariant is a table of what holds at each step: children
forked (`CountOK`), descriptors open (`FdsOK`), children born in pipeline order
and in the group (`BirthOK`, `GroupOK`), what is registered and who has the
terminal (`TableOK`), and the gate (`GateOK`: no byte before the job is whole, no
child past it without one, nobody alive when the job is undone). `BytesOK` counts:
the children that need a byte are no more than those unsent and those in the gate;
`NobodyLeftAtGate` is its last case. Refinement (`LaunchRefinement`): a step before
`Release` is a stutter or a `Prepare`, the first byte is `OpenGate`, an `Exec` is
`Run`, the death of a child that runs is `End`. With the gate open, the rollback is
`Withdraw` and `Fail`, which are allowed only when no program runs: `GateOK` says
that `kill` leaves nobody alive before the entry goes.

The second part is about the command that needs no launch, a builtin with its
redirections. Its invariant says at each step of `dispatcher_command` what the two
streams refer to, which copies and files are open, and where the text held back in
stdout's buffer would go; a failed flush shows in the sticky error flag until the
status is decided. Theorems: `StreamsAreRestored`, `TextInRightPlace`,
`OkIsWritten`.

**DeviceHardware_proofs.** First about `DeviceManager`: for each device, `opened`,
state, errno and descriptor agree (`DevOK`), and all descriptors are accounted for.
`ErrorUntilClose` follows step by step. `HardwareRefinement` shows that the board
adds nothing to what the table does, so all this holds with the hardware too.
`LampInv` and `ScreenInv` then add the types of the hardware. For the LED the case
that matters is a write that reports success without an effect: what is read back
decides. For the display it is the refresh after an interrupted one: the first
packet sets the pointer, and then data packet `i` goes to cell `i`.

**UartLink_proofs.** `OwnReply` is about the end of a request; what makes it true
is what is on the line before. With an operator who recovers after every failure
and has not been deceived since (`CarefulOK`), the link is empty between requests
(`QuietLine`). During one it holds chunks of this request, the reply's only when
the request's are gone and none after the end of the reply, among damage and the
answers to damage, which are of no request (`RequestLine`). Nothing else on the line
misreports the LED (`LedOK`). A line received as it was sent ends with the newline
of the reply, and leaves the link empty again. `HeartbeatOwn` needs no careful
operator: a heartbeat that was not damaged carries its number.
Behind `RequestReturns` are `DeadlineIsFinal` (no step puts the deadline off, and
once it has passed a request only returns, without a reply) and `RepliesInTime`.

**Watchdog_proofs.** `TimerOK` bounds what the timer has lost since the last ping
by the ticks slept and the ticks held back, at each step of the loop; `PromptOK`
does the same for the time since a stop request. `MagicOK` says that on the way to
the close the magic character has been written, has failed, or is not supported.

**ConfigFiles_proofs.** The loaders see one line at a time, the reference the whole
file. The invariant says that the lines read so far mean what the temporary holds:
for a device file there are positions of the headers, in order, of which each
section is the one in the list and all but the last are valid (`SectionsAt`). The
lemmas say what one more line does: it leaves every earlier section as it was, and
changes one key of the last section or begins a new one. `SectionChecked` is the
equivalence of `config_section_validate`, after the checks made field by field,
with the reference, and `LineAccepted` that of `config_load`'s test of one `fgets`,
by string length, last character and `feof`. That there is a last line for each
key, and the number of headers before one, would be inductions over the file; the
first is carried in the invariant, the second obtained by counting positions.
`RefusalIsFinal` says that stopping at the first refused line is right: no
continuation of it is valid (`Promising` is what every beginning of a valid file
has).

**ShellInput_proofs.** The grammar of `CommandStream` is stated by position and by
counting, the code scans. The invariant says how far the code has come: while
`tokenize` runs, nothing is open at `at` (`Boundary`: what is there is blank or
starts a token of the grammar) and the list holds the tokens of all starts before
it (`Lexed`, `LexOK`); while `build_command` runs, each command is what the grammar
says of the tokens taken so far (`CommandTo`), every token so far stands where it
may, and the limits are kept (`Built`, `BuildOK`). One lemma per kind of token
carries this over a step (`TokenStep`; `WordBuilt`, `InputBuilt`, `OutputBuilt`,
`PipeBuilt`, `BackgroundBuilt`); another set says that each refusal of the code is
one of the grammar's (`LexFail`, `NotAllowed`, `TooManyArgs`, `TwoFiles`,
`PipeAfterNothing`, `EmptyCommand`), and `AllRead` that what is complete and not
refused is the grammar's reading. `VisibleLine` and `SameTokens` account for the
carriage return and the NUL. The grammar numbers positions with `InOrder`; that
there is a position of every rank, and a first NUL, are the module's only
inductions, made as least-element arguments (`LeastNatural`) from the library's
`WFMin`, which takes a set and no operator. The memory has an invariant of its own
(`MemoryInv`): every block in use has exactly one pointer, in a field that the list
reaches (`Reached`), and is older than the token to come. A step that allocates
fills a field the list did not reach (`Allocated`), no step makes the list reach
less (`ReachedStays`), and so every way out frees each block once (`AllFreed`).
Theorems: `InputInvariance`, `InputTypes`,
`NothingIsLost`, `ShellInputImplementsStream`.

### Only model-checked

Every liveness property (`ChangesCollected`, `InterruptsServed`,
`ZombiesCollected`, `GateAlwaysEnds`, `ShutdownReturns`, `RequestReturns`,
`DemoEnds`): the prover handles neither fairness nor ENABLED. For
`ShutdownReturns` and `RequestReturns` the steps that the argument needs are
theorems, and only the conclusion from the fairness of those steps is not.

## 5. Plan

1. Done: all modules above, and the proofs of every safety property.
2. Possible further proofs: action properties behind the other liveness that TLC
   checks, as those of `job_shutdown` and of the deadline (the bytes still to be
   sent at the gate of a launch, the work still in the signal path).
3. Possible further models: `terminal_init`, the ioctls of GPIO lines, an event
   channel "every raised signal is served" as an abstraction of `SignalEvent`.

## 6. Not modelled

Monitors, system information, `hwinfo`, `dtinfo`, logging and the tools read and
print and keep no state the shell depends on: one call has no second step another
actor could get between that anything remembers. Fonts are data. GPIO lines and
the I2C transfers of `device read` and `device write` appear by their results and
descriptors. `terminal_init` runs once before the loop; its only loop stops the
shell itself until its user puts it in the foreground. Search of configuration
files in the environment and next to the program (`shell_context_set_*_path`) is
a matter of strings. `cd`, `pwd` and `help` act on the working directory or print.
Pid reuse is left out: a pid names one process in a behaviour. Memory exhaustion
appears as a failing call. No other program uses the LED, the display or the
serial port.
