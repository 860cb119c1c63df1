--------------------------- MODULE DeviceManager ---------------------------
(***************************************************************************)
(* The devices of the runtime: the life cycle of src/device.c, the table   *)
(* of src/device_manager.c, the resources of the backends                  *)
(* (src/device_backend.c) and the device command (src/cmd_device.c).       *)
(*                                                                         *)
(* Every call of a backend may succeed or fail with an errno.  The bytes   *)
(* of a UART request are in module UartLink; here it has its outcome.      *)
(***************************************************************************)
EXTENDS Integers

CONSTANTS
    Name,           \* names a device file may use
    Fd, NoFd,       \* descriptor numbers, and none (-1)
    BackendErrors   \* errno values a backend may fail with

None == "none"      \* errno 0

ASSUME NoFdAssumption == NoFd \notin Fd
ASSUME ErrnoAssumption == BackendErrors \subseteq STRING \ {None}

VARIABLES
    devices,        \* DeviceManager: the configured names and their Device
    fds,            \* descriptors of devices the shell process has open
    inherited,      \* those the latest child still has when it waits at the gate
    up              \* shell_context_destroy has not run

vars == <<devices, fds, inherited, up>>

\* Errors that leave an opened device usable.
SoftErrors == {"EAGAIN", "EINTR", "ETIMEDOUT", "EINVAL", "ENOTSUP", "EPROTO",
               "EMSGSIZE", "EBUSY"}

Errno == SoftErrors \cup {"EACCES", "EBADF", "EIO", "EILSEQ", None} \cup BackendErrors

Types  == {"uart", "i2c", "oled", "gpio", "led"}
States == {"CLOSED", "OPEN", "ERROR", "DISABLED"}
Config == [type : Types, enabled : BOOLEAN]
Device == [type : Types, enabled : BOOLEAN, state : States, opened : BOOLEAN,
           last_errno : Errno, fd : Fd \cup {NoFd}]

TypeOK ==
    /\ DOMAIN devices \subseteq Name
    /\ devices \in [DOMAIN devices -> Device]
    /\ fds \subseteq Fd /\ inherited \subseteq Fd
    /\ up \in BOOLEAN

---------------------------------------------------------------------------
(* device.c on one Device.                                                 *)

DeviceInit(c) ==
    [type |-> c.type, enabled |-> c.enabled,
     state |-> IF c.enabled THEN "CLOSED" ELSE "DISABLED",
     opened |-> FALSE, last_errno |-> None, fd |-> NoFd]

DeviceFailure(dev, err) == [dev EXCEPT !.last_errno = err]

\* Seeded bug: success means open, after a close too.
DeviceResult_open(dev, err) ==
    IF err = None THEN [dev EXCEPT !.last_errno = None, !.state = "OPEN"]
    ELSE [dev EXCEPT !.last_errno = err,
                     !.state = IF err \in SoftErrors THEN @ ELSE "ERROR"]

DeviceResult(dev, err) ==
    IF err = None
      THEN [dev EXCEPT !.last_errno = None,
                       !.state = IF dev.opened THEN "OPEN" ELSE "CLOSED"]
      ELSE [dev EXCEPT !.last_errno = err,
                       !.state = IF err \in SoftErrors THEN @ ELSE "ERROR"]

\* device_ready: the errno it fails with.
ReadyError(dev) ==
    CASE ~dev.enabled -> "EACCES"
      [] dev.enabled /\ ~dev.opened -> "EBADF"
      [] dev.enabled /\ dev.opened /\ dev.state = "ERROR" ->
           IF dev.last_errno # None THEN dev.last_errno ELSE "EIO"
      [] OTHER -> None

\* device_read, device_write, device_control: err is the backend's result.
Access(dev, err) ==
    IF ReadyError(dev) # None THEN DeviceFailure(dev, ReadyError(dev))
                              ELSE DeviceResult(dev, err)

---------------------------------------------------------------------------
(* The table.  Each action is a device command, or a call of the shell.    *)

Configured == DOMAIN devices
Opened == {d \in Configured : devices[d].opened}
Held(S) == {devices[d].fd : d \in S} \ {NoFd}

Put(d, dev) ==
    /\ devices' = [devices EXCEPT ![d] = dev]
    /\ UNCHANGED <<inherited, up>>

\* What serial_port_open, i2c_bus_open and gpio_line_request have in their local
\* variables when a call after open(2) fails: the port or the bus; the chip, or
\* the chip and the line.
Locals(type) ==
    CASE type \in {"uart", "i2c", "oled"} -> {{f} : f \in Fd}
      [] type = "gpio" -> {{f, g} : f, g \in Fd}
      [] type = "led" -> {}

\* They close these before they return.
SetUpFails(d, err) ==
    \E local \in Locals(devices[d].type) :
      /\ local \cap fds = {}
      /\ fds' = (fds \cup local) \ local
      /\ Put(d, DeviceResult(devices[d], err))

\* Seeded bug: an OLED that does not answer keeps its bus open.
DisplayFails_keeps(d, err) ==
    /\ devices[d].type = "oled"
    /\ \E f \in Fd \ fds :
         /\ fds' = fds \cup {f}
         /\ Put(d, DeviceResult([devices[d] EXCEPT !.fd = f], err))

\* oled_open: oled_init fails when i2c_bus_open has opened the bus, which
\* i2c_bus_close closes.
DisplayFails(d, err) ==
    /\ devices[d].type = "oled"
    /\ \E f \in Fd \ fds : LET half == [devices[d] EXCEPT !.fd = f] IN
         /\ fds' = (fds \cup {f}) \ {half.fd}
         /\ Put(d, DeviceResult([half EXCEPT !.fd = NoFd], err))

\* The open of a backend fails: at open(2), or later.
FailedOpen(d, err) ==
    \/ Put(d, DeviceResult(devices[d], err)) /\ UNCHANGED fds
    \/ SetUpFails(d, err)
    \/ DisplayFails(d, err)

\* device_open
CmdOpen(d) ==
    LET dev == devices[d]
    IN  \/ /\ ~dev.enabled
           /\ Put(d, DeviceFailure(dev, "EACCES"))
           /\ UNCHANGED fds
        \/ /\ dev.enabled /\ dev.opened
           /\ Put(d, DeviceFailure(dev, IF dev.state = "ERROR" THEN "EBUSY" ELSE None))
           /\ UNCHANGED fds
        \/ /\ dev.enabled /\ ~dev.opened
           /\ \/ /\ dev.type = "led"
                 /\ Put(d, DeviceResult([dev EXCEPT !.opened = TRUE], None))
                 /\ UNCHANGED fds
              \/ /\ dev.type # "led"
                 /\ \E f \in Fd \ fds :
                      /\ Put(d, DeviceResult([dev EXCEPT !.opened = TRUE, !.fd = f],
                                             None))
                      /\ fds' = fds \cup {f}
              \/ \E err \in BackendErrors : FailedOpen(d, err)

\* device_close; closing a descriptor does not fail.
CmdClose(d) ==
    LET dev == devices[d]
    IN  IF dev.opened
          THEN /\ Put(d, DeviceResult([dev EXCEPT !.opened = FALSE, !.fd = NoFd], None))
               /\ fds' = fds \ {dev.fd}
          ELSE /\ Put(d, [dev EXCEPT !.last_errno = None,
                            !.state = IF dev.enabled THEN "CLOSED" ELSE "DISABLED"])
               /\ UNCHANGED fds

\* An operation on d whose backend fails with err, or succeeds.
Done(d, err) == Put(d, Access(devices[d], err)) /\ UNCHANGED fds

Use(d, types, errors) ==
    /\ devices[d].type \in types
    /\ \E err \in BackendErrors \cup errors \cup {None} : Done(d, err)

\* device read and write.  A UART that stays silent is ETIMEDOUT.
CmdRead(d) ==
    Use(d, {"uart", "i2c", "gpio", "led"},
        IF devices[d].type = "uart" THEN {"ETIMEDOUT"} ELSE {})

\* A UART whose output does not drain is ETIMEDOUT; a GPIO input is ENOTSUP.
CmdWrite(d) == Use(d, {"uart", "i2c", "gpio", "led"}, {"ETIMEDOUT", "ENOTSUP"})

\* device led and device oled.
CmdLed(d) == Use(d, {"led"}, {})

\* A text that is not UTF-8 is EILSEQ.
CmdOled(d) == Use(d, {"oled"}, {"EILSEQ"})

\* uart_protocol_request: a wrong or late reply is soft, end of file is not.
CmdUart(d) == Use(d, {"uart"}, {"ETIMEDOUT", "EPROTO", "EMSGSIZE", "EIO"})

\* What device_config_load may return: every section has a name of its own.
Lists == UNION {[S -> Config] : S \in SUBSET Name}

\* Seeded bug: the opened devices are not looked for.
MayReload_always == TRUE

MayReload == Opened = {}

NewTable(list) == [d \in DOMAIN list |-> DeviceInit(list[d])]

\* device_manager_load: the new table is complete before the old one is
\* destroyed.  Every failure (EBUSY, a bad file, no memory) changes nothing.
CmdReload ==
    /\ up /\ MayReload
    /\ \E list \in Lists : devices' = NewTable(list)
    /\ fds' = fds \ Held(Configured)
    /\ UNCHANGED <<inherited, up>>

\* Seeded bug: only devices that work are closed.
CloseAll_working == {d \in Opened : devices[d].state = "OPEN"}

\* device_manager_close_all
CloseAll == Opened

\* A launched child closes its copies of the descriptors before it waits at
\* the startup gate (child_prepare_before_gate).
StartChild ==
    /\ up
    /\ inherited' = fds \ Held(CloseAll)
    /\ UNCHANGED <<devices, fds, up>>

\* shell_context_destroy: device_close, then backend_destroy, for every device.
Destroy ==
    /\ up
    /\ devices' = [d \in {} |-> NoFd]
    /\ fds' = fds \ Held(Configured)
    /\ up' = FALSE
    /\ UNCHANGED inherited

---------------------------------------------------------------------------
\* shell_context_init loads the device file; without a valid one the table is
\* empty.
Init ==
    /\ \E list \in Lists : devices = [d \in DOMAIN list |-> DeviceInit(list[d])]
    /\ fds = {} /\ inherited = {} /\ up = TRUE

\* The shell has ended.
Ended == ~up /\ UNCHANGED vars

\* cmd_device on a device that device_manager_find has found.
Command(d) ==
    \/ CmdOpen(d) \/ CmdClose(d) \/ CmdRead(d) \/ CmdWrite(d)
    \/ CmdLed(d) \/ CmdOled(d) \/ CmdUart(d)

Next ==
    \/ \E d \in Configured : Command(d)
    \/ CmdReload \/ StartChild \/ Destroy \/ Ended

Spec == Init /\ [][Next]_vars

---------------------------------------------------------------------------
(* Properties.                                                             *)

\* docs/stability.md, "FD start == FD end": the shell's open device
\* descriptors are exactly those of its opened devices, one each, on every
\* path of open, close, reload and destroy.
DescriptorsExact ==
    /\ fds = Held(Configured)
    /\ \A d \in Configured :
         devices[d].fd # NoFd <=> devices[d].opened /\ devices[d].type # "led"
    /\ \A c, d \in Configured :
         devices[c].fd = devices[d].fd => c = d \/ devices[c].fd = NoFd

\* The state that device list and device info show is the truth: OPEN is what
\* device_ready lets through, and DISABLED what the configuration disables.
ShownStateIsTrue ==
    \A d \in Configured : LET dev == devices[d] IN
        /\ dev.state = "OPEN" <=> ReadyError(dev) = None
        /\ dev.state = "DISABLED" <=> ~dev.enabled
        /\ dev.state = "CLOSED" => ~dev.opened

\* docs/architecture.md: an opened device in ERROR has to be closed before it
\* works again; neither open, nor an operation, nor reload gets around that.
\* Until it is closed an opened device also keeps its descriptor: a second
\* open does not take another one, and a reload does not drop it.
ErrorNeedsClose ==
    [][\A d \in Configured :
         (devices[d].opened /\ up') =>
             /\ d \in DOMAIN devices'
             /\ devices'[d].opened =>
                  /\ devices'[d].fd = devices[d].fd
                  /\ devices[d].state = "ERROR" => devices'[d].state = "ERROR"]_vars

\* A child at the startup gate has no descriptor of a device, whatever state
\* the device is in.
ChildHasNoDevice == inherited = {}
=============================================================================
