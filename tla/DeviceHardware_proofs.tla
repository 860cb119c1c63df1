----------------------- MODULE DeviceHardware_proofs -----------------------
(* Theorems about DeviceManager and DeviceHardware, for every set of names,  *)
(* descriptors and errors, every size of the display and every brightness.  *)
EXTENDS DeviceHardware, TLAPS

---------------------------------------------------------------------------
(* One Device.                                                             *)

\* What holds of every Device of the table.
DevOK(dev) ==
    /\ dev \in Device
    /\ dev.opened => dev.enabled
    /\ dev.state = "DISABLED" <=> ~dev.enabled
    /\ dev.state = "OPEN" => dev.opened
    /\ dev.state = "CLOSED" => ~dev.opened
    /\ dev.fd # NoFd <=> dev.opened /\ dev.type # "led"

\* device_init
LEMMA InitDevOK ==
    ASSUME NEW c \in Config
    PROVE  DevOK(DeviceInit(c)) /\ ~DeviceInit(c).opened /\ DeviceInit(c).fd = NoFd
  BY DEF Config, DeviceInit, DevOK, Device, States, Errno, None

\* A failure that is only recorded changes nothing else.
LEMMA FailureDevOK ==
    ASSUME NEW dev, DevOK(dev), NEW err \in Errno
    PROVE  /\ DevOK(DeviceFailure(dev, err))
           /\ DeviceFailure(dev, err).fd = dev.fd
           /\ DeviceFailure(dev, err).opened = dev.opened
           /\ DeviceFailure(dev, err).state = dev.state
           /\ DeviceFailure(dev, err).type = dev.type
           /\ DeviceFailure(dev, err).enabled = dev.enabled
  BY DEF DeviceFailure, DevOK, Device

\* device_result of a device whose opened and fd have been updated; dev may
\* still have the state from before.
LEMMA ResultDevOK ==
    ASSUME NEW dev \in Device, NEW err \in Errno, dev.enabled,
           dev.state # "DISABLED",
           dev.fd # NoFd <=> dev.opened /\ dev.type # "led",
           err = None \/ DevOK(dev)
    PROVE  /\ DevOK(DeviceResult(dev, err))
           /\ DeviceResult(dev, err).fd = dev.fd
           /\ DeviceResult(dev, err).opened = dev.opened
           /\ DeviceResult(dev, err).type = dev.type
           /\ err # None => DeviceResult(dev, err).state \in {dev.state, "ERROR"}
  <1>1. CASE err = None
    BY <1>1 DEF DeviceResult, DevOK, Device, States
  <1>2. CASE err # None
    BY <1>2 DEF DeviceResult, DevOK, Device, States
  <1> QED
    BY <1>1, <1>2

\* device_ready lets an opened device through that is not in ERROR.
LEMMA ReadyMeans ==
    ASSUME NEW dev, DevOK(dev)
    PROVE  /\ ReadyError(dev) = None <=>
                dev.enabled /\ dev.opened /\ dev.state # "ERROR"
           /\ ReadyError(dev) \in Errno
  <1>1. CASE ~dev.enabled
    BY <1>1 DEF ReadyError, Errno, None, DevOK, Device
  <1>2. CASE dev.enabled /\ ~dev.opened
    BY <1>2 DEF ReadyError, Errno, None, DevOK, Device
  <1>3. CASE dev.enabled /\ dev.opened /\ dev.state = "ERROR"
    BY <1>3 DEF ReadyError, Errno, None, DevOK, Device
  <1>4. CASE dev.enabled /\ dev.opened /\ dev.state # "ERROR"
    BY <1>4 DEF ReadyError, Errno, None, DevOK, Device
  <1> QED
    BY <1>1, <1>2, <1>3, <1>4 DEF DevOK, Device

\* device_read, device_write and device_control leave descriptor and opened
\* alone, and a device in ERROR in that state.
LEMMA AccessDevOK ==
    ASSUME NEW dev, DevOK(dev), NEW err \in Errno
    PROVE  /\ DevOK(Access(dev, err))
           /\ Access(dev, err).fd = dev.fd
           /\ Access(dev, err).opened = dev.opened
           /\ Access(dev, err).type = dev.type
           /\ dev.opened /\ dev.state = "ERROR" => Access(dev, err).state = "ERROR"
  <1>1. CASE ReadyError(dev) # None
    BY <1>1, ReadyMeans, FailureDevOK DEF Access
  <1>2. CASE ReadyError(dev) = None
    <2>1. dev.enabled /\ dev.opened /\ dev.state # "ERROR"
      BY <1>2, ReadyMeans
    <2>2. dev \in Device /\ dev.state # "DISABLED"
          /\ (dev.fd # NoFd <=> dev.opened /\ dev.type # "led")
      BY <2>1 DEF DevOK
    <2> QED
      BY <1>2, <2>1, <2>2, ResultDevOK DEF Access
  <1> QED
    BY <1>1, <1>2

---------------------------------------------------------------------------
(* The table.                                                              *)

IndInv ==
    /\ TypeOK /\ DescriptorsExact /\ inherited = {}
    /\ \A d \in Configured : DevOK(devices[d])

\* What one device command does: it puts dev in the place of d, and takes one
\* free descriptor, gives back d's own, or none of both.
Effect(d, dev) ==
    /\ Put(d, dev)
    /\ DevOK(dev) /\ dev.type = devices[d].type
    /\ \/ dev.fd = devices[d].fd /\ UNCHANGED fds
       \/ devices[d].fd = NoFd /\ dev.fd \in Fd \ fds /\ fds' = fds \cup {dev.fd}
       \/ dev.fd = NoFd /\ fds' = fds \ {devices[d].fd}
    /\ (devices[d].opened /\ dev.opened) =>
         /\ dev.fd = devices[d].fd
         /\ devices[d].state = "ERROR" => dev.state = "ERROR"

\* device_open
LEMMA OpenEffect ==
    ASSUME IndInv, NEW d \in Configured, CmdOpen(d)
    PROVE  \E dev : Effect(d, dev)
  <1> DEFINE dev == devices[d]
  <1>1. DevOK(dev) /\ dev \in Device
    BY DEF IndInv, DevOK
  <1>2. {"EACCES", "EBUSY", None} \cup BackendErrors \subseteq Errno
    BY DEF Errno, SoftErrors
  <1>3. ASSUME NEW err \in Errno, Put(d, DeviceFailure(dev, err)), UNCHANGED fds
        PROVE  Effect(d, DeviceFailure(dev, err))
    BY <1>1, <1>3, FailureDevOK DEF Effect
  <1>4. CASE ~dev.enabled \/ (dev.enabled /\ dev.opened)
    BY <1>2, <1>3, <1>4 DEF CmdOpen
  <1>5. CASE dev.enabled /\ ~dev.opened
    <2>1. dev.fd = NoFd /\ dev.state # "DISABLED"
      BY <1>1, <1>5 DEF DevOK
    <2>2. ASSUME dev.type = "led",
                 Put(d, DeviceResult([dev EXCEPT !.opened = TRUE], None)), UNCHANGED fds
          PROVE  \E x : Effect(d, x)
      <3> DEFINE new == [dev EXCEPT !.opened = TRUE]
      <3>1. new \in Device /\ new.enabled /\ new.state # "DISABLED"
            /\ new.fd = NoFd /\ new.opened /\ new.type = "led" /\ new.type = dev.type
        BY <1>1, <1>5, <2>1, <2>2 DEF Device
      <3> HIDE DEF new
      <3>2. DevOK(DeviceResult(new, None)) /\ DeviceResult(new, None).fd = NoFd
            /\ DeviceResult(new, None).type = dev.type
        BY <1>2, <3>1, ResultDevOK
      <3>3. Effect(d, DeviceResult(new, None))
        BY <1>5, <2>1, <2>2, <3>2 DEF Effect, new
      <3> QED
        BY <3>3
    <2>3. ASSUME dev.type # "led", NEW f \in Fd \ fds,
                 Put(d, DeviceResult([dev EXCEPT !.opened = TRUE, !.fd = f], None)),
                 fds' = fds \cup {f}
          PROVE  \E x : Effect(d, x)
      <3> DEFINE new == [dev EXCEPT !.opened = TRUE, !.fd = f]
      <3>1. new \in Device /\ new.enabled /\ new.state # "DISABLED"
            /\ new.fd = f /\ new.opened /\ new.type # "led" /\ f # NoFd
            /\ new.type = dev.type
        BY <1>1, <1>5, <2>1, <2>3, NoFdAssumption DEF Device
      <3> HIDE DEF new
      <3>2. DevOK(DeviceResult(new, None)) /\ DeviceResult(new, None).fd = f
            /\ DeviceResult(new, None).type = dev.type
        BY <1>2, <3>1, ResultDevOK
      <3>3. Effect(d, DeviceResult(new, None))
        BY <1>5, <2>1, <2>3, <3>2 DEF Effect, new
      <3> QED
        BY <3>3
    <2>4. ASSUME NEW err \in BackendErrors, FailedOpen(d, err)
          PROVE  \E x : Effect(d, x)
      <3>1. DevOK(DeviceResult(dev, err)) /\ DeviceResult(dev, err).fd = NoFd
            /\ DeviceResult(dev, err).type = dev.type
        BY <1>1, <1>2, <1>5, <2>1, ResultDevOK DEF DevOK
      <3>2. Put(d, DeviceResult(dev, err)) /\ UNCHANGED fds
        <4>1. CASE DisplayFails(d, err)
          <5>1. PICK f \in Fd \ fds :
                  /\ fds' = (fds \cup {f}) \ {[dev EXCEPT !.fd = f].fd}
                  /\ Put(d, DeviceResult([[dev EXCEPT !.fd = f] EXCEPT !.fd = NoFd],
                                         err))
            BY <4>1 DEF DisplayFails
          <5>2. [dev EXCEPT !.fd = f].fd = f
                /\ [[dev EXCEPT !.fd = f] EXCEPT !.fd = NoFd] = dev
            BY <1>1, <1>2, <1>5, <2>1 DEF DevOK, Device
          <5> QED
            BY <5>1, <5>2
        <4>2. CASE SetUpFails(d, err)
          BY <4>2 DEF SetUpFails
        <4> QED
          BY <2>4, <4>1, <4>2 DEF FailedOpen
      <3>3. Effect(d, DeviceResult(dev, err))
        BY <1>5, <2>1, <3>1, <3>2 DEF Effect
      <3> QED
        BY <3>3
    <2> QED
      BY <1>5, <2>2, <2>3, <2>4 DEF CmdOpen
  <1> QED
    BY <1>1, <1>4, <1>5 DEF Device

\* device_close
LEMMA CloseEffect ==
    ASSUME IndInv, NEW d \in Configured, CmdClose(d)
    PROVE  \E dev : Effect(d, dev) /\ ~dev.opened
  <1> DEFINE dev == devices[d]
  <1>1. DevOK(dev) /\ dev \in Device
    BY DEF IndInv, DevOK
  <1>2. CASE dev.opened
    <2> DEFINE new == [dev EXCEPT !.opened = FALSE, !.fd = NoFd]
    <2>1. new \in Device /\ new.enabled /\ new.state # "DISABLED"
          /\ new.fd = NoFd /\ ~new.opened /\ new.type = dev.type
      BY <1>1, <1>2 DEF Device, DevOK
    <2>2. Put(d, DeviceResult(new, None)) /\ fds' = fds \ {dev.fd}
      BY <1>2 DEF CmdClose
    <2> HIDE DEF new
    <2>3. DevOK(DeviceResult(new, None)) /\ DeviceResult(new, None).fd = NoFd
          /\ ~DeviceResult(new, None).opened /\ DeviceResult(new, None).type = dev.type
      BY <2>1, ResultDevOK DEF Errno
    <2>4. Effect(d, DeviceResult(new, None))
      BY <2>2, <2>3 DEF Effect
    <2> QED
      BY <2>3, <2>4
  <1>3. CASE ~dev.opened
    <2> DEFINE new == [dev EXCEPT !.last_errno = None,
                         !.state = IF dev.enabled THEN "CLOSED" ELSE "DISABLED"]
    <2>1. DevOK(new) /\ new.fd = dev.fd /\ ~new.opened /\ new.type = dev.type
      BY <1>1, <1>3 DEF DevOK, Device, States, Errno
    <2>2. Put(d, new) /\ UNCHANGED fds
      BY <1>3 DEF CmdClose
    <2> HIDE DEF new
    <2>3. Effect(d, new)
      BY <1>3, <2>1, <2>2 DEF Effect
    <2> QED
      BY <2>1, <2>3
  <1> QED
    BY <1>2, <1>3

\* Every operation on a device, whatever its backend returns.
LEMMA UseEffect ==
    ASSUME IndInv, NEW d \in Configured, NEW err \in Errno, Done(d, err)
    PROVE  Effect(d, Access(devices[d], err))
  <1>1. DevOK(devices[d])
    BY DEF IndInv
  <1> QED
    BY <1>1, AccessDevOK DEF Effect, Done

\* Every device command.
LEMMA CommandEffect ==
    ASSUME IndInv, NEW d \in Configured, Command(d)
    PROVE  \E dev : Effect(d, dev)
  <1>1. ASSUME NEW types, NEW errors \in SUBSET Errno, Use(d, types, errors)
        PROVE  \E dev : Effect(d, dev)
    <2>1. PICK err \in BackendErrors \cup errors \cup {None} : Done(d, err)
      BY <1>1 DEF Use
    <2>2. err \in Errno
      BY DEF Errno
    <2> QED
      BY <2>1, <2>2, UseEffect
  <1>2. {"ETIMEDOUT", "ENOTSUP", "EPROTO", "EMSGSIZE", "EIO", "EILSEQ"} \subseteq Errno
    BY DEF Errno, SoftErrors
  <1>3. CASE CmdRead(d)
    BY <1>1, <1>2, <1>3 DEF CmdRead
  <1>4. CASE CmdWrite(d)
    BY <1>1, <1>2, <1>4 DEF CmdWrite
  <1>5. CASE CmdLed(d) \/ CmdOled(d) \/ CmdUart(d)
    BY <1>1, <1>2, <1>5 DEF CmdLed, CmdOled, CmdUart
  <1> QED
    BY <1>3, <1>4, <1>5, OpenEffect, CloseEffect DEF Command

\* A device command keeps the invariant.
LEMMA EffectInv ==
    ASSUME IndInv, NEW d \in Configured, NEW dev, Effect(d, dev)
    PROVE  IndInv'
  <1>1. /\ DOMAIN devices' = Configured
        /\ devices'[d] = dev
        /\ \A c \in Configured : c # d => devices'[c] = devices[c]
    BY DEF Effect, Put, IndInv, TypeOK, Configured
  <1>2. \A c \in Configured' : DevOK(devices'[c])
    BY <1>1 DEF Effect, IndInv, Configured
  <1>3. TypeOK' /\ inherited' = {}
    <2>1. devices' \in [DOMAIN devices' -> Device]
      BY <1>1, <1>2 DEF Effect, Put, IndInv, TypeOK, Configured, DevOK
    <2>2. fds' \subseteq Fd
      BY DEF Effect, IndInv, TypeOK
    <2> QED
      BY <1>1, <2>1, <2>2 DEF Effect, Put, IndInv, TypeOK, Configured
  <1>4. \A c \in Configured :
          devices[c].fd # NoFd <=> devices[c].opened /\ devices[c].type # "led"
    BY DEF IndInv, DevOK
  <1>5. \A f : f \in fds <=> f # NoFd /\ \E c \in Configured : devices[c].fd = f
    BY DEF IndInv, DescriptorsExact, Held
  <1>6. \A b, c \in Configured :
          devices[b].fd = devices[c].fd => b = c \/ devices[b].fd = NoFd
    BY DEF IndInv, DescriptorsExact
  <1>7. /\ \A f : f \in fds' <=> f # NoFd /\ \E c \in Configured : devices'[c].fd = f
        /\ \A b, c \in Configured :
             devices'[b].fd = devices'[c].fd => b = c \/ devices'[b].fd = NoFd
    <2>1. CASE dev.fd = devices[d].fd /\ UNCHANGED fds
      BY <1>1, <1>5, <1>6, <2>1
    <2>2. CASE devices[d].fd = NoFd /\ dev.fd \in Fd \ fds /\ fds' = fds \cup {dev.fd}
      BY <1>1, <1>5, <1>6, <2>2, NoFdAssumption
    <2>3. CASE dev.fd = NoFd /\ fds' = fds \ {devices[d].fd}
      BY <1>1, <1>5, <1>6, <2>3
    <2> QED
      BY <2>1, <2>2, <2>3 DEF Effect
  <1>8. fds' = Held(Configured)'
    BY <1>1, <1>7 DEF Held, Configured
  <1>9. DescriptorsExact'
    BY <1>1, <1>2, <1>7, <1>8 DEF DescriptorsExact, Configured, DevOK
  <1> QED
    BY <1>2, <1>3, <1>9 DEF IndInv

\* A table that device_config_load has just filled.
LEMMA NewTableOK ==
    ASSUME NEW list \in Lists
    PROVE  /\ DOMAIN NewTable(list) \subseteq Name
           /\ NewTable(list) \in [DOMAIN NewTable(list) -> Device]
           /\ \A d \in DOMAIN NewTable(list) :
                /\ DevOK(NewTable(list)[d])
                /\ NewTable(list)[d].fd = NoFd /\ ~NewTable(list)[d].opened
  <1>1. DOMAIN list \subseteq Name /\ \A d \in DOMAIN list : list[d] \in Config
    BY DEF Lists
  <1> QED
    BY <1>1, InitDevOK DEF NewTable, DevOK

\* A table without descriptors is fine when the shell has none open.
LEMMA EmptyTableInv ==
    ASSUME DOMAIN devices' \subseteq Name, devices' \in [DOMAIN devices' -> Device],
           \A d \in DOMAIN devices' : DevOK(devices'[d]) /\ devices'[d].fd = NoFd,
           fds' = {}, inherited' = {}, up' \in BOOLEAN
    PROVE  IndInv'
  <1>1. TypeOK'
    BY DEF TypeOK
  <1>2. Held(Configured)' = {}
    BY DEF Held, Configured
  <1>3. DescriptorsExact'
    BY <1>2 DEF DescriptorsExact, Configured, DevOK
  <1> QED
    BY <1>1, <1>3 DEF IndInv, Configured

\* Descriptors of opened devices are all there are, so that a child that closes
\* these has none left.
LEMMA AllClosed ==
    ASSUME IndInv
    PROVE  fds \ Held(Configured) = {} /\ fds \ Held(CloseAll) = {}
  <1>1. fds = Held(Configured)
    BY DEF IndInv, DescriptorsExact
  <1>2. \A d \in Configured : devices[d].fd # NoFd => devices[d].opened
    BY DEF IndInv, DevOK
  <1>3. Held(Configured) \subseteq Held(CloseAll)
    BY <1>2 DEF Held, CloseAll, Opened
  <1> QED
    BY <1>1, <1>3

LEMMA NextInv == ASSUME IndInv, [Next]_vars PROVE IndInv'
  <1>1. ASSUME NEW d \in Configured, Command(d)
        PROVE  IndInv'
    BY <1>1, CommandEffect, EffectInv
  <1>2. CASE CmdReload
    <2>1. PICK list \in Lists : devices' = NewTable(list)
      BY <1>2 DEF CmdReload
    <2>2. fds' = {} /\ inherited' = {} /\ up' \in BOOLEAN
      BY <1>2, AllClosed DEF CmdReload, IndInv, TypeOK
    <2> QED
      BY <2>1, <2>2, NewTableOK, EmptyTableInv
  <1>3. CASE StartChild
    <2>1. inherited' = {}
      BY <1>3, AllClosed DEF StartChild
    <2> QED
      BY <1>3, <2>1 DEF StartChild, IndInv, TypeOK, DescriptorsExact, Configured, Held
  <1>4. CASE Destroy
    <2>1. fds' = {} /\ inherited' = {} /\ up' \in BOOLEAN
      BY <1>4, AllClosed DEF Destroy, IndInv
    <2>2. DOMAIN devices' = {} /\ devices' \in [DOMAIN devices' -> Device]
      BY <1>4 DEF Destroy
    <2> QED
      BY <2>1, <2>2, EmptyTableInv
  <1>5. CASE UNCHANGED vars
    BY <1>5 DEF vars, IndInv, TypeOK, DescriptorsExact, Configured, Held
  <1> QED
    BY <1>1, <1>2, <1>3, <1>4, <1>5 DEF Next, Ended

\* IndInv holds in every reachable state of DeviceManager.
THEOREM Inductive == Spec => []IndInv
  <1>1. Init => IndInv
    <2> SUFFICES ASSUME Init PROVE IndInv
      OBVIOUS
    <2>1. PICK list \in Lists : devices = NewTable(list)
      BY DEF Init, NewTable
    <2>2. TypeOK
      BY <2>1, NewTableOK DEF Init, TypeOK
    <2>3. \A d \in Configured : DevOK(devices[d]) /\ devices[d].fd = NoFd
      BY <2>1, NewTableOK DEF Configured
    <2>4. Held(Configured) = {}
      BY <2>3 DEF Held
    <2>5. DescriptorsExact
      BY <2>3, <2>4 DEF Init, DescriptorsExact, DevOK
    <2> QED
      BY <2>2, <2>3, <2>5 DEF Init, IndInv
  <1> QED
    BY <1>1, NextInv, PTL DEF Spec

\* Types of the device table: names, states and errnos are the declared ones.
THEOREM TypeCorrect == Spec => []TypeOK
  BY Inductive, PTL DEF IndInv

\* The shell's device descriptors are those of its opened devices, one each:
\* no path of device_open, device_close, device_manager_load and
\* device_manager_destroy leaks or shares one.
THEOREM DescriptorsAccounted == Spec => []DescriptorsExact
  BY Inductive, PTL DEF IndInv

\* What device list shows agrees with what device_ready lets through.
THEOREM StateShown == Spec => []ShownStateIsTrue
  <1>1. IndInv => ShownStateIsTrue
    <2> SUFFICES ASSUME IndInv, NEW d \in Configured
                 PROVE  LET dev == devices[d] IN
                          /\ dev.state = "OPEN" <=> ReadyError(dev) = None
                          /\ dev.state = "DISABLED" <=> ~dev.enabled
                          /\ dev.state = "CLOSED" => ~dev.opened
      BY DEF ShownStateIsTrue
    <2>1. DevOK(devices[d])
      BY DEF IndInv
    <2> QED
      BY <2>1, ReadyMeans DEF DevOK, Device, States
  <1> QED
    BY Inductive, <1>1, PTL

\* child_prepare_before_gate closes every device descriptor the child has.
THEOREM ChildClosesDevices == Spec => []ChildHasNoDevice
  BY Inductive, PTL DEF IndInv, ChildHasNoDevice

\* What one step may do to an opened device.
ErrorNeedsCloseStep ==
    \A d \in Configured :
        (devices[d].opened /\ up') =>
            /\ d \in DOMAIN devices'
            /\ devices'[d].opened =>
                 /\ devices'[d].fd = devices[d].fd
                 /\ devices[d].state = "ERROR" => devices'[d].state = "ERROR"

\* An opened device in ERROR stays there until device_close, and an opened
\* device keeps its descriptor: open, every operation and reload included.
THEOREM ErrorUntilClose == Spec => ErrorNeedsClose
  <1>1. ASSUME IndInv, [Next]_vars
        PROVE  [ErrorNeedsCloseStep]_vars
    <2> SUFFICES ASSUME NEW d \in Configured, devices[d].opened, up', Next
                 PROVE  /\ d \in DOMAIN devices'
                        /\ devices'[d].opened =>
                             /\ devices'[d].fd = devices[d].fd
                             /\ devices[d].state = "ERROR" => devices'[d].state = "ERROR"
      BY <1>1 DEF ErrorNeedsCloseStep
    <2>1. ASSUME NEW c \in Configured, Command(c)
          PROVE  /\ d \in DOMAIN devices'
                 /\ devices'[d].opened =>
                      /\ devices'[d].fd = devices[d].fd
                      /\ devices[d].state = "ERROR" => devices'[d].state = "ERROR"
      <3>1. PICK dev : Effect(c, dev)
        BY <1>1, <2>1, CommandEffect
      <3>2. /\ DOMAIN devices' = Configured
            /\ devices'[c] = dev
            /\ \A b \in Configured : b # c => devices'[b] = devices[b]
        BY <1>1, <3>1 DEF Effect, Put, IndInv, TypeOK, Configured
      <3> QED
        BY <3>1, <3>2 DEF Effect
    <2>2. ~CmdReload
      BY DEF CmdReload, MayReload, Opened
    <2>3. ~Destroy
      BY DEF Destroy
    <2>4. CASE StartChild \/ Ended
      BY <2>4 DEF StartChild, Ended, vars, Configured
    <2> QED
      BY <2>1, <2>2, <2>3, <2>4 DEF Next
  <1> QED
    BY <1>1, Inductive, PTL DEF Spec, ErrorNeedsClose, ErrorNeedsCloseStep

---------------------------------------------------------------------------
(* DeviceHardware implements DeviceManager.                                *)

\* A command on the board is a device command on the table.
LEMMA HwCommand ==
    ASSUME NEW d \in Configured, LedCommand(d) \/ OledCommand(d) \/ OtherCommand(d)
    PROVE  Command(d)
  <1>1. ASSUME NEW err \in BackendErrors \cup {None}, Done(d, err)
        PROVE  /\ devices[d].type = "led" => CmdLed(d)
               /\ devices[d].type = "oled" => CmdOled(d)
    BY <1>1 DEF CmdLed, CmdOled, Use
  <1>2. CASE LedCommand(d)
    BY <1>1, <1>2 DEF LedCommand, Refused, DeviceLed, Command
  <1>3. CASE OledCommand(d)
    <2>1. CASE OledText(d)
      BY <1>3, <2>1 DEF OledCommand, OledText, Utf8Results, CmdOled, Use, Command
    <2>2. CASE ~OledText(d)
      BY <1>1, <1>3, <2>2 DEF OledCommand, OledOpen, Refused, OledRefresh, OledClear,
                              OledSwitch, Command
    <2> QED
      BY <2>1, <2>2
  <1>4. CASE OtherCommand(d)
    BY <1>4 DEF OtherCommand, Command
  <1> QED
    BY <1>2, <1>3, <1>4

LEMMA HwStep == [HwNext]_<<vars, hardware>> => [Next]_vars
  BY HwCommand DEF HwNext, Next, BuiltinLed, Blink

\* The board adds nothing to what the device table may do, so that every
\* theorem about Spec holds of HwSpec.
THEOREM HardwareRefinement == HwSpec => Spec
  <1>1. HwInit => Init
    BY DEF HwInit
  <1> QED
    BY <1>1, HwStep, PTL DEF HwSpec, Spec

\* IndInv holds with the board too.
LEMMA HwInductive == HwSpec => []IndInv
  BY HardwareRefinement, Inductive, PTL

---------------------------------------------------------------------------
(* The LED.                                                                *)

Lamps == [trigger : Triggers, brightness : {0, MaxBrightness}]
Tolds == [screen : Name \cup {Nothing}, lamp : LedWords \cup {Nothing}]

LampInv == lamp \in Lamps /\ told \in Tolds /\ LampAsTold

\* sysfs_write_text to trigger: with success the trigger is the one wanted.
LEMMA TriggerWrite ==
    ASSUME lamp \in Lamps, NEW t \in Triggers, NEW ok \in BOOLEAN,
           NEW l \in LedWriteTrigger(t, ok)
    PROVE  l \in Lamps /\ (ok => l.trigger = t)
  BY HardwareAssumption DEF Lamps, LedWriteTrigger, SysfsWrite, Confirmed

\* led_control_set_on and led_control_set_off: with success both writes show.
LEMMA LedSet ==
    ASSUME lamp \in Lamps, NEW v \in {0, MaxBrightness}, NEW ok \in BOOLEAN,
           NEW l \in LedControlSet(v, ok)
    PROVE  l \in Lamps /\ (ok => l = [trigger |-> "none", brightness |-> v])
  <1>1. ASSUME NEW m \in LedWriteTrigger("none", TRUE),
               NEW k \in LedWriteBrightness(m, v, ok)
        PROVE  k \in Lamps /\ (ok => k = [trigger |-> "none", brightness |-> v])
    <2>1. m \in Lamps /\ m.trigger = "none"
      BY TriggerWrite DEF Triggers
    <2>2. k \in {m, [m EXCEPT !.brightness = v]} /\ (ok => k.brightness = v)
      BY DEF LedWriteBrightness, SysfsWrite, Confirmed
    <2> QED
      BY <2>1, <2>2 DEF Lamps
  <1>2. CASE \E m \in LedWriteTrigger("none", TRUE) : l \in LedWriteBrightness(m, v, ok)
    BY <1>1, <1>2
  <1>3. CASE ~ok /\ l \in LedWriteTrigger("none", FALSE)
    BY <1>3, TriggerWrite DEF Triggers
  <1> QED
    BY <1>2, <1>3 DEF LedControlSet

\* The LED's command, of the device table or the builtin.
LEMMA LedControlInv ==
    ASSUME LampInv, NEW word \in LedWords, NEW ok \in BOOLEAN, LedControl(word, ok)
    PROVE  LampInv'
  <1> USE DEF LampInv
  <1>1. told' \in Tolds /\ told'.lamp = IF ok THEN word ELSE Nothing
    BY DEF LedControl, Tell, Tolds
  <1>2. CASE word = "on"
    <2>1. lamp' \in LedControlSet(MaxBrightness, ok)
      BY <1>2 DEF LedControl, Triggers
    <2> QED
      BY <1>1, <1>2, <2>1, LedSet DEF LampAsTold, Nothing, Triggers
  <1>3. CASE word = "off"
    <2>1. lamp' \in LedControlSet(0, ok)
      BY <1>3 DEF LedControl, Triggers
    <2> QED
      BY <1>1, <1>3, <2>1, LedSet DEF LampAsTold, Nothing, Triggers
  <1>4. CASE word \in Triggers
    <2>1. lamp' \in LedWriteTrigger(word, ok)
      BY <1>4 DEF LedControl, Triggers
    <2> QED
      BY <1>1, <1>4, <2>1, TriggerWrite DEF LampAsTold, Nothing, Triggers
  <1> QED
    BY <1>2, <1>3, <1>4 DEF LedWords

\* A step that leaves the LED and what was said of it alone.
LEMMA SameLamp ==
    ASSUME LampInv, lamp' = lamp, told' \in Tolds, told'.lamp = told.lamp
    PROVE  LampInv'
  BY DEF LampInv, LampAsTold

\* What is said of the display does not concern the LED.
LEMMA TellScreen ==
    ASSUME told \in Tolds, NEW v \in Name \cup {Nothing}, Tell("screen", v)
    PROVE  told' \in Tolds /\ told'.lamp = told.lamp /\ told'.screen = v
  BY DEF Tell, Tolds

LEMMA NextLampInv ==
    ASSUME IndInv, LampInv, [HwNext]_<<vars, hardware>>
    PROVE  LampInv'
  <1>1. told \in Tolds /\ told.screen \in Name \cup {Nothing} /\ Configured \subseteq Name
    BY DEF LampInv, Tolds, IndInv, TypeOK, Configured
  <1>2. ASSUME UNCHANGED <<lamp, told>>
        PROVE  LampInv'
    BY <1>1, <1>2, SameLamp
  <1>3. ASSUME UNCHANGED lamp, NEW v \in Name \cup {Nothing}, Tell("screen", v)
        PROVE  LampInv'
    BY <1>1, <1>3, SameLamp, TellScreen
  <1>4. ASSUME NEW S, Forget(S)
        PROVE  LampInv'
    BY <1>1, <1>3, <1>4 DEF Forget
  <1>5. ASSUME NEW d \in Configured, LedCommand(d)
        PROVE  LampInv'
    <2>1. ASSUME NEW word \in LedWords, DeviceLed(d, word)
          PROVE  LampInv'
      BY <2>1, LedControlInv DEF DeviceLed
    <2> QED
      BY <1>2, <1>5, <2>1 DEF LedCommand, Refused, hardware
  <1>6. ASSUME NEW d \in Configured, OledCommand(d)
        PROVE  LampInv'
    <2>1. d \in Name
      BY <1>1
    <2>2. CASE OledOpen(d)
      BY <1>2, <1>3, <2>1, <2>2 DEF OledOpen
    <2>3. CASE OledRefresh(d)
      BY <1>3, <2>1, <2>3 DEF OledRefresh
    <2>4. CASE OledClear(d) \/ OledText(d)
      BY <1>1, <1>3, <2>4 DEF OledClear, OledText
    <2>5. CASE Refused(d) \/ OledSwitch(d)
      BY <1>2, <2>5 DEF Refused, OledSwitch, hardware
    <2> QED
      BY <1>4, <1>6, <2>2, <2>3, <2>4, <2>5 DEF OledCommand
  <1>7. ASSUME NEW d \in Configured, OtherCommand(d)
        PROVE  LampInv'
    BY <1>2, <1>7 DEF OtherCommand, hardware
  <1>8. ASSUME NEW word \in LedWords, BuiltinLed(word)
        PROVE  LampInv'
    BY <1>8, LedControlInv DEF BuiltinLed
  <1>9. CASE Blink
    <2>1. lamp' \in Lamps /\ lamp'.trigger = lamp.trigger /\ lamp.trigger # "none"
      BY <1>9, HardwareAssumption DEF Blink, LampInv, Lamps
    <2>2. told' = told
      BY <1>9 DEF Blink
    <2> QED
      BY <2>1, <2>2 DEF LampInv, LampAsTold, Triggers
  <1>10. CASE UNCHANGED <<vars, hardware>>
    BY <1>2, <1>10 DEF hardware
  <1> QED
    BY <1>2, <1>4, <1>5, <1>6, <1>7, <1>8, <1>9, <1>10 DEF HwNext, hardware

\* A success that led_control reported is the truth about the LED: trigger and
\* brightness are the ones asked for, through the table and the builtin alike.
THEOREM LampTruth == HwSpec => []LampAsTold
  <1>1. HwInit => LampInv
    BY HardwareAssumption
       DEF HwInit, LampInv, LampAsTold, Lamps, Tolds, Triggers, Nothing, LedWords
  <1>2. LampInv => LampAsTold
    BY DEF LampInv
  <1> QED
    BY <1>1, <1>2, NextLampInv, HwInductive, PTL DEF HwSpec

---------------------------------------------------------------------------
(* The display.                                                            *)

\* The packets of a complete refresh go to the cells in their order.
LEMMA InOrder == \A i \in Cell : CellAt(1, i) = i
  <1> SUFFICES ASSUME NEW i \in Cell PROVE CellAt(1, i) = i
    OBVIOUS
  <1>1. i - 1 \in 0..(Cells - 1) /\ 1 + i - 2 = i - 1
    BY HardwareAssumption DEF Cell
  <1>2. (i - 1) % Cells = i - 1
    BY <1>1, HardwareAssumption
  <1> QED
    BY <1>1, <1>2 DEF Cell, CellAt

\* oled_refresh that succeeds: the display shows the framebuffer.
LEMMA RefreshShows ==
    ASSUME NEW image \in [Cell -> Ink], RefreshWorks(image)
    PROVE  screen' = image
  <1>1. screen' = Overwritten(screen, image, 1, Cells)
    <2>1. Cells + 1 # 0 /\ (Cells + 1) - 1 = Cells /\ Home(next) = 1
      BY HardwareAssumption DEF Home
    <2>2. screen' = Overwritten(screen, image, Home(next), (Cells + 1) - 1)
      BY <2>1 DEF RefreshWorks, Take
    <2> QED
      BY <2>1, <2>2
  <1>2. ASSUME NEW c \in Cell PROVE screen'[c] = image[c]
    <2>1. c \in 1..Cells /\ \A i \in 1..Cells : CellAt(1, i) = i
      BY InOrder DEF Cell
    <2>2. (CHOOSE i \in 1..Cells : CellAt(1, i) = c) = c
      BY <2>1
    <2> QED
      BY <1>1, <2>1, <2>2 DEF Overwritten
  <1>3. screen' = [c \in Cell |-> screen'[c]]
    BY <1>1 DEF Overwritten
  <1> QED
    BY <1>2, <1>3

\* The framebuffers: every opened OLED has one, and so has the one the display
\* was last refreshed from.
FrameOK ==
    /\ frame \in [DOMAIN frame -> [Cell -> Ink]]
    /\ \A d \in Configured :
         devices[d].opened /\ devices[d].type = "oled" => d \in DOMAIN frame
    /\ told.screen # Nothing => told.screen \in DOMAIN frame

ScreenInv == told \in Tolds /\ FrameOK /\ ScreenAsTold

\* A device command changes one Device, and never its type.
LEMMA OneDevice ==
    ASSUME IndInv, NEW d \in Configured, Command(d)
    PROVE  /\ DOMAIN devices' = Configured
           /\ \A c \in Configured : c # d => devices'[c] = devices[c]
           /\ devices'[d].type = devices[d].type
  <1>1. PICK dev : Effect(d, dev)
    BY CommandEffect
  <1> QED
    BY <1>1 DEF Effect, Put, IndInv, TypeOK, Configured

\* No OLED has been opened by the step.
NoNewOled ==
    \A c \in DOMAIN devices' :
        devices'[c].opened /\ devices'[c].type = "oled" =>
            c \in Configured /\ devices[c].opened /\ devices[c].type = "oled"

\* An operation opens no device, and needs an opened one to succeed.
LEMMA DoneOpens ==
    ASSUME IndInv, NEW d \in Configured, NEW err \in Errno, Done(d, err)
    PROVE  NoNewOled
  <1>1. DevOK(devices[d])
    BY DEF IndInv
  <1>2. devices' = [devices EXCEPT ![d] = Access(devices[d], err)]
    BY DEF Done, Put
  <1> QED
    BY <1>1, <1>2, AccessDevOK DEF NoNewOled, IndInv, TypeOK, Configured

\* Neither does a command on another kind of device.
LEMMA OtherOpens ==
    ASSUME IndInv, NEW d \in Configured, Command(d), devices[d].type # "oled"
    PROVE  NoNewOled
  BY OneDevice DEF NoNewOled

\* A step that leaves display and framebuffers alone.
LEMMA SameScreen ==
    ASSUME ScreenInv, NoNewOled, UNCHANGED <<frame, screen>>, told' \in Tolds,
           told'.screen \in {told.screen, Nothing}
    PROVE  ScreenInv'
  BY DEF ScreenInv, FrameOK, ScreenAsTold, NoNewOled, Configured

\* device close, reload and destroy: framebuffers go with their devices.
LEMMA ForgetInv ==
    ASSUME ScreenInv, NEW S, Forget(S), NoNewOled,
           \A c \in DOMAIN devices' : devices'[c].opened => c \notin S
    PROVE  ScreenInv'
  <1>1. told' \in Tolds
        /\ told'.screen = IF told.screen \in S THEN Nothing ELSE told.screen
    BY DEF ScreenInv, Forget, Tell, Tolds
  <1>2. DOMAIN frame' = DOMAIN frame \ S /\ screen' = screen
        /\ \A d \in DOMAIN frame' : frame'[d] = frame[d]
    BY DEF Forget
  <1>3. frame' \in [DOMAIN frame' -> [Cell -> Ink]]
    BY <1>2 DEF Forget, ScreenInv, FrameOK
  <1> QED
    BY <1>1, <1>2, <1>3 DEF ScreenInv, FrameOK, ScreenAsTold, NoNewOled, Configured

\* A framebuffer that is drawn into is no longer what the display shows.
LEMMA DrawInv ==
    ASSUME ScreenInv, NEW d \in DOMAIN frame, NEW image \in [Cell -> Ink],
           frame' = [frame EXCEPT ![d] = image], NoNewOled, screen' = screen,
           Tell("screen", IF told.screen = d THEN Nothing ELSE told.screen)
    PROVE  ScreenInv'
  <1>1. told' \in Tolds
        /\ told'.screen = IF told.screen = d THEN Nothing ELSE told.screen
    BY DEF ScreenInv, Tell, Tolds
  <1>2. DOMAIN frame' = DOMAIN frame /\ frame' \in [DOMAIN frame' -> [Cell -> Ink]]
        /\ \A c \in DOMAIN frame : c # d => frame'[c] = frame[c]
    BY DEF ScreenInv, FrameOK
  <1> QED
    BY <1>1, <1>2 DEF ScreenInv, FrameOK, ScreenAsTold, NoNewOled, Configured

LEMMA OledInv ==
    ASSUME IndInv, ScreenInv, NEW d \in Configured, OledCommand(d)
    PROVE  ScreenInv'
  <1>1. d \in Name /\ DevOK(devices[d]) /\ devices[d].type = "oled" /\ told \in Tolds
    BY DEF IndInv, TypeOK, Configured, OledCommand, ScreenInv
  <1>2. Ready(d) => d \in DOMAIN frame /\ frame[d] \in [Cell -> Ink]
    BY <1>1, ReadyMeans DEF Ready, ScreenInv, FrameOK
  <1>3. Blank \in [Cell -> Ink]
    BY DEF Blank, Ink
  <1>4. None \in Errno /\ "EILSEQ" \in Errno /\ BackendErrors \subseteq Errno
    BY DEF Errno
  <1>5. CASE Refused(d)
    <2>1. NoNewOled
      BY <1>4, <1>5, DoneOpens DEF Refused
    <2> QED
      BY <1>1, <1>5, <2>1, SameScreen DEF Refused, hardware
  <1>6. CASE OledSwitch(d)
    <2>1. PICK err \in BackendErrors \cup {None} : Done(d, err)
      BY <1>6 DEF OledSwitch
    <2>2. NoNewOled
      BY <1>4, <2>1, DoneOpens
    <2> QED
      BY <1>1, <1>6, <2>2, SameScreen DEF OledSwitch, hardware
  <1>7. CASE CmdClose(d) /\ Forget({d})
    <2>1. PICK dev : Effect(d, dev) /\ ~dev.opened
      BY <1>7, CloseEffect
    <2>2. DOMAIN devices' = Configured /\ devices'[d] = dev
          /\ \A c \in Configured : c # d => devices'[c] = devices[c]
      BY <2>1 DEF Effect, Put, IndInv, TypeOK, Configured
    <2>3. NoNewOled /\ \A c \in DOMAIN devices' : devices'[c].opened => c \notin {d}
      BY <2>1, <2>2 DEF NoNewOled
    <2> QED
      BY <1>7, <2>3, ForgetInv
  <1>8. CASE OledRefresh(d)
    <2>1. Ready(d) /\ frame' = frame /\ frame[d] \in [Cell -> Ink] /\ d \in DOMAIN frame
      BY <1>2, <1>8 DEF OledRefresh
    <2>2. CASE RefreshWorks(frame[d]) /\ Done(d, None) /\ Tell("screen", d)
      <3>1. NoNewOled
        BY <1>4, <2>2, DoneOpens
      <3>2. screen' = frame[d]
        BY <2>1, <2>2, RefreshShows
      <3>3. told' \in Tolds /\ told'.screen = d
        BY <1>1, <2>2, TellScreen
      <3> QED
        BY <2>1, <3>1, <3>2, <3>3
           DEF ScreenInv, FrameOK, ScreenAsTold, NoNewOled, Configured
    <2>3. ASSUME NEW err \in BackendErrors, Done(d, err), Tell("screen", Nothing)
          PROVE  ScreenInv'
      <3>1. NoNewOled
        BY <1>4, <2>3, DoneOpens
      <3>2. told' \in Tolds /\ told'.screen = Nothing
        BY <1>1, <2>3, TellScreen
      <3> QED
        BY <2>1, <3>1, <3>2
           DEF ScreenInv, FrameOK, ScreenAsTold, NoNewOled, Configured
    <2> QED
      BY <1>8, <2>2, <2>3 DEF OledRefresh
  <1>9. CASE OledClear(d)
    <2>1. NoNewOled
      BY <1>4, <1>9, DoneOpens DEF OledClear
    <2> QED
      BY <1>2, <1>3, <1>9, <2>1, DrawInv DEF OledClear
  <1>10. CASE OledText(d)
    <2>1. PICK err \in Utf8Results : Done(d, err)
      BY <1>10 DEF OledText
    <2>2. NoNewOled
      BY <1>4, <2>1, DoneOpens DEF Utf8Results
    <2> QED
      BY <1>2, <1>10, <2>2, DrawInv DEF OledText
  <1>11. CASE OledOpen(d)
    <2>1. DOMAIN devices' = Configured /\ devices'[d].type = "oled"
          /\ \A c \in Configured : c # d => devices'[c] = devices[c]
      BY <1>1, <1>11, OneDevice DEF OledOpen, Command
    <2>2. CASE devices'[d].opened /\ ~devices[d].opened
      <3>1. RefreshWorks(Blank) /\ Tell("screen", d)
            /\ frame' = [c \in DOMAIN frame \cup {d} |->
                           IF c = d THEN Blank ELSE frame[c]]
        BY <1>11, <2>2 DEF OledOpen
      <3>2. screen' = Blank /\ told' \in Tolds /\ told'.screen = d
        BY <1>1, <1>3, <3>1, RefreshShows, TellScreen
      <3>3. frame' \in [DOMAIN frame' -> [Cell -> Ink]] /\ frame'[d] = Blank
            /\ DOMAIN frame' = DOMAIN frame \cup {d}
        BY <1>3, <3>1 DEF ScreenInv, FrameOK
      <3> QED
        BY <2>1, <3>2, <3>3 DEF ScreenInv, FrameOK, ScreenAsTold, Configured
    <2>3. CASE ~(devices'[d].opened /\ ~devices[d].opened)
      <3>1. NoNewOled /\ frame' = frame
        BY <1>1, <1>11, <2>1, <2>3 DEF NoNewOled, OledOpen
      <3>2. CASE Tell("screen", Nothing)
        <4>1. told' \in Tolds /\ told'.screen = Nothing
          BY <1>1, <3>2, TellScreen
        <4> QED
          BY <3>1, <4>1 DEF ScreenInv, FrameOK, ScreenAsTold, NoNewOled, Configured
      <3>3. CASE UNCHANGED <<screen, next, told>>
        BY <1>1, <3>1, <3>3, SameScreen
      <3> QED
        BY <1>11, <2>3, <3>2, <3>3 DEF OledOpen
    <2> QED
      BY <2>2, <2>3
  <1> QED
    BY <1>5, <1>6, <1>7, <1>8, <1>9, <1>10, <1>11 DEF OledCommand

LEMMA NextScreenInv ==
    ASSUME IndInv, ScreenInv, [HwNext]_<<vars, hardware>>
    PROVE  ScreenInv'
  <1>1. told \in Tolds
    BY DEF ScreenInv
  <1>2. ASSUME NoNewOled, UNCHANGED hardware
        PROVE  ScreenInv'
    BY <1>1, <1>2, SameScreen DEF hardware
  <1>3. ASSUME NoNewOled, NEW word \in LedWords, NEW ok \in BOOLEAN, LedControl(word, ok)
        PROVE  ScreenInv'
    <2>1. told' \in Tolds /\ told'.screen = told.screen
      BY <1>1, <1>3 DEF LedControl, Tell, Tolds
    <2> QED
      BY <1>3, <2>1, SameScreen DEF LedControl
  <1>4. UNCHANGED devices => NoNewOled
    BY DEF NoNewOled, Configured
  <1>5. ASSUME NEW d \in Configured, LedCommand(d)
        PROVE  ScreenInv'
    <2>1. NoNewOled
      BY <1>5, HwCommand, OtherOpens DEF LedCommand
    <2> QED
      BY <1>2, <1>3, <1>5, <2>1 DEF LedCommand, Refused, DeviceLed
  <1>6. ASSUME NEW d \in Configured, OtherCommand(d)
        PROVE  ScreenInv'
    <2>1. NoNewOled
      BY <1>6, HwCommand, OtherOpens DEF OtherCommand
    <2> QED
      BY <1>2, <1>6, <2>1 DEF OtherCommand
  <1>7. ASSUME NEW word \in LedWords, BuiltinLed(word)
        PROVE  ScreenInv'
    BY <1>3, <1>4, <1>7 DEF BuiltinLed, vars
  <1>8. CASE Blink
    BY <1>1, <1>4, <1>8, SameScreen DEF Blink, vars
  <1>9. CASE CmdReload /\ Forget(Configured)
    <2>1. PICK list \in Lists : devices' = NewTable(list)
      BY <1>9 DEF CmdReload
    <2>2. \A c \in DOMAIN devices' : ~devices'[c].opened
      BY <2>1, NewTableOK
    <2> QED
      BY <1>9, <2>2, ForgetInv DEF NoNewOled
  <1>10. CASE Destroy /\ Forget(Configured)
    <2>1. DOMAIN devices' = {}
      BY <1>10 DEF Destroy
    <2> QED
      BY <1>10, <2>1, ForgetInv DEF NoNewOled
  <1>11. CASE (StartChild \/ Ended) /\ UNCHANGED hardware
    BY <1>2, <1>4, <1>11 DEF StartChild, Ended, vars
  <1>12. CASE UNCHANGED <<vars, hardware>>
    BY <1>2, <1>4, <1>12 DEF vars
  <1> QED
    BY OledInv, <1>5, <1>6, <1>7, <1>8, <1>9, <1>10, <1>11, <1>12 DEF HwNext

\* After an oled_refresh or oled_init that succeeded the display shows the
\* framebuffer, whatever a failed transfer before had left in its memory and
\* address counter; for every number of packets.
THEOREM ScreenTruth == HwSpec => []ScreenAsTold
  <1>1. HwInit => ScreenInv
    <2> SUFFICES ASSUME HwInit PROVE ScreenInv
      OBVIOUS
    <2>1. told \in Tolds /\ told.screen = Nothing
      BY DEF HwInit, Tolds
    <2>2. DOMAIN frame = {} /\ frame \in [DOMAIN frame -> [Cell -> Ink]]
      BY DEF HwInit
    <2>3. \A d \in Configured : ~devices[d].opened
      BY DEF HwInit, Init, DeviceInit, Configured
    <2> QED
      BY <2>1, <2>2, <2>3 DEF ScreenInv, FrameOK, ScreenAsTold
  <1>2. ScreenInv => ScreenAsTold
    BY DEF ScreenInv
  <1> QED
    BY <1>1, <1>2, NextScreenInv, HwInductive, PTL DEF HwSpec
=============================================================================
