--------------------------- MODULE DeviceHardware ---------------------------
(***************************************************************************)
(* What the device commands do to the board: the LED behind sysfs          *)
(* (src/led_control.c, src/sysfs_io.c) and the display behind the I2C bus  *)
(* (src/oled.c, src/i2c_bus.c), together with the table of DeviceManager.  *)
(*                                                                         *)
(* A command makes several writes; each may fail, and one that fails may   *)
(* or may not have reached the hardware.  Several devices of the table may *)
(* stand for the same LED or display.  Commands run one at a time; another *)
(* program that writes to the same hardware is not modelled.               *)
(***************************************************************************)
EXTENDS DeviceManager

CONSTANTS
    Cells,          \* data packets of a frame
    MaxBrightness   \* of the LED

ASSUME HardwareAssumption == Cells \in Nat \ {0} /\ MaxBrightness \in Nat \ {0}

VARIABLES
    frame,          \* the framebuffer of every opened OLED device
    screen, next,   \* the display: its memory, and the cell the next data goes to
    lamp,           \* the LED: trigger and brightness
    told            \* the last success that was reported for each

hardware == <<frame, screen, next, lamp, told>>

Cell == 1..Cells
Ink == {0, 1}
Blank == [c \in Cell |-> 0]
Triggers == {"none", "heartbeat"}
LedWords == {"on", "off"} \cup Triggers
Nothing == "nothing"

HardwareOK ==
    /\ frame \in [DOMAIN frame -> [Cell -> Ink]]
    /\ screen \in [Cell -> Ink] /\ next \in Cell
    /\ lamp \in [trigger : Triggers, brightness : {0, MaxBrightness}]
    /\ told \in [screen : Name \cup {Nothing}, lamp : LedWords \cup {Nothing}]

Ready(d) == ReadyError(devices[d]) = None

\* device_ready refuses.
Refused(d) == ~Ready(d) /\ Done(d, None) /\ UNCHANGED hardware

---------------------------------------------------------------------------
(* The LED.                                                                *)

Tell(what, value) == told' = [told EXCEPT ![what] = value]

\* Seeded bug: a write that succeeds is not read back.
Confirmed_written(want, got) == TRUE

\* The write succeeded; the value read back decides.
Confirmed(want, got) == want = got

\* sysfs_write_text: one that fails may have had its effect, one that succeeds
\* may have been ignored.
SysfsWrite(before, after) == {before, after}

\* The LEDs a write to trigger may leave.  The kernel switches the LED off when
\* the trigger changes.
LedWriteTrigger(t, ok) ==
    LET changed == IF lamp.trigger = t THEN lamp ELSE [trigger |-> t, brightness |-> 0]
    IN  {l \in SysfsWrite(lamp, changed) : ok => Confirmed(t, l.trigger)}

LedWriteBrightness(before, v, ok) ==
    {l \in SysfsWrite(before, [before EXCEPT !.brightness = v]) :
       ok => Confirmed(v, l.brightness)}

\* led_control_set_on and led_control_set_off.  To fail before any write, at
\* max_brightness, is the same as a first write without effect.
LedControlSet(v, ok) ==
    (UNION {LedWriteBrightness(l, v, ok) : l \in LedWriteTrigger("none", TRUE)})
        \cup (IF ok THEN {} ELSE LedWriteTrigger("none", FALSE))

LedControl(word, ok) ==
    /\ lamp' \in CASE word = "on" -> LedControlSet(MaxBrightness, ok)
                   [] word = "off" -> LedControlSet(0, ok)
                   [] word \in Triggers -> LedWriteTrigger(word, ok)
    /\ Tell("lamp", IF ok THEN word ELSE Nothing)
    /\ UNCHANGED <<frame, screen, next>>

\* device led and device write.
DeviceLed(d, word) ==
    /\ Ready(d)
    /\ \/ LedControl(word, TRUE) /\ Done(d, None)
       \/ LedControl(word, FALSE) /\ \E err \in BackendErrors : Done(d, err)

\* The builtin led goes to the LED past the device table.
BuiltinLed(word) == up /\ (\E ok \in BOOLEAN : LedControl(word, ok)) /\ UNCHANGED vars

LedCommand(d) ==
    /\ devices[d].type = "led"
    /\ \/ (CmdOpen(d) \/ CmdClose(d) \/ CmdRead(d)) /\ UNCHANGED hardware
       \/ Refused(d)
       \/ \E word \in LedWords : DeviceLed(d, word)

\* The kernel's trigger drives the LED.
Blink ==
    /\ up /\ lamp.trigger # "none"
    /\ lamp' = [lamp EXCEPT !.brightness = MaxBrightness - @]
    /\ UNCHANGED <<vars, frame, screen, next, told>>

---------------------------------------------------------------------------
(* The display.                                                            *)

\* Seeded bug: the data starts where the last transfer stopped.
Home_not(c) == c

\* The first packet of oled_refresh sets columns and pages: the data starts
\* at the first cell again.
Home(c) == 1

\* The cell that packet i of data goes to, counted from the cell start; after
\* the last cell comes the first.
CellAt(start, i) == ((start + i - 2) % Cells) + 1

\* The memory before with data packets of image from the cell start on.
Overwritten(before, image, start, data) ==
    [c \in Cell |->
        IF \E i \in 1..data : CellAt(start, i) = c
          THEN image[CHOOSE i \in 1..data : CellAt(start, i) = c]
          ELSE before[c]]

\* The display has taken the first n packets of a refresh of image: the
\* window, and n - 1 packets of data.
Take(image, n) ==
    IF n = 0 THEN UNCHANGED <<screen, next>>
             ELSE /\ screen' = Overwritten(screen, image, Home(next), n - 1)
                  /\ next' = CellAt(Home(next), n)

\* oled_refresh fails at a packet that the display may have taken.
RefreshFails(image) == \E n \in 0..(Cells + 1) : Take(image, n)

RefreshWorks(image) == Take(image, Cells + 1)

OledRefresh(d) ==
    /\ Ready(d)
    /\ \/ RefreshWorks(frame[d]) /\ Done(d, None) /\ Tell("screen", d)
       \/ /\ RefreshFails(frame[d]) /\ Tell("screen", Nothing)
          /\ \E err \in BackendErrors : Done(d, err)
    /\ UNCHANGED <<frame, lamp>>

\* oled_clear
OledClear(d) ==
    /\ Ready(d) /\ Done(d, None)
    /\ frame' = [frame EXCEPT ![d] = Blank]
    /\ Tell("screen", IF told.screen = d THEN Nothing ELSE told.screen)
    /\ UNCHANGED <<screen, next, lamp>>

\* utf8_next, for the characters of a text.
Utf8Results == {None, "EILSEQ"}

\* oled_draw_text_utf8: the glyphs set and clear pixels of any cells; a byte
\* that is not UTF-8 stops it with the characters before drawn.
OledText(d) ==
    /\ Ready(d)
    /\ \E image \in [Cell -> Ink] : frame' = [frame EXCEPT ![d] = image]
    /\ \E err \in Utf8Results : Done(d, err)
    /\ Tell("screen", IF told.screen = d THEN Nothing ELSE told.screen)
    /\ UNCHANGED <<screen, next, lamp>>

\* oled_display_on and oled_display_off: the memory of the display stays.
OledSwitch(d) ==
    /\ Ready(d)
    /\ \E err \in BackendErrors \cup {None} : Done(d, err)
    /\ UNCHANGED hardware

\* oled_open and oled_init: an empty framebuffer, the initial commands, and a
\* refresh.  A failure closes the bus.
OledOpen(d) ==
    /\ CmdOpen(d)
    /\ IF devices'[d].opened /\ ~devices[d].opened
         THEN /\ frame' = [c \in DOMAIN frame \cup {d} |->
                             IF c = d THEN Blank ELSE frame[c]]
              /\ RefreshWorks(Blank) /\ Tell("screen", d)
         ELSE /\ IF devices[d].enabled /\ ~devices[d].opened
                   THEN RefreshFails(Blank) /\ Tell("screen", Nothing)
                   ELSE UNCHANGED <<screen, next, told>>
              /\ UNCHANGED frame
    /\ UNCHANGED lamp

\* The display keeps its picture.
Forget(S) ==
    /\ frame' = [d \in DOMAIN frame \ S |-> frame[d]]
    /\ Tell("screen", IF told.screen \in S THEN Nothing ELSE told.screen)
    /\ UNCHANGED <<screen, next, lamp>>

OledCommand(d) ==
    /\ devices[d].type = "oled"
    /\ \/ OledOpen(d) \/ Refused(d)
       \/ CmdClose(d) /\ Forget({d})
       \/ OledRefresh(d) \/ OledClear(d) \/ OledText(d) \/ OledSwitch(d)

---------------------------------------------------------------------------
HwInit ==
    /\ Init
    /\ frame = [d \in {} |-> Blank]
    /\ screen \in [Cell -> Ink] /\ next \in Cell
    /\ lamp = [trigger |-> "heartbeat", brightness |-> 0]
    /\ told = [screen |-> Nothing, lamp |-> Nothing]

\* What the other devices drive is not modelled.
OtherCommand(d) ==
    /\ devices[d].type \in {"uart", "i2c", "gpio"}
    /\ CmdOpen(d) \/ CmdClose(d) \/ CmdRead(d) \/ CmdWrite(d) \/ CmdUart(d)
    /\ UNCHANGED hardware

HwNext ==
    \/ \E d \in Configured : LedCommand(d) \/ OledCommand(d) \/ OtherCommand(d)
    \/ \E word \in LedWords : BuiltinLed(word)
    \/ Blink
    \/ CmdReload /\ Forget(Configured)
    \/ StartChild /\ UNCHANGED hardware
    \/ Destroy /\ Forget(Configured)
    \/ Ended /\ UNCHANGED hardware

HwSpec == HwInit /\ [][HwNext]_<<vars, hardware>>

---------------------------------------------------------------------------
(* Properties.                                                             *)

\* After a refresh or an open that reports success the display shows the
\* framebuffer, cell by cell, whatever failed halfway before, and until the
\* framebuffer is changed or another transfer to the display is tried.
ScreenAsTold == told.screen # Nothing => screen = frame[told.screen]

\* A success of led, device led or device write is the truth, though trigger and
\* brightness are two writes and the kernel or the driver may ignore one: "on"
\* and "off" mean manual mode at that brightness, and a trigger is the active
\* one.
LampAsTold ==
    CASE told.lamp = "on" -> lamp = [trigger |-> "none", brightness |-> MaxBrightness]
      [] told.lamp = "off" -> lamp = [trigger |-> "none", brightness |-> 0]
      [] told.lamp \in Triggers -> lamp.trigger = told.lamp
      [] OTHER -> TRUE
=============================================================================
