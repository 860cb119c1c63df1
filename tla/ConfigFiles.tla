---------------------------- MODULE ConfigFiles ----------------------------
(***************************************************************************)
(* The two configuration files: device_config_load (src/device_config.c)   *)
(* and config_load (config/config.c).  Both read a file line by line into  *)
(* a temporary and give it to the caller when everything has succeeded;    *)
(* opening, reading and closing may fail.  A behaviour is one load.        *)
(***************************************************************************)
EXTENDS ConfigMeaning

CONSTANTS
    LineSets,       \* the lines of a behaviour's file come from one of these,
    ShellLineSets,  \* and those of a shell configuration from one of these
    MaxLines        \* bound on the lines of a file

\* A line of the shell's configuration is what one fgets returns.
ASSUME LinesAssumption ==
    /\ MaxLines \in Nat
    /\ \A some \in LineSets \cup ShellLineSets : some \subseteq LineType
    /\ \A some \in ShellLineSets : \A l \in some :
         l.length + (IF l.newline THEN 1 ELSE 0) <= ShellLineSize - 1

VARIABLES
    which,          \* the file being loaded: "devices" or "shell"
    lines,          \* the lines it may have
    file,           \* the lines read so far
    pc, result,     \* the next step, and whether all went well
    io,             \* a call of stdio has failed
    temporary,      \* the configuration read so far
    fields,         \* keys of the current section
    target          \* the caller's configuration

vars == <<which, lines, file, pc, result, io, temporary, fields, target>>

Key == {"type", "path", "enabled", "baudrate", "address", "offset",
        "direction", "bias", "initial_value", "led_name"}

---------------------------------------------------------------------------
(* Device sections.                                                        *)

\* device_config_init
DeviceConfigInit(name) ==
    [name |-> name, type |-> "uart", path |-> NoText, led_name |-> NoText,
     enabled |-> 1, baudrate |-> 115200, address |-> 0, offset |-> 0,
     output |-> FALSE, initial_value |-> 0, bias |-> "default"]

NameValid(name) == name \in GoodNames

\* device_config_validate, of what the type uses
ConfigValid(c) ==
    /\ NameValid(c.name)
    /\ CASE c.type = "led" -> c.led_name \in GoodLeds
         [] c.type = "uart" -> c.path \in GoodPaths /\ c.baudrate \in Rates
         [] c.type \in {"i2c", "oled"} ->
              c.path \in GoodPaths /\ c.address >= 3 /\ c.address <= 119
         [] c.type = "gpio" ->
              c.path \in GoodPaths /\ (c.output => c.bias = "default")

CopyFits(v, size) == v.len > 0 /\ v.len < size

\* config_unsigned: a sign is refused, and a number beyond unsigned long.
UnsignedOk(v, maximum) == IsNumber(v) /\ v.num >= 0 /\ v.num <= maximum

\* config_field accepts the line.
FieldOk(key, v) ==
    /\ key \in Key /\ key \notin fields /\ v.len > 0
    /\ CASE key = "type" -> v.text \in Types
         [] key = "path" -> CopyFits(v, PathSize)
         [] key = "led_name" -> CopyFits(v, NameSize)
         [] key \in {"enabled", "initial_value"} -> UnsignedOk(v, 1)
         [] key = "baudrate" -> UnsignedOk(v, IntMax)
         [] key \in {"address", "offset"} -> UnsignedOk(v, UIntMax)
         [] key = "direction" -> v.text \in {"input", "output"}
         [] key = "bias" -> v.text \in Biases

SetField(c, key, v) ==
    CASE key \in {"type", "path", "led_name", "bias"} -> [c EXCEPT ![key] = v.text]
      [] key = "direction" -> [c EXCEPT !.output = v.text = "output"]
      [] OTHER -> [c EXCEPT ![key] = v.num]

RequiredFields(c) ==
    {"type"} \cup
    CASE c.type = "uart" -> {"path"}
      [] c.type \in {"i2c", "oled"} -> {"path", "address"}
      [] c.type = "gpio" -> {"path", "offset"}
      [] c.type = "led" -> {"led_name"}

AllowedFields(c) ==
    RequiredFields(c) \cup {"enabled"} \cup
    CASE c.type = "uart" -> {"baudrate"}
      [] c.type = "gpio" -> {"direction", IF c.output THEN "initial_value" ELSE "bias"}
      [] OTHER -> {}

\* config_section_validate, of the last section
SectionValid ==
    LET c == temporary[Len(temporary)]
    IN  /\ RequiredFields(c) \subseteq fields
        /\ fields \subseteq AllowedFields(c)
        /\ ConfigValid(c)

---------------------------------------------------------------------------
(* Loading.                                                                *)

Stay == UNCHANGED <<which, lines, target>>

Refuse ==
    /\ pc' = "close" /\ result' = FALSE
    /\ UNCHANGED <<temporary, fields>>

\* The file is opened, or not.
Open ==
    /\ pc = "open"
    /\ \/ pc' = "read" /\ UNCHANGED <<result, io>>
       \/ pc' = "return" /\ result' = FALSE /\ io' = TRUE
    /\ UNCHANGED <<file, temporary, fields>> /\ Stay

\* Seeded bug: the section before the header is not validated.
HeaderOk_alone(v) ==
    /\ NameValid(v.text) /\ v.len < NameSize
    /\ \A n \in 1..Len(temporary) : temporary[n].name # v.text
    /\ Len(temporary) # MaxDevices

\* A header ends the section before it.
HeaderOk(v) ==
    /\ Len(temporary) > 0 => SectionValid
    /\ NameValid(v.text) /\ v.len < NameSize
    /\ \A n \in 1..Len(temporary) : temporary[n].name # v.text
    /\ Len(temporary) # MaxDevices

\* config_read_line refuses a NUL and the first character too many.
DeviceLineFits(l) == l.nul = "none" /\ l.length + 1 <= DeviceLineSize

DeviceLine(l) ==
    \/ /\ DeviceLineFits(l) /\ l.kind \in {"blank", "semicolon"}
       /\ UNCHANGED <<pc, result, temporary, fields>>
    \/ /\ DeviceLineFits(l) /\ l.kind = "header" /\ HeaderOk(l.value)
       /\ temporary' = Append(temporary, DeviceConfigInit(l.value.text))
       /\ fields' = {}
       /\ UNCHANGED <<pc, result>>
    \/ /\ DeviceLineFits(l) /\ l.kind = "field"
       /\ Len(temporary) > 0 /\ FieldOk(l.key, l.value)
       /\ temporary' = [temporary EXCEPT ![Len(temporary)] = SetField(@, l.key, l.value)]
       /\ fields' = fields \cup {l.key}
       /\ UNCHANGED <<pc, result>>
    \/ /\ \/ ~DeviceLineFits(l)
          \/ l.kind \in {"badheader", "text"}
          \/ l.kind = "header" /\ ~HeaderOk(l.value)
          \/ l.kind = "field" /\ (Len(temporary) = 0 \/ ~FieldOk(l.key, l.value))
       /\ Refuse

\* The end of the file is seen behind a line without newline, unless fgets
\* stopped there because its buffer was full.
AtEof(l) == ~l.newline /\ (which = "shell" => l.length < ShellLineSize - 1)

\* Seeded bug: the length in bytes instead of strlen.
ShellLineWhole_bytes(l) == l.newline \/ AtEof(l)

\* length > 0 && line[length - 1] != '\n' && !feof(fp): the string ends at the
\* first NUL.
ShellLineWhole(l) == l.nul = "first" \/ (l.newline /\ l.nul = "none") \/ AtEof(l)

MaxJobOk(v) == IsNumber(v) /\ v.num > 0 /\ v.num <= IntMax

\* strcmp with the text of one digit
IsDigit(v, n) == IsNumber(v) /\ v.len = 1 /\ v.num = n

\* config_parse_line
ShellFieldOk(key, v) ==
    CASE key = "prompts" -> CopyFits(v, PromptSize)
      [] key = "max_job" -> MaxJobOk(v)
      [] key = "debug" -> IsDigit(v, 0) \/ IsDigit(v, 1)
      [] OTHER -> FALSE

ShellLine(l) ==
    \/ /\ ShellLineWhole(l) /\ l.kind = "blank"
       /\ UNCHANGED <<pc, result, temporary, fields>>
    \/ /\ ShellLineWhole(l) /\ l.kind = "field" /\ ShellFieldOk(l.key, l.value)
       /\ temporary' = [temporary EXCEPT ![l.key] =
                          IF l.key = "prompts" THEN l.value.text ELSE l.value.num]
       /\ UNCHANGED <<pc, result, fields>>
    \/ /\ \/ ~ShellLineWhole(l)
          \/ l.kind \notin {"blank", "field"}
          \/ l.kind = "field" /\ ~ShellFieldOk(l.key, l.value)
       /\ Refuse

\* Behind a line without newline there is another one only if its buffer was
\* full.
ReadLine(l) ==
    /\ pc = "read" /\ Len(file) < MaxLines
    /\ file # <<>> => ~AtEof(file[Len(file)])
    /\ file' = Append(file, l)
    /\ IF which = "devices" THEN DeviceLine(l) ELSE ShellLine(l)
    /\ UNCHANGED io /\ Stay

\* ferror
ReadError ==
    /\ pc = "read"
    /\ Refuse
    /\ io' = TRUE
    /\ UNCHANGED file /\ Stay

\* At the end the last section is validated.
EndOfFile ==
    /\ pc = "read"
    /\ pc' = "close"
    /\ result' = (which = "devices" /\ Len(temporary) > 0 => SectionValid)
    /\ UNCHANGED <<file, io, temporary, fields>> /\ Stay

\* fclose, and the configuration for the caller.
Close ==
    /\ pc = "close"
    /\ pc' = "return"
    /\ \E ok \in BOOLEAN :
         /\ result' = (result /\ ok)
         /\ io' = (io \/ ~ok)
    /\ target' = IF result' THEN temporary ELSE target
    /\ UNCHANGED <<which, lines, file, temporary, fields>>

---------------------------------------------------------------------------
\* config_init
ConfigInit == [prompts |-> "MiniShell", max_job |-> 64, debug |-> 0]

\* What the caller had before.
Before ==
    IF which = "devices" THEN <<DeviceConfigInit("before")>>
    ELSE [prompts |-> "before", max_job |-> 1, debug |-> 1]

Init ==
    /\ \/ which = "devices" /\ lines \in LineSets
       \/ which = "shell" /\ lines \in ShellLineSets
    /\ file = <<>> /\ pc = "open" /\ result = TRUE /\ io = FALSE
    /\ temporary = IF which = "devices" THEN <<>> ELSE ConfigInit
    /\ fields = {} /\ target = Before

Returned == pc = "return" /\ UNCHANGED vars

Next ==
    \/ Open \/ (\E l \in lines : ReadLine(l)) \/ ReadError \/ EndOfFile \/ Close
    \/ Returned

Spec == Init /\ [][Next]_vars

TypeOK ==
    /\ which \in {"devices", "shell"}
    /\ lines \in IF which = "devices" THEN LineSets ELSE ShellLineSets
    /\ file \in Seq(lines) /\ Len(file) <= MaxLines
    /\ pc \in {"open", "read", "close", "return"}
    /\ result \in BOOLEAN /\ io \in BOOLEAN
    /\ fields \subseteq Key

---------------------------------------------------------------------------
(* Properties.                                                             *)

\* A load succeeds for the files that are valid as a whole, unless stdio
\* fails, and gives the caller what the file means; after every failure the
\* caller has what it had.  The lines of a file that is refused have not all
\* been read: what follows cannot make it valid.
AsWritten(kind, valid, meaning) ==
    (which = kind /\ pc = "return") =>
        /\ result => valid /\ target = meaning
        /\ ~result => target = Before /\ (io \/ ~valid)

\* device_config_load: sections are validated when the next one begins or the
\* file ends, and fields may come in any order.
DevicesAsWritten == AsWritten("devices", ValidDevices(file), Devices(file))

\* config_load: all or nothing, over the defaults, the last line of a key wins,
\* also for lines with a NUL in them, and for those cut by the buffer.
ShellAsWritten == AsWritten("shell", ValidShell(file), Shell(file, ConfigInit))
=============================================================================
