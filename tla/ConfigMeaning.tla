--------------------------- MODULE ConfigMeaning ---------------------------
(***************************************************************************)
(* What a configuration file means, as a whole and line order aside: which *)
(* device files and shell configurations are valid, and the configuration  *)
(* a valid one stands for.  ConfigFiles, which reads them line by line, is *)
(* compared with this.                                                     *)
(*                                                                         *)
(* A line is [kind, key, value, length, newline, nul]: length counts the   *)
(* bytes before its newline, if it has one, and nul says where its first   *)
(* NUL is.  Kind, key and value are those of the text before that NUL; a   *)
(* header has its name as its value.  A shell line that does not fit in    *)
(* the buffer is two lines or more, of which only the last has the         *)
(* newline.                                                                *)
(*                                                                         *)
(* A value is [text, len, num]: the number num if text is "digits", and    *)
(* otherwise the text, with its length.  Only strtol takes a sign, so that *)
(* a number with a sign is a text in a device file.                        *)
(***************************************************************************)
EXTENDS Integers, Sequences, FiniteSets

CONSTANTS
    DeviceLineSize, ShellLineSize,  \* buffers for a line
    NameSize, PathSize, PromptSize, \* buffers for values
    MaxDevices,                     \* DEVICE_MAX_COUNT
    IntMax, UIntMax

ASSUME SizesAssumption ==
    /\ {DeviceLineSize, ShellLineSize, NameSize, PathSize, PromptSize} \subseteq Nat
    /\ {MaxDevices, IntMax, UIntMax} \subseteq Nat
    /\ 230400 <= IntMax /\ IntMax <= UIntMax

Kinds == {"blank", "semicolon", "header", "badheader", "field", "text"}

\* The text of length 0.
NoText == "none"

IsNumber(v) == v.text = "digits"

ValueType ==
    {v \in [text : STRING, len : Nat, num : Int] :
       /\ v.len = 0 <=> v.text = NoText
       /\ IsNumber(v) /\ v.len = 1 => v.num \in 0..9}

\* Before a NUL at its beginning a line has no text.
LineType ==
    {l \in [kind : Kinds, key : STRING, value : ValueType, length : Nat,
             newline : BOOLEAN, nul : {"none", "first", "inside"}] :
       /\ l.length > 0 \/ (l.newline /\ l.nul = "none")
       /\ l.nul = "first" => l.kind = "blank"}

---------------------------------------------------------------------------
(* Device files.                                                           *)

Types == {"uart", "i2c", "oled", "gpio", "led"}
Biases == {"default", "pull_up", "pull_down", "disabled"}
Rates == {9600, 19200, 38400, 57600, 115200, 230400}

\* Names of a section, paths and LED names that are well formed; others
\* stand for themselves.
GoodNames == {"uart", "lcd", "key"}
GoodPaths == {"/dev/a", "/dev/b"}
GoodLeds == {"blue_led"}

Headers(file) == {i \in 1..Len(file) : file[i].kind = "header"}
Fields(file, h) ==
    {i \in (h + 1)..Len(file) :
       file[i].kind = "field" /\ \A j \in (h + 1)..i : j \notin Headers(file)}
Keys(file, h) == {file[i].key : i \in Fields(file, h)}
Value(file, h, key) ==
    file[CHOOSE i \in Fields(file, h) : file[i].key = key].value

InRange(v, lo, hi) == IsNumber(v) /\ v.num \in lo..hi

LegalValue(key, v) ==
    CASE key = "type" -> v.text \in Types
      [] key = "path" -> v.text \in GoodPaths /\ v.len < PathSize
      [] key = "led_name" -> v.text \in GoodLeds /\ v.len < NameSize
      [] key \in {"enabled", "initial_value"} -> InRange(v, 0, 1)
      [] key = "baudrate" -> IsNumber(v) /\ v.num \in Rates
      [] key = "address" -> InRange(v, 3, 119)
      [] key = "offset" -> InRange(v, 0, UIntMax)
      [] key = "direction" -> v.text \in {"input", "output"}
      [] key = "bias" -> v.text \in Biases
      [] OTHER -> FALSE

Output(file, h) ==
    "direction" \in Keys(file, h) /\ Value(file, h, "direction").text = "output"

Required(type) ==
    CASE type = "uart" -> {"path"}
      [] type \in {"i2c", "oled"} -> {"path", "address"}
      [] type = "gpio" -> {"path", "offset"}
      [] OTHER -> {"led_name"}

Optional(file, h, type) ==
    CASE type = "uart" -> {"enabled", "baudrate"}
      [] type = "gpio" -> {"enabled", "direction",
                           IF Output(file, h) THEN "initial_value" ELSE "bias"}
      [] OTHER -> {"enabled"}

ValidSection(file, h) ==
    /\ Cardinality(Fields(file, h)) = Cardinality(Keys(file, h))
    /\ \A i \in Fields(file, h) : LegalValue(file[i].key, file[i].value)
    /\ "type" \in Keys(file, h)
    /\ LET type == Value(file, h, "type").text
       IN  /\ Required(type) \subseteq Keys(file, h)
           /\ Keys(file, h) \subseteq {"type"} \cup Required(type)
                                        \cup Optional(file, h, type)

ValidDevices(file) ==
    /\ \A i \in 1..Len(file) :
         /\ file[i].length < DeviceLineSize /\ file[i].nul = "none"
         /\ file[i].kind \in {"blank", "semicolon", "header", "field"}
         /\ file[i].kind = "field" => \E h \in Headers(file) : h < i
    /\ \A h \in Headers(file) :
         /\ file[h].value.text \in GoodNames /\ file[h].value.len < NameSize
         /\ \A g \in Headers(file) \ {h} : file[g].value.text # file[h].value.text
         /\ ValidSection(file, h)
    /\ Cardinality(Headers(file)) <= MaxDevices

\* A number that a device of the type has, or its default.
NumberOr(file, h, key, default) ==
    IF key \in Keys(file, h) THEN Value(file, h, key).num ELSE default
TextOr(file, h, key, default) ==
    IF key \in Keys(file, h) THEN Value(file, h, key).text ELSE default

Section(file, h) ==
    [name |-> file[h].value.text,
     type |-> TextOr(file, h, "type", "uart"),
     path |-> TextOr(file, h, "path", NoText),
     led_name |-> TextOr(file, h, "led_name", NoText),
     enabled |-> NumberOr(file, h, "enabled", 1),
     baudrate |-> NumberOr(file, h, "baudrate", 115200),
     address |-> NumberOr(file, h, "address", 0),
     offset |-> NumberOr(file, h, "offset", 0),
     output |-> Output(file, h),
     initial_value |-> NumberOr(file, h, "initial_value", 0),
     bias |-> TextOr(file, h, "bias", "default")]

\* The n-th header, and so the n-th device.
Nth(file, n) ==
    CHOOSE h \in Headers(file) :
        Cardinality({g \in Headers(file) : g <= h}) = n

Devices(file) ==
    [n \in 1..Cardinality(Headers(file)) |-> Section(file, Nth(file, n))]

---------------------------------------------------------------------------
(* The shell's configuration.                                              *)

\* Of each line the text before a NUL counts, but a newline behind a NUL is not
\* found.  There has to be room for a newline, also where there is none.
ValidShell(file) ==
    \A i \in 1..Len(file) :
        \/ file[i].nul = "first"
        \/ /\ file[i].length + 1 < ShellLineSize
           /\ file[i].newline => file[i].nul = "none"
           /\ file[i].kind \in {"blank", "field"}
           /\ file[i].kind = "field" =>
                LET v == file[i].value
                IN  CASE file[i].key = "prompts" -> v.len \in 1..(PromptSize - 1)
                      [] file[i].key = "max_job" -> InRange(v, 1, IntMax)
                      [] file[i].key = "debug" -> InRange(v, 0, 1) /\ v.len = 1
                      [] OTHER -> FALSE

\* The last line for a key counts.
LastOf(file, key, default) ==
    LET S == {i \in 1..Len(file) : file[i].kind = "field" /\ file[i].key = key}
    IN  IF S = {} THEN default
        ELSE file[CHOOSE i \in S : \A j \in S : j <= i].value

Shell(file, default) ==
    [prompts |-> LastOf(file, "prompts", [text |-> default.prompts]).text,
     max_job |-> LastOf(file, "max_job", [num |-> default.max_job]).num,
     debug |-> LastOf(file, "debug", [num |-> default.debug]).num]
=============================================================================
