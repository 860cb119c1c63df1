--------------------------- MODULE MCConfigFiles ---------------------------
(* Model-checking instance of ConfigFiles: for each kind of device, and for *)
(* each kind of fault, a set of lines whose every sequence is a file.       *)
EXTENDS ConfigFiles

Str(text, len) == [text |-> text, len |-> len, num |-> 0]
Num(n) == [text |-> "digits", len |-> IF n \in 0..9 THEN 1 ELSE 6, num |-> n]

Line(kind, key, value) ==
    [kind |-> kind, key |-> key, value |-> value, length |-> 1,
     newline |-> TRUE, nul |-> "none"]
H(name) == Line("header", "", Str(name, 3))
F(key, value) == Line("field", key, value)
Other(kind) == Line(kind, "", Str(NoText, 0))

LedLines == {H("lcd"), F("type", Str("led", 3)), F("led_name", Str("blue_led", NameSize - 1))}

MCLineSets ==
    { \* sections, their number and their names
      LedLines \cup {H("uart"), H("key")},
      LedLines \cup {H("bad name"), Line("header", "", Str("uart", NameSize)),
                     Line("header", "", Str("key", NameSize - 1))},
      \* lines that are refused, or skipped
      LedLines \cup {Other(k) : k \in Kinds \ {"header", "field"}}
               \cup {F("unknown", Num(1))},
      LedLines \cup {[Other("blank") EXCEPT !.length = DeviceLineSize - 1],
                     [Other("blank") EXCEPT !.length = DeviceLineSize],
                     [Other("blank") EXCEPT !.nul = "inside"],
                     [Other("blank") EXCEPT !.newline = FALSE]},
      \* values
      LedLines \cup {F("led_name", Str("..", 2)), F("led_name", Str("blue_led", NameSize)),
                     F("enabled", Num(0)), F("enabled", Num(2)), F("enabled", Num(-1))},
      {H("uart"), F("type", Str("uart", 4)), F("path", Str("/dev/a", PathSize - 1)),
       F("path", Str("/dev/b", PathSize)), F("path", Str("relative", 8)),
       F("path", Str(NoText, 0))},
      {H("uart"), F("type", Str("uart", 4)), F("path", Str("/dev/a", 6)),
       F("baudrate", Num(9600)), F("baudrate", Num(9601)), F("baudrate", Str("fast", 4)),
       F("baudrate", Num(IntMax + 1)), F("type", Str("spi", 3))},
      {H("lcd"), F("type", Str("i2c", 3)), F("type", Str("oled", 4)),
       F("path", Str("/dev/a", 6))}
          \cup {F("address", Num(n)) : n \in {2, 3, 119, 120, UIntMax + 1}},
      {H("key"), F("type", Str("gpio", 4)), F("path", Str("/dev/a", 6)),
       F("offset", Num(UIntMax)), F("direction", Str("output", 6)),
       F("direction", Str("input", 5)), F("bias", Str("pull_up", 7)),
       F("initial_value", Num(1))},
      {H("key"), F("type", Str("gpio", 4)), F("path", Str("/dev/a", 6)),
       F("offset", Num(UIntMax + 1)), F("offset", Num(0)),
       F("direction", Str("both", 4)), F("bias", Str("up", 2)),
       F("initial_value", Num(2))} }

MCShellLineSets ==
    { {F("max_job", Num(n)) : n \in {-1, 0, 1, IntMax, IntMax + 1}}
        \cup {F("max_job", Str("many", 4)), Other("blank")},
      {F("prompts", Str("$", 1)), F("prompts", Str(NoText, 0)),
       F("prompts", Str("long", PromptSize - 1)), F("prompts", Str("longer", PromptSize)),
       F("debug", Num(1)), F("debug", Num(2)), F("max_job", Num(2))},
      {[F("debug", Num(1)) EXCEPT !.length = ShellLineSize - 2],
       F("debug", [Num(1) EXCEPT !.len = 2]), F("unknown", Num(1))}
          \cup {Other(k) : k \in Kinds \ {"field"}},
      \* lines with a NUL, and without newline
      {F("debug", Num(1)),
       [F("debug", Num(0)) EXCEPT !.newline = FALSE],
       [F("max_job", Num(2)) EXCEPT !.nul = "inside"],
       [F("max_job", Num(2)) EXCEPT !.nul = "inside", !.newline = FALSE],
       [Other("blank") EXCEPT !.nul = "first"],
       [Other("blank") EXCEPT !.nul = "first", !.newline = FALSE]},
      \* lines beyond the buffer
      {F("debug", Num(1)),
       [F("debug", Num(0)) EXCEPT !.length = ShellLineSize - 2, !.newline = FALSE],
       [F("max_job", Num(2)) EXCEPT !.length = ShellLineSize - 1, !.newline = FALSE],
       [F("max_job", Num(3)) EXCEPT !.length = ShellLineSize - 1, !.newline = FALSE,
                                    !.nul = "inside"],
       [Other("blank") EXCEPT !.length = ShellLineSize - 1, !.newline = FALSE,
                              !.nul = "first"]} }
=============================================================================
