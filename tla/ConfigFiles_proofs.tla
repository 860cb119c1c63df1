------------------------ MODULE ConfigFiles_proofs -------------------------
(***************************************************************************)
(* Theorems about ConfigFiles.  What a file means is stated of the whole   *)
(* file; the loaders see one line at a time.  The invariant says that the  *)
(* lines read so far mean what the temporary holds, and its step that one  *)
(* more line changes the meaning of one key, begins a section, or makes    *)
(* the file invalid, whatever follows it.                                  *)
(***************************************************************************)
EXTENDS ConfigFiles, FiniteSetTheorems, TLAPS

ShellKeys == {"prompts", "max_job", "debug"}

\* The lines that set a key.
Setting(text, key) ==
    {i \in 1..Len(text) : text[i].kind = "field" /\ text[i].key = key}

Greatest(S) == CHOOSE i \in S : \A j \in S : j <= i

HasGreatest(S) == \E i \in S : \A j \in S : j <= i

\* A key that is set at all is set for a last time.
LastLineOK ==
    \A key \in ShellKeys : Setting(file, key) = {} \/ HasGreatest(Setting(file, key))

---------------------------------------------------------------------------
(* A shell configuration, one line later.                                  *)

\* The CHOOSE of LastOf has one candidate.
LEMMA GreatestIs ==
    ASSUME NEW S \in SUBSET Nat, NEW m \in S, \A j \in S : j <= m
    PROVE  Greatest(S) = m
<1>1. Greatest(S) \in S /\ \A j \in S : j <= Greatest(S)
  BY DEF Greatest
<1>2. PICK g \in S : g = Greatest(S)
  BY <1>1
<1>3. g <= m /\ m <= g /\ g \in Nat /\ m \in Nat
  BY <1>1, <1>2
<1> QED
  BY <1>2, <1>3

LEMMA Appended ==
    ASSUME NEW text \in Seq(LineType), NEW l \in LineType
    PROVE  /\ Append(text, l) \in Seq(LineType)
           /\ Len(Append(text, l)) = Len(text) + 1
           /\ Append(text, l)[Len(text) + 1] = l
           /\ \A i \in 1..Len(text) : Append(text, l)[i] = text[i]
  OBVIOUS

LEMMA SettingAppend ==
    ASSUME NEW text \in Seq(LineType), NEW l \in LineType, NEW key
    PROVE  Setting(Append(text, l), key) =
             IF l.kind = "field" /\ l.key = key
             THEN Setting(text, key) \cup {Len(text) + 1}
             ELSE Setting(text, key)
<1> DEFINE more == Append(text, l)
<1>1. /\ Len(more) = Len(text) + 1 /\ Len(text) \in Nat
      /\ more[Len(text) + 1] = l
      /\ \A i \in 1..Len(text) : more[i] = text[i]
  BY Appended
<1> HIDE DEF more
<1>2. 1..Len(more) = (1..Len(text)) \cup {Len(text) + 1}
  BY <1>1
<1>3. Setting(more, key) =
        {i \in 1..Len(text) : text[i].kind = "field" /\ text[i].key = key}
          \cup {i \in {Len(text) + 1} : l.kind = "field" /\ l.key = key}
  BY <1>1, <1>2 DEF Setting
<1> QED
  BY <1>3 DEF Setting, more

LEMMA LastOfSetting ==
    ASSUME NEW text, NEW key, NEW default
    PROVE  LastOf(text, key, default) =
             IF Setting(text, key) = {} THEN default
             ELSE text[Greatest(Setting(text, key))].value
  BY DEF LastOf, Setting, Greatest

\* A line sets its own key and leaves the others.
LEMMA LastOfAppend ==
    ASSUME NEW text \in Seq(LineType), NEW l \in LineType, NEW key, NEW default,
           Setting(text, key) = {} \/ HasGreatest(Setting(text, key))
    PROVE  /\ HasGreatest(Setting(Append(text, l), key)) \/ Setting(Append(text, l), key) = {}
           /\ LastOf(Append(text, l), key, default) =
                IF l.kind = "field" /\ l.key = key THEN l.value
                ELSE LastOf(text, key, default)
<1> DEFINE more == Append(text, l)
           S == Setting(text, key)
           T == Setting(more, key)
<1>1. /\ Len(more) = Len(text) + 1 /\ Len(text) \in Nat
      /\ more[Len(text) + 1] = l
      /\ \A i \in 1..Len(text) : more[i] = text[i]
  BY Appended
<1>2. S \subseteq 1..Len(text) /\ T \subseteq Nat /\ S \subseteq Nat
  BY <1>1 DEF Setting
<1>3. CASE l.kind = "field" /\ l.key = key
  <2>1. T = S \cup {Len(text) + 1}
    BY <1>3, SettingAppend
  <2>2. \A j \in T : j <= Len(text) + 1
    BY <2>1, <1>1, <1>2
  <2>3. Greatest(T) = Len(text) + 1
    BY <2>1, <2>2, <1>2, GreatestIs
  <2>4. HasGreatest(T)
    BY <2>1, <2>2 DEF HasGreatest
  <2>5. LastOf(more, key, default) = more[Greatest(T)].value
    BY <2>1, LastOfSetting
  <2> QED
    BY <2>3, <2>4, <2>5, <1>1, <1>3
<1>4. CASE ~(l.kind = "field" /\ l.key = key)
  <2>1. T = S
    BY <1>4, SettingAppend
  <2>2. CASE S = {}
    BY <2>1, <2>2, <1>4, LastOfSetting
  <2>3. CASE S # {}
    <3>1. PICK m \in S : \A j \in S : j <= m
      BY <2>3 DEF HasGreatest
    <3>2. Greatest(S) = m
      BY <3>1, <1>2, GreatestIs
    <3>3. more[m] = text[m]
      BY <3>1, <1>1, <1>2
    <3>4. LastOf(more, key, default) = more[Greatest(S)].value
      BY <2>1, <2>3, LastOfSetting
    <3>5. LastOf(text, key, default) = text[Greatest(S)].value
      BY <2>3, LastOfSetting
    <3> QED
      BY <2>1, <3>2, <3>3, <3>4, <3>5, <1>4
  <2> QED
    BY <2>2, <2>3
<1> QED
  BY <1>3, <1>4


\* A line that config_load accepts is a valid line of the file, and no other is.
ValidLine(l) ==
    \/ l.nul = "first"
    \/ /\ l.length + 1 < ShellLineSize
       /\ l.newline => l.nul = "none"
       /\ l.kind \in {"blank", "field"}
       /\ l.kind = "field" =>
            CASE l.key = "prompts" -> l.value.len \in 1..(PromptSize - 1)
              [] l.key = "max_job" -> InRange(l.value, 1, IntMax)
              [] l.key = "debug" -> InRange(l.value, 0, 1) /\ l.value.len = 1
              [] OTHER -> FALSE

\* What fgets returns has no more bytes than its buffer has room for.
FitsBuffer(l) == l.length + (IF l.newline THEN 1 ELSE 0) <= ShellLineSize - 1

LEMMA LineAccepted ==
    ASSUME which = "shell", NEW l \in LineType, FitsBuffer(l)
    PROVE  ValidLine(l) <=>
             /\ ShellLineWhole(l)
             /\ \/ l.kind = "blank"
                \/ l.kind = "field" /\ ShellFieldOk(l.key, l.value)
<1>1. /\ l.length \in Nat /\ l.value.len \in Nat /\ l.value.num \in Int
      /\ ShellLineSize \in Nat /\ PromptSize \in Nat /\ IntMax \in Nat
  <2>1. l.length \in Nat /\ l.value \in ValueType
    BY DEF LineType
  <2>2. l.value.len \in Nat /\ l.value.num \in Int
    BY <2>1 DEF ValueType
  <2> QED
    BY <2>1, <2>2, SizesAssumption
<1>2. ShellLineWhole(l) <=>
        \/ l.nul = "first"
        \/ l.length + 1 < ShellLineSize /\ (l.newline => l.nul = "none")
  <2>1. l.newline \in BOOLEAN
    BY DEF LineType
  <2>2. CASE l.newline
    BY <1>1, <2>2 DEF ShellLineWhole, AtEof, FitsBuffer
  <2>3. CASE ~l.newline
    BY <1>1, <2>3 DEF ShellLineWhole, AtEof
  <2> QED
    BY <2>1, <2>2, <2>3
<1>3. l.value.len \in 1..(PromptSize - 1) <=> CopyFits(l.value, PromptSize)
  BY <1>1 DEF CopyFits
<1>4. InRange(l.value, 1, IntMax) <=> MaxJobOk(l.value)
  BY <1>1 DEF InRange, MaxJobOk
<1>5. (InRange(l.value, 0, 1) /\ l.value.len = 1) <=>
        IsDigit(l.value, 0) \/ IsDigit(l.value, 1)
  BY <1>1 DEF InRange, IsDigit
<1>6. l.nul = "first" => l.kind = "blank"
  BY DEF LineType
<1> QED
  BY <1>2, <1>3, <1>4, <1>5, <1>6 DEF ValidLine, ShellFieldOk

LEMMA ValidAppend ==
    ASSUME NEW text \in Seq(LineType), NEW l \in LineType
    PROVE  ValidShell(Append(text, l)) <=> ValidShell(text) /\ ValidLine(l)
<1> DEFINE more == Append(text, l)
<1>1. /\ Len(more) = Len(text) + 1 /\ Len(text) \in Nat
      /\ more[Len(text) + 1] = l
      /\ \A i \in 1..Len(text) : more[i] = text[i]
  BY Appended
<1>2. ValidShell(more) <=> \A i \in 1..Len(more) : ValidLine(more[i])
  BY DEF ValidShell, ValidLine
<1>3. ValidShell(text) <=> \A i \in 1..Len(text) : ValidLine(text[i])
  BY DEF ValidShell, ValidLine
<1>4. 1..Len(more) = (1..Len(text)) \cup {Len(text) + 1}
  BY <1>1
<1> QED
  BY <1>1, <1>2, <1>3, <1>4

\* What a valid line does to the meaning is what config_parse_line does to
\* the configuration.
LEMMA ShellAppend ==
    ASSUME NEW text \in Seq(LineType), NEW l \in LineType, ValidLine(l),
           \A key \in ShellKeys :
             Setting(text, key) = {} \/ HasGreatest(Setting(text, key))
    PROVE  Shell(Append(text, l), ConfigInit) =
             IF l.kind = "blank" THEN Shell(text, ConfigInit)
             ELSE [Shell(text, ConfigInit) EXCEPT ![l.key] =
                     IF l.key = "prompts" THEN l.value.text ELSE l.value.num]
<1>1. ASSUME NEW key \in ShellKeys, NEW default
      PROVE  LastOf(Append(text, l), key, default) =
               IF l.kind = "field" /\ l.key = key THEN l.value
               ELSE LastOf(text, key, default)
  BY LastOfAppend
<1>2. /\ l.kind \in {"blank", "field"}
      /\ l.kind = "field" => l.key \in ShellKeys
  BY DEF ValidLine, ShellKeys, LineType
<1>3. CASE l.kind = "blank"
  BY <1>1, <1>3 DEF Shell, ShellKeys
<1>4. CASE l.kind = "field" /\ l.key = "prompts"
  BY <1>1, <1>4 DEF Shell, ShellKeys
<1>5. CASE l.kind = "field" /\ l.key = "max_job"
  BY <1>1, <1>5 DEF Shell, ShellKeys
<1>6. CASE l.kind = "field" /\ l.key = "debug"
  BY <1>1, <1>6 DEF Shell, ShellKeys
<1> QED
  BY <1>2, <1>3, <1>4, <1>5, <1>6 DEF ShellKeys

---------------------------------------------------------------------------
(* Sections of a device file, one line later.                              *)

\* No key of the section is given twice.
Distinct(text, h) ==
    \A i, j \in Fields(text, h) : text[i].key = text[j].key => i = j

LEMMA FieldsType ==
    ASSUME NEW text \in Seq(LineType), NEW h \in Nat
    PROVE  /\ Headers(text) \subseteq 1..Len(text)
           /\ Fields(text, h) \subseteq (h + 1)..Len(text)
           /\ Fields(text, h) \subseteq 1..Len(text)
           /\ Len(text) \in Nat
           /\ \A i \in 1..Len(text) : text[i] \in LineType
  BY DEF Headers, Fields

\* device_config.c refuses a second line of a key; ConfigMeaning counts.
LEMMA DistinctCounted ==
    ASSUME NEW text \in Seq(LineType), NEW h \in Nat
    PROVE  Distinct(text, h) <=>
             Cardinality(Fields(text, h)) = Cardinality(Keys(text, h))
<1> DEFINE F == Fields(text, h)
           K == Keys(text, h)
           f == [i \in F |-> text[i].key]
<1>1. IsFiniteSet(F)
  <2>1. F \in SUBSET Nat /\ Len(text) \in Nat /\ \A i \in F : i <= Len(text)
    BY FieldsType
  <2> QED
    BY <2>1, FS_BoundedSetOfNaturals
<1>2. f \in Surjection(F, K)
  BY DEF Surjection, Keys
<1>3. Cardinality(K) = Cardinality(F) <=> f \in Injection(F, K)
  BY <1>1, <1>2, FS_Surjection
<1>4. f \in Injection(F, K) <=> \A i, j \in F : f[i] = f[j] => i = j
  BY <1>2 DEF Injection, Surjection, IsInjective
<1>5. Distinct(text, h) <=> \A i, j \in F : f[i] = f[j] => i = j
  BY DEF Distinct
<1> QED
  BY <1>3, <1>4, <1>5

\* The CHOOSE of Value has one candidate.
LEMMA ValueIs ==
    ASSUME NEW text, NEW h, Distinct(text, h), NEW i \in Fields(text, h)
    PROVE  Value(text, h, text[i].key) = text[i].value
<1> DEFINE c == CHOOSE j \in Fields(text, h) : text[j].key = text[i].key
<1>1. c \in Fields(text, h) /\ text[c].key = text[i].key
  OBVIOUS
<1>2. c = i
  BY <1>1 DEF Distinct
<1> QED
  BY <1>2 DEF Value

LEMMA HeadersAppend ==
    ASSUME NEW text \in Seq(LineType), NEW l \in LineType
    PROVE  Headers(Append(text, l)) =
             IF l.kind = "header" THEN Headers(text) \cup {Len(text) + 1}
             ELSE Headers(text)
<1> DEFINE more == Append(text, l)
<1>1. /\ Len(more) = Len(text) + 1 /\ Len(text) \in Nat
      /\ more[Len(text) + 1] = l
      /\ \A i \in 1..Len(text) : more[i] = text[i]
  BY Appended
<1> HIDE DEF more
<1>2. 1..Len(more) = (1..Len(text)) \cup {Len(text) + 1}
  BY <1>1
<1>3. Headers(more) = {i \in 1..Len(text) : text[i].kind = "header"}
                        \cup {i \in {Len(text) + 1} : l.kind = "header"}
  BY <1>1, <1>2 DEF Headers
<1> QED
  BY <1>3 DEF Headers, more

\* A header that no other follows.
IsLast(text, h) == \A j \in (h + 1)..Len(text) : j \notin Headers(text)

\* A field belongs to the last section.
LEMMA FieldsAppend ==
    ASSUME NEW text \in Seq(LineType), NEW l \in LineType, NEW h \in 1..Len(text)
    PROVE  Fields(Append(text, l), h) =
             IF l.kind = "field" /\ IsLast(text, h)
             THEN Fields(text, h) \cup {Len(text) + 1}
             ELSE Fields(text, h)
<1> DEFINE more == Append(text, l)
<1>1. /\ Len(more) = Len(text) + 1 /\ Len(text) \in Nat
      /\ more[Len(text) + 1] = l
      /\ \A i \in 1..Len(text) : more[i] = text[i]
  BY Appended
<1>2. \A i \in 1..Len(text) : i \in Headers(more) <=> i \in Headers(text)
  BY <1>1 DEF Headers
<1>3. l.kind = "field" => Len(text) + 1 \notin Headers(more)
  BY <1>1 DEF Headers
<1> HIDE DEF more
<1>4. ASSUME NEW i \in (h + 1)..Len(text)
      PROVE  i \in Fields(more, h) <=> i \in Fields(text, h)
  <2>1. (h + 1)..i \subseteq 1..Len(text) /\ i \in (h + 1)..Len(more)
    BY <1>1
  <2>2. (\A j \in (h + 1)..i : j \notin Headers(more)) <=>
          (\A j \in (h + 1)..i : j \notin Headers(text))
    BY <2>1, <1>2
  <2>3. more[i] = text[i]
    BY <1>1
  <2> QED
    BY <2>1, <2>2, <2>3 DEF Fields
<1>5. Len(text) + 1 \in Fields(more, h) <=> l.kind = "field" /\ IsLast(text, h)
  <2>1. (h + 1)..(Len(text) + 1) = ((h + 1)..Len(text)) \cup {Len(text) + 1}
    BY <1>1
  <2>2. (h + 1)..Len(text) \subseteq 1..Len(text)
    BY <1>1
  <2>3. l.kind = "field" =>
          ((\A j \in (h + 1)..(Len(text) + 1) : j \notin Headers(more)) <=>
             IsLast(text, h))
    BY <2>1, <2>2, <1>2, <1>3 DEF IsLast
  <2>4. Len(text) + 1 \in (h + 1)..Len(more)
    BY <1>1
  <2> QED
    BY <1>1, <2>3, <2>4 DEF Fields
<1>6. Fields(text, h) \subseteq (h + 1)..Len(text)
  BY FieldsType
<1>7. Fields(more, h) \subseteq ((h + 1)..Len(text)) \cup {Len(text) + 1}
  <2>1. Fields(more, h) \subseteq (h + 1)..Len(more)
    BY DEF Fields
  <2> QED
    BY <2>1, <1>1
<1>8. CASE l.kind = "field" /\ IsLast(text, h)
  <2>1. Fields(more, h) = Fields(text, h) \cup {Len(text) + 1}
    BY <1>4, <1>5, <1>6, <1>7, <1>8, Zenon
  <2> QED
    BY <1>8, <2>1 DEF more
<1>9. CASE ~(l.kind = "field" /\ IsLast(text, h))
  <2>1. Fields(more, h) = Fields(text, h)
    BY <1>4, <1>5, <1>6, <1>7, <1>9, Zenon
  <2> QED
    BY <1>9, <2>1 DEF more
<1> QED
  BY <1>8, <1>9

\* A new section is empty.
LEMMA NewSection ==
    ASSUME NEW text \in Seq(LineType), NEW l \in LineType
    PROVE  Fields(Append(text, l), Len(text) + 1) = {}
  BY Appended DEF Fields


\* Two files that agree on a section.
Agree(text, more, h) ==
    /\ Fields(more, h) = Fields(text, h)
    /\ more[h] = text[h]
    /\ \A i \in Fields(text, h) : more[i] = text[i]

\* A section has the same meaning in both,
LEMMA SameSection ==
    ASSUME NEW text, NEW more, NEW h, Distinct(text, h), Agree(text, more, h)
    PROVE  /\ Distinct(more, h)
           /\ Keys(more, h) = Keys(text, h)
           /\ \A key \in Keys(text, h) : Value(more, h, key) = Value(text, h, key)
<1>1. /\ Fields(more, h) = Fields(text, h)
      /\ \A i \in Fields(text, h) : more[i] = text[i]
  BY DEF Agree
<1>2. Distinct(more, h)
  BY <1>1 DEF Distinct
<1>3. Keys(more, h) = Keys(text, h)
  BY <1>1 DEF Keys
<1>4. ASSUME NEW key \in Keys(text, h)
      PROVE  Value(more, h, key) = Value(text, h, key)
  <2>1. PICK i \in Fields(text, h) : key = text[i].key
    BY DEF Keys
  <2>2. Value(text, h, key) = text[i].value
    BY <2>1, ValueIs
  <2>3. Value(more, h, more[i].key) = more[i].value
    BY <1>1, <1>2, ValueIs
  <2> QED
    BY <1>1, <2>1, <2>2, <2>3
<1> QED
  BY <1>2, <1>3, <1>4

\* A section that gets a field.
LEMMA FieldAdded ==
    ASSUME NEW text \in Seq(LineType), NEW l \in LineType, NEW h \in 1..Len(text),
           Distinct(text, h),
           Fields(Append(text, l), h) = Fields(text, h) \cup {Len(text) + 1}
    PROVE  /\ Keys(Append(text, l), h) = Keys(text, h) \cup {l.key}
           /\ Distinct(Append(text, l), h) <=> l.key \notin Keys(text, h)
           /\ l.key \notin Keys(text, h) =>
                /\ Value(Append(text, l), h, l.key) = l.value
                /\ \A key \in Keys(text, h) :
                     Value(Append(text, l), h, key) = Value(text, h, key)
<1> DEFINE more == Append(text, l)
           last == Len(text) + 1
<1>1. \A i \in Fields(text, h) : more[i] = text[i] /\ i # last
  BY Appended, FieldsType
<1>2. more[last] = l
  BY Appended
<1> HIDE DEF more, last
<1>3. Fields(more, h) = Fields(text, h) \cup {last}
  BY DEF more, last
<1>4. Keys(more, h) = Keys(text, h) \cup {l.key}
  BY <1>1, <1>2, <1>3 DEF Keys
<1>5. Distinct(more, h) <=> l.key \notin Keys(text, h)
  BY <1>1, <1>2, <1>3 DEF Distinct, Keys
<1>6. ASSUME l.key \notin Keys(text, h)
      PROVE  Value(more, h, l.key) = l.value
  <2>1. Distinct(more, h) /\ last \in Fields(more, h)
    BY <1>3, <1>5, <1>6
  <2>2. Value(more, h, more[last].key) = more[last].value
    BY <2>1, ValueIs
  <2> QED
    BY <1>2, <2>2
<1>7. ASSUME l.key \notin Keys(text, h), NEW key \in Keys(text, h)
      PROVE  Value(more, h, key) = Value(text, h, key)
  <2>1. PICK i \in Fields(text, h) : key = text[i].key
    BY DEF Keys
  <2>2. Value(text, h, key) = text[i].value
    BY <2>1, ValueIs
  <2>3. Distinct(more, h) /\ i \in Fields(more, h)
    BY <1>3, <1>5, <1>7
  <2>4. Value(more, h, more[i].key) = more[i].value
    BY <2>3, ValueIs
  <2> QED
    BY <1>1, <2>1, <2>2, <2>4
<1> QED
  BY <1>4, <1>5, <1>6, <1>7 DEF more

\* and is valid in both or in neither.
LEMMA KeptSection ==
    ASSUME NEW text, NEW more, NEW h, Distinct(text, h), Agree(text, more, h)
    PROVE  /\ Section(more, h) = Section(text, h)
           /\ ValidSection(more, h) <=> ValidSection(text, h)
<1>1. more[h] = text[h]
  BY DEF Agree
<1>2. /\ Keys(more, h) = Keys(text, h)
      /\ \A key \in Keys(text, h) : Value(more, h, key) = Value(text, h, key)
  BY SameSection
<1>3. /\ Fields(more, h) = Fields(text, h)
      /\ \A i \in Fields(text, h) : more[i] = text[i]
  BY DEF Agree
<1>4. Output(more, h) = Output(text, h)
  BY <1>2 DEF Output
<1>5. Section(more, h) = Section(text, h)
  <2>1. ASSUME NEW key, NEW default
        PROVE  /\ TextOr(more, h, key, default) = TextOr(text, h, key, default)
               /\ NumberOr(more, h, key, default) = NumberOr(text, h, key, default)
    BY <1>2 DEF TextOr, NumberOr
  <2> QED
    BY <1>1, <1>4, <2>1 DEF Section
<1>6. ValidSection(more, h) <=> ValidSection(text, h)
  <2>1. (\A i \in Fields(more, h) : LegalValue(more[i].key, more[i].value)) <=>
          (\A i \in Fields(text, h) : LegalValue(text[i].key, text[i].value))
    BY <1>3
  <2>2. \A type : Optional(more, h, type) = Optional(text, h, type)
    BY <1>4 DEF Optional
  <2> QED
    BY <1>2, <1>3, <2>1, <2>2 DEF ValidSection
<1> QED
  BY <1>5, <1>6

\* Strings; that a literal is one has to be said.
Texts == STRING \cup {"uart", "default", NoText}

DeviceType ==
    [name : Texts, type : Texts, path : Texts, led_name : Texts,
     enabled : Int, baudrate : Int, address : Int, offset : Int,
     output : BOOLEAN, initial_value : Int, bias : Texts]

TextFields == {"type", "path", "led_name", "bias"}
NumFields == {"enabled", "baudrate", "address", "offset", "initial_value"}

Default == DeviceConfigInit(NoText)

LEMMA DeviceFields ==
    ASSUME NEW c \in DeviceType
    PROVE  /\ \A f \in TextFields : c[f] \in Texts
           /\ \A f \in NumFields : c[f] \in Int
           /\ c.name \in Texts /\ c.output \in BOOLEAN
<1>1. /\ c.type \in Texts /\ c.path \in Texts
      /\ c.led_name \in Texts /\ c.bias \in Texts
  BY DEF DeviceType
<1>2. /\ c.enabled \in Int /\ c.baudrate \in Int /\ c.address \in Int
      /\ c.offset \in Int /\ c.initial_value \in Int
  BY DEF DeviceType
<1>3. c.name \in Texts /\ c.output \in BOOLEAN
  BY DEF DeviceType
<1> QED
  BY <1>1, <1>2, <1>3 DEF TextFields, NumFields

LEMMA SameDevice ==
    ASSUME NEW c \in DeviceType, NEW d \in DeviceType,
           c.name = d.name, c.output = d.output,
           \A f \in TextFields : c[f] = d[f],
           \A f \in NumFields : c[f] = d[f]
    PROVE  c = d
<1>1. c.type = d.type /\ c.path = d.path /\ c.led_name = d.led_name /\ c.bias = d.bias
  BY DEF TextFields
<1>2. /\ c.enabled = d.enabled /\ c.baudrate = d.baudrate /\ c.address = d.address
      /\ c.offset = d.offset /\ c.initial_value = d.initial_value
  BY DEF NumFields
<1> QED
  BY <1>1, <1>2 DEF DeviceType

\* SetField changes one field of the record.
LEMMA SetFieldIs ==
    ASSUME NEW c \in DeviceType, NEW v \in ValueType, NEW key \in Key,
           NEW d, d = SetField(c, key, v)
    PROVE  /\ d \in DeviceType /\ d.name = c.name
           /\ \A f \in TextFields : d[f] = IF f = key THEN v.text ELSE c[f]
           /\ \A f \in NumFields : d[f] = IF f = key THEN v.num ELSE c[f]
           /\ d.output = IF key = "direction" THEN v.text = "output" ELSE c.output
<1>1. v.text \in Texts /\ v.num \in Int
  BY DEF ValueType, Texts
<1>2. CASE key = "type"
  <2>1. d = [c EXCEPT !.type = v.text]
    BY <1>2 DEF SetField
  <2> QED
    BY <1>1, <1>2, <2>1 DEF DeviceType, TextFields, NumFields
<1>3. CASE key = "path"
  <2>1. d = [c EXCEPT !.path = v.text]
    BY <1>3 DEF SetField
  <2> QED
    BY <1>1, <1>3, <2>1 DEF DeviceType, TextFields, NumFields
<1>4. CASE key = "led_name"
  <2>1. d = [c EXCEPT !.led_name = v.text]
    BY <1>4 DEF SetField
  <2> QED
    BY <1>1, <1>4, <2>1 DEF DeviceType, TextFields, NumFields
<1>5. CASE key = "enabled"
  <2>1. d = [c EXCEPT !.enabled = v.num]
    BY <1>5 DEF SetField
  <2> QED
    BY <1>1, <1>5, <2>1 DEF DeviceType, TextFields, NumFields
<1>6. CASE key = "baudrate"
  <2>1. d = [c EXCEPT !.baudrate = v.num]
    BY <1>6 DEF SetField
  <2> QED
    BY <1>1, <1>6, <2>1 DEF DeviceType, TextFields, NumFields
<1>7. CASE key = "address"
  <2>1. d = [c EXCEPT !.address = v.num]
    BY <1>7 DEF SetField
  <2> QED
    BY <1>1, <1>7, <2>1 DEF DeviceType, TextFields, NumFields
<1>8. CASE key = "offset"
  <2>1. d = [c EXCEPT !.offset = v.num]
    BY <1>8 DEF SetField
  <2> QED
    BY <1>1, <1>8, <2>1 DEF DeviceType, TextFields, NumFields
<1>9. CASE key = "direction"
  <2>1. d = [c EXCEPT !.output = (v.text = "output")]
    BY <1>9 DEF SetField
  <2> QED
    BY <1>1, <1>9, <2>1 DEF DeviceType, TextFields, NumFields
<1>10. CASE key = "initial_value"
  <2>1. d = [c EXCEPT !.initial_value = v.num]
    BY <1>10 DEF SetField
  <2> QED
    BY <1>1, <1>10, <2>1 DEF DeviceType, TextFields, NumFields
<1>11. CASE key = "bias"
  <2>1. d = [c EXCEPT !.bias = v.text]
    BY <1>11 DEF SetField
  <2> QED
    BY <1>1, <1>11, <2>1 DEF DeviceType, TextFields, NumFields
<1> QED
  BY <1>2, <1>3, <1>4, <1>5, <1>6, <1>7, <1>8, <1>9, <1>10, <1>11 DEF Key


\* What a device has, field by field.
LEMMA SectionIs ==
    ASSUME NEW text \in Seq(LineType), NEW h \in 1..Len(text), Distinct(text, h)
    PROVE  /\ Section(text, h) \in DeviceType
           /\ Section(text, h).name = text[h].value.text
           /\ \A f \in TextFields : Section(text, h)[f] = TextOr(text, h, f, Default[f])
           /\ \A f \in NumFields : Section(text, h)[f] = NumberOr(text, h, f, Default[f])
           /\ Section(text, h).output = Output(text, h)
<1>1. \A v \in ValueType : v.text \in Texts /\ v.num \in Int
  BY DEF ValueType, Texts
<1>2. \A i \in 1..Len(text) : text[i].value \in ValueType
  BY FieldsType DEF LineType
<1>3. \A key \in Keys(text, h) : Value(text, h, key) \in ValueType
  <2> SUFFICES ASSUME NEW key \in Keys(text, h)
               PROVE  Value(text, h, key) \in ValueType
    OBVIOUS
  <2>1. PICK i \in Fields(text, h) : key = text[i].key
    BY DEF Keys
  <2>2. i \in 1..Len(text)
    BY FieldsType
  <2> QED
    BY <1>2, <2>1, <2>2, ValueIs
<1>4. ASSUME NEW key, NEW default \in Texts
      PROVE  TextOr(text, h, key, default) \in Texts
  BY <1>1, <1>3 DEF TextOr
<1>5. ASSUME NEW key, NEW default \in Int
      PROVE  NumberOr(text, h, key, default) \in Int
  BY <1>1, <1>3 DEF NumberOr
<1>6. Output(text, h) \in BOOLEAN
  BY Zenon DEF Output
<1>7. text[h].value.text \in Texts
  BY <1>1, <1>2
<1>8. Section(text, h) \in DeviceType
  <2>1. /\ TextOr(text, h, "type", "uart") \in Texts
        /\ TextOr(text, h, "path", NoText) \in Texts
        /\ TextOr(text, h, "led_name", NoText) \in Texts
        /\ TextOr(text, h, "bias", "default") \in Texts
    BY <1>4 DEF Texts
  <2>2. /\ NumberOr(text, h, "enabled", 1) \in Int
        /\ NumberOr(text, h, "baudrate", 115200) \in Int
        /\ NumberOr(text, h, "address", 0) \in Int
        /\ NumberOr(text, h, "offset", 0) \in Int
        /\ NumberOr(text, h, "initial_value", 0) \in Int
    BY <1>5
  <2> QED
    BY <1>6, <1>7, <2>1, <2>2 DEF Section, DeviceType
<1>9. ASSUME NEW f \in TextFields
      PROVE  Section(text, h)[f] = TextOr(text, h, f, Default[f])
  BY DEF TextFields, Section, Default, DeviceConfigInit
<1>10. ASSUME NEW f \in NumFields
       PROVE  Section(text, h)[f] = NumberOr(text, h, f, Default[f])
  BY DEF NumFields, Section, Default, DeviceConfigInit
<1>11. /\ Section(text, h).name = text[h].value.text
       /\ Section(text, h).output = Output(text, h)
  BY DEF Section
<1> QED
  BY <1>8, <1>9, <1>10, <1>11

\* The field of a line is the field that config_field sets.
LEMMA GrownSection ==
    ASSUME NEW text \in Seq(LineType), NEW l \in LineType, NEW h \in 1..Len(text),
           Distinct(text, h), l.key \in Key \ Keys(text, h),
           Fields(Append(text, l), h) = Fields(text, h) \cup {Len(text) + 1}
    PROVE  Section(Append(text, l), h) = SetField(Section(text, h), l.key, l.value)
<1> DEFINE more == Append(text, l)
<1>1. more[h] = text[h]
  BY Appended
<1>2. /\ Keys(more, h) = Keys(text, h) \cup {l.key}
      /\ Value(more, h, l.key) = l.value
      /\ \A key \in Keys(text, h) : Value(more, h, key) = Value(text, h, key)
  BY FieldAdded
<1> HIDE DEF more
<1>3. Distinct(more, h) /\ more \in Seq(LineType) /\ h \in 1..Len(more)
  <2>1. Len(more) = Len(text) + 1 /\ Len(text) \in Nat
    BY Appended DEF more
  <2>2. h \in 1..Len(more)
    BY <2>1
  <2> QED
    BY <2>2, FieldAdded, Appended DEF more
<1>4. PICK c \in DeviceType : c = Section(text, h)
  BY SectionIs
<1>5. PICK e \in DeviceType : e = Section(more, h)
  BY <1>3, SectionIs
<1>6. PICK d \in DeviceType : d = SetField(c, l.key, l.value)
  BY SetFieldIs DEF LineType
<1>7. ASSUME NEW default
      PROVE  /\ TextOr(more, h, l.key, default) = l.value.text
             /\ NumberOr(more, h, l.key, default) = l.value.num
  BY <1>2 DEF TextOr, NumberOr
<1>8. ASSUME NEW key, key # l.key, NEW default
      PROVE  /\ TextOr(more, h, key, default) = TextOr(text, h, key, default)
             /\ NumberOr(more, h, key, default) = NumberOr(text, h, key, default)
  BY <1>2, <1>8 DEF TextOr, NumberOr
<1>9. Output(more, h) =
        IF l.key = "direction" THEN l.value.text = "output" ELSE Output(text, h)
  BY <1>2 DEF Output
<1>10. l.value \in ValueType
  BY DEF LineType
<1>11. e.name = d.name /\ e.output = d.output
  BY <1>1, <1>3, <1>4, <1>5, <1>6, <1>9, <1>10, SectionIs, SetFieldIs
<1>12. ASSUME NEW f \in TextFields
       PROVE  e[f] = d[f]
  <2>1. d[f] = IF f = l.key THEN l.value.text ELSE c[f]
    BY <1>6, <1>10, SetFieldIs
  <2>2. c[f] = TextOr(text, h, f, Default[f]) /\ e[f] = TextOr(more, h, f, Default[f])
    BY <1>3, <1>4, <1>5, SectionIs
  <2> QED
    BY <1>7, <1>8, <2>1, <2>2
<1>13. ASSUME NEW f \in NumFields
       PROVE  e[f] = d[f]
  <2>1. d[f] = IF f = l.key THEN l.value.num ELSE c[f]
    BY <1>6, <1>10, SetFieldIs
  <2>2. c[f] = NumberOr(text, h, f, Default[f]) /\ e[f] = NumberOr(more, h, f, Default[f])
    BY <1>3, <1>4, <1>5, SectionIs
  <2> QED
    BY <1>7, <1>8, <2>1, <2>2
<1> HIDE DEF more
<1>14. e = d
  BY <1>11, <1>12, <1>13, SameDevice
<1> QED
  BY <1>4, <1>5, <1>6, <1>14 DEF more


\* What config_field asks of a value, duplicates aside, and what is left for
\* device_config_validate.
Accepted(key, v) ==
    /\ key \in Key /\ v.len > 0
    /\ CASE key = "type" -> v.text \in Types
         [] key = "path" -> CopyFits(v, PathSize)
         [] key = "led_name" -> CopyFits(v, NameSize)
         [] key \in {"enabled", "initial_value"} -> UnsignedOk(v, 1)
         [] key = "baudrate" -> UnsignedOk(v, IntMax)
         [] key \in {"address", "offset"} -> UnsignedOk(v, UIntMax)
         [] key = "direction" -> v.text \in {"input", "output"}
         [] key = "bias" -> v.text \in Biases

Postponed(key, v) ==
    /\ key = "path" => v.text \in GoodPaths
    /\ key = "led_name" => v.text \in GoodLeds
    /\ key = "baudrate" => v.num \in Rates
    /\ key = "address" => v.num >= 3 /\ v.num <= 119

LEMMA LegalIs ==
    ASSUME NEW key, NEW v \in ValueType
    PROVE  LegalValue(key, v) <=> Accepted(key, v) /\ Postponed(key, v)
<1>1. /\ v.len \in Nat /\ v.num \in Int /\ (v.len = 0 <=> v.text = NoText)
      /\ PathSize \in Nat /\ NameSize \in Nat
      /\ 230400 <= IntMax /\ IntMax \in Nat /\ UIntMax \in Nat /\ IntMax <= UIntMax
  BY SizesAssumption DEF ValueType
<1>2. v.text \in Types \cup GoodPaths \cup GoodLeds \cup Biases
                   \cup {"input", "output", "digits"} => v.len > 0
  BY <1>1 DEF Types, GoodPaths, GoodLeds, Biases, NoText
<1>3. CASE key \notin Key
  BY <1>3 DEF Key, LegalValue, Accepted
<1>4. CASE key = "type"
  BY <1>2, <1>4 DEF Key, LegalValue, Accepted, Postponed
<1>5. CASE key = "path"
  BY <1>1, <1>2, <1>5 DEF Key, LegalValue, Accepted, Postponed, CopyFits
<1>6. CASE key = "led_name"
  BY <1>1, <1>2, <1>6 DEF Key, LegalValue, Accepted, Postponed, CopyFits
<1>7. CASE key \in {"enabled", "initial_value"}
  <2>1. InRange(v, 0, 1) <=> UnsignedOk(v, 1) /\ v.len > 0
    BY <1>1, <1>2 DEF InRange, UnsignedOk, IsNumber
  <2>2. CASE key = "enabled"
    BY <2>1, <2>2 DEF Key, LegalValue, Accepted, Postponed
  <2>3. CASE key = "initial_value"
    BY <2>1, <2>3 DEF Key, LegalValue, Accepted, Postponed
  <2> QED
    BY <1>7, <2>2, <2>3
<1>8. CASE key = "baudrate"
  <2>1. v.num \in Rates => v.num >= 0 /\ v.num <= IntMax
    BY <1>1 DEF Rates
  <2> QED
    BY <1>1, <1>2, <1>8, <2>1
    DEF Key, LegalValue, Accepted, Postponed, UnsignedOk, IsNumber
<1>9. CASE key = "address"
  BY <1>1, <1>2, <1>9
  DEF Key, LegalValue, Accepted, Postponed, UnsignedOk, InRange, IsNumber
<1>10. CASE key = "offset"
  BY <1>1, <1>2, <1>10
  DEF Key, LegalValue, Accepted, Postponed, UnsignedOk, InRange, IsNumber
<1>11. CASE key \in {"direction", "bias"}
  BY <1>2, <1>11 DEF Key, LegalValue, Accepted, Postponed
<1> QED
  BY <1>3, <1>4, <1>5, <1>6, <1>7, <1>8, <1>9, <1>10, <1>11 DEF Key

\* device_config_validate, type by type.
LEMMA ConfigValidIs ==
    ASSUME NEW c, c.name \in GoodNames
    PROVE  /\ c.type = "led" => (ConfigValid(c) <=> c.led_name \in GoodLeds)
           /\ c.type = "uart" =>
                (ConfigValid(c) <=> c.path \in GoodPaths /\ c.baudrate \in Rates)
           /\ c.type \in {"i2c", "oled"} =>
                (ConfigValid(c) <=>
                   c.path \in GoodPaths /\ c.address >= 3 /\ c.address <= 119)
           /\ c.type = "gpio" =>
                (ConfigValid(c) <=>
                   c.path \in GoodPaths /\ (c.output => c.bias = "default"))
<1>1. CASE c.type = "led"
  BY <1>1 DEF ConfigValid, NameValid
<1>2. CASE c.type = "uart"
  BY <1>2 DEF ConfigValid, NameValid
<1>3. CASE c.type \in {"i2c", "oled"}
  BY <1>3 DEF ConfigValid, NameValid
<1>4. CASE c.type = "gpio"
  BY <1>4 DEF ConfigValid, NameValid
<1> QED
  BY <1>1, <1>2, <1>3, <1>4

\* A section whose lines config_field has accepted: config_section_validate
\* accepts it if and only if it is valid.
LEMMA SectionChecked ==
    ASSUME NEW text \in Seq(LineType), NEW h \in 1..Len(text), Distinct(text, h),
           text[h].value.text \in GoodNames,
           \A i \in Fields(text, h) : Accepted(text[i].key, text[i].value),
           temporary[Len(temporary)] = Section(text, h),
           fields = Keys(text, h)
    PROVE  SectionValid <=> ValidSection(text, h)
<1> DEFINE K == Keys(text, h)
           V(key) == Value(text, h, key)
           type == V("type").text
<1>1. \A key \in K : \E i \in Fields(text, h) :
        key = text[i].key /\ V(key) = text[i].value /\ text[i] \in LineType
  <2> SUFFICES ASSUME NEW key \in K
               PROVE  \E i \in Fields(text, h) :
                        key = text[i].key /\ V(key) = text[i].value /\ text[i] \in LineType
    OBVIOUS
  <2>1. PICK i \in Fields(text, h) : key = text[i].key
    BY DEF Keys
  <2>2. text[i] \in LineType
    BY FieldsType
  <2> QED
    BY <2>1, <2>2, ValueIs
<1>2. \A i \in Fields(text, h) : text[i].key \in K /\ V(text[i].key) = text[i].value
  BY ValueIs DEF Keys
<1>3. \A key \in K : Accepted(key, V(key)) /\ V(key) \in ValueType /\ key \in Key
  <2>1. \A key \in K : Accepted(key, V(key))
    BY <1>1
  <2>2. \A l \in LineType : l.value \in ValueType
    BY DEF LineType
  <2>3. \A key \in K : V(key) \in ValueType
    BY <1>1, <2>2
  <2>4. \A key, v : Accepted(key, v) => key \in Key
    BY DEF Accepted
  <2> QED
    BY <2>1, <2>3, <2>4
<1>4. (\A i \in Fields(text, h) : LegalValue(text[i].key, text[i].value)) <=>
        (\A key \in K : LegalValue(key, V(key)))
  BY <1>1, <1>2
<1>5. (\A key \in K : LegalValue(key, V(key))) <=> (\A key \in K : Postponed(key, V(key)))
  BY <1>3, LegalIs
<1>6. ValidSection(text, h) <=>
        /\ \A key \in K : Postponed(key, V(key))
        /\ "type" \in K
        /\ Required(type) \subseteq K
        /\ K \subseteq {"type"} \cup Required(type) \cup Optional(text, h, type)
  BY <1>4, <1>5, DistinctCounted DEF ValidSection
<1>7. PICK c \in DeviceType : c = Section(text, h)
  BY SectionIs
<1>8. SectionValid <=>
        RequiredFields(c) \subseteq K /\ K \subseteq AllowedFields(c) /\ ConfigValid(c)
  BY <1>7 DEF SectionValid
<1>9. /\ \A f \in TextFields : c[f] = IF f \in K THEN V(f).text ELSE Default[f]
      /\ \A f \in NumFields : c[f] = IF f \in K THEN V(f).num ELSE Default[f]
  BY <1>7, SectionIs DEF TextOr, NumberOr
<1>10. c.name \in GoodNames /\ c.output = Output(text, h)
  BY <1>7, SectionIs
<1> HIDE DEF K, V
<1>11. CASE "type" \notin K
  BY <1>6, <1>8, <1>11 DEF RequiredFields
<1>12. CASE "type" \in K
  <2>1. c.type = type /\ type \in Types
    <3>1. c["type"] = type
      BY <1>9, <1>12 DEF TextFields
    <3>2. type \in Types
      BY <1>3, <1>12 DEF Accepted
    <3> QED
      BY <3>1, <3>2
  <2>2. RequiredFields(c) = {"type"} \cup Required(type)
    BY <2>1 DEF RequiredFields, Required, Types
  <2>3. AllowedFields(c) = {"type"} \cup Required(type) \cup Optional(text, h, type)
    BY <1>10, <2>1, <2>2 DEF AllowedFields, Required, Optional, Types
  <2>4. ASSUME Required(type) \subseteq K,
               K \subseteq {"type"} \cup Required(type) \cup Optional(text, h, type)
        PROVE  ConfigValid(c) <=> \A key \in K : Postponed(key, V(key))
    <3>1. CASE type = "led"
      <4>1. K \subseteq {"type", "led_name", "enabled"} /\ "led_name" \in K
        BY <2>4, <3>1 DEF Required, Optional
      <4>2. c.led_name = V("led_name").text
        BY <1>9, <4>1 DEF TextFields
      <4>3. ConfigValid(c) <=> c.led_name \in GoodLeds
        BY <1>10, <2>1, <3>1, ConfigValidIs
      <4>4. (\A key \in K : Postponed(key, V(key))) <=> V("led_name").text \in GoodLeds
        BY <4>1 DEF Postponed
      <4> QED
        BY <4>2, <4>3, <4>4
    <3>2. CASE type = "uart"
      <4>1. K \subseteq {"type", "path", "enabled", "baudrate"} /\ "path" \in K
        BY <2>4, <3>2 DEF Required, Optional
      <4>2. /\ c.path = V("path").text
            /\ c.baudrate = IF "baudrate" \in K THEN V("baudrate").num ELSE 115200
        BY <1>9, <4>1 DEF TextFields, NumFields, Default, DeviceConfigInit
      <4>3. ConfigValid(c) <=> c.path \in GoodPaths /\ c.baudrate \in Rates
        BY <1>10, <2>1, <3>2, ConfigValidIs
      <4>4. (\A key \in K : Postponed(key, V(key))) <=>
              /\ V("path").text \in GoodPaths
              /\ "baudrate" \in K => V("baudrate").num \in Rates
        BY <4>1 DEF Postponed
      <4>5. 115200 \in Rates
        BY DEF Rates
      <4> QED
        BY <4>2, <4>3, <4>4, <4>5
    <3>3. CASE type \in {"i2c", "oled"}
      <4>1. /\ K \subseteq {"type", "path", "enabled", "address"}
            /\ "path" \in K /\ "address" \in K
        BY <2>4, <3>3 DEF Required, Optional
      <4>2. c.path = V("path").text /\ c.address = V("address").num
        BY <1>9, <4>1 DEF TextFields, NumFields
      <4>3. ConfigValid(c) <=> c.path \in GoodPaths /\ c.address >= 3 /\ c.address <= 119
        BY <1>10, <2>1, <3>3, ConfigValidIs
      <4>4. (\A key \in K : Postponed(key, V(key))) <=>
              /\ V("path").text \in GoodPaths
              /\ V("address").num >= 3 /\ V("address").num <= 119
        BY <4>1 DEF Postponed
      <4> QED
        BY <4>2, <4>3, <4>4
    <3>4. CASE type = "gpio"
      <4>1. /\ K \subseteq {"type", "path", "offset", "enabled", "direction",
                            "initial_value", "bias"}
            /\ "path" \in K
            /\ Output(text, h) => "bias" \notin K
        BY <2>4, <3>4 DEF Required, Optional
      <4>2. c.path = V("path").text
        BY <1>9, <4>1 DEF TextFields
      <4>3. Output(text, h) => c.bias = "default"
        BY <1>9, <4>1 DEF TextFields, Default, DeviceConfigInit
      <4>4. ConfigValid(c) <=> c.path \in GoodPaths /\ (c.output => c.bias = "default")
        BY <1>10, <2>1, <3>4, ConfigValidIs
      <4>5. (\A key \in K : Postponed(key, V(key))) <=> V("path").text \in GoodPaths
        BY <4>1 DEF Postponed
      <4> QED
        BY <1>10, <4>2, <4>3, <4>4, <4>5
    <3> QED
      BY <2>1, <3>1, <3>2, <3>3, <3>4 DEF Types
  <2> QED
    BY <1>6, <1>8, <1>12, <2>2, <2>3, <2>4
<1> QED
  BY <1>11, <1>12

---------------------------------------------------------------------------
(* The sections read so far.                                               *)

\* pos says where the sections in list begin; all but the last are valid, and
\* the lines of the last have been accepted.
SectionsAt(text, list, keys, pos) ==
    /\ pos \in [1..Len(list) -> 1..Len(text)]
    /\ \A m, n \in 1..Len(list) : m < n => pos[m] < pos[n]
    /\ Headers(text) = {pos[n] : n \in 1..Len(list)}
    /\ \A n \in 1..Len(list) :
         /\ Distinct(text, pos[n])
         /\ list[n] = Section(text, pos[n])
         /\ text[pos[n]].value.text \in GoodNames
         /\ text[pos[n]].value.len < NameSize
         /\ n # Len(list) => ValidSection(text, pos[n])
    /\ \A m, n \in 1..Len(list) : m # n => list[m].name # list[n].name
    /\ Len(list) > 0 =>
         /\ keys = Keys(text, pos[Len(list)])
         /\ \A i \in Fields(text, pos[Len(list)]) :
              Accepted(text[i].key, text[i].value)

\* Every line, by itself.
LineValid(l) ==
    /\ l.length < DeviceLineSize /\ l.nul = "none"
    /\ l.kind \in {"blank", "semicolon", "header", "field"}

LinesValid(text) ==
    \A i \in 1..Len(text) :
        /\ LineValid(text[i])
        /\ text[i].kind = "field" => \E h \in Headers(text) : h < i

\* The sections are the headers, in their order.
LEMMA Counted ==
    ASSUME NEW text \in Seq(LineType), NEW list \in Seq(DeviceType), NEW keys, NEW pos,
           SectionsAt(text, list, keys, pos)
    PROVE  /\ Cardinality(Headers(text)) = Len(list)
           /\ \A n \in 1..Len(list) : Nth(text, n) = pos[n]
<1> DEFINE H == Headers(text)
           N == Len(list)
<1>1. /\ N \in Nat /\ pos \in [1..N -> 1..Len(text)]
      /\ \A m, n \in 1..N : m < n => pos[m] < pos[n]
      /\ H = {pos[n] : n \in 1..N}
  BY DEF SectionsAt
<1>2. \A n \in 1..N : pos[n] \in Nat /\ n \in Nat
  BY <1>1, FieldsType
<1>3. \A m, n \in 1..N : (pos[m] = pos[n] => m = n) /\ (pos[m] <= pos[n] <=> m <= n)
  <2> SUFFICES ASSUME NEW m \in 1..N, NEW n \in 1..N
               PROVE  (pos[m] = pos[n] => m = n) /\ (pos[m] <= pos[n] <=> m <= n)
    OBVIOUS
  <2>1. /\ m < n => pos[m] < pos[n]
        /\ n < m => pos[n] < pos[m]
        /\ pos[m] \in Nat /\ pos[n] \in Nat /\ m \in Nat /\ n \in Nat
    BY <1>1, <1>2
  <2> QED
    BY <2>1
<1> HIDE DEF H, N
<1>4. Cardinality(H) = N
  <2>1. pos \in Bijection(1..N, H)
    BY <1>1, <1>3 DEF Bijection, Injection, Surjection, IsInjective
  <2> QED
    BY <1>1, <2>1, FS_CountingElements DEF ExistsBijection
<1>5. ASSUME NEW n \in 1..N
      PROVE  Cardinality({g \in H : g <= pos[n]}) = n
  <2> DEFINE G == {g \in H : g <= pos[n]}
             f == [m \in 1..n |-> pos[m]]
  <2>1. 1..n \subseteq 1..N /\ n \in Nat
    BY <1>1
  <2>2. G = {pos[m] : m \in 1..n}
    <3>1. ASSUME NEW g \in G
          PROVE  g \in {pos[m] : m \in 1..n}
      <4>1. PICK m \in 1..N : g = pos[m]
        BY <1>1
      <4>2. m <= n
        BY <1>3, <4>1
      <4> QED
        BY <1>2, <4>1, <4>2
    <3>2. ASSUME NEW m \in 1..n
          PROVE  pos[m] \in G
      <4>1. m \in 1..N /\ m <= n
        BY <2>1
      <4> QED
        BY <1>1, <1>3, <4>1
    <3> QED
      BY <3>1, <3>2
  <2>3. f \in Bijection(1..n, G)
    BY <1>3, <2>1, <2>2 DEF Bijection, Injection, Surjection, IsInjective
  <2> QED
    BY <2>1, <2>3, FS_CountingElements DEF ExistsBijection
<1>6. ASSUME NEW n \in 1..N
      PROVE  Nth(text, n) = pos[n]
  <2> DEFINE x == Nth(text, n)
  <2>1. pos[n] \in H /\ Cardinality({g \in H : g <= pos[n]}) = n
    BY <1>1, <1>5
  <2>2. x \in H /\ Cardinality({g \in H : g <= x}) = n
    BY <2>1 DEF Nth, H
  <2>3. PICK m \in 1..N : x = pos[m]
    BY <1>1, <2>2
  <2>4. m = n
    BY <1>5, <2>2, <2>3
  <2> QED
    BY <2>3, <2>4
<1> QED
  BY <1>4, <1>6 DEF H, N

\* What is in the temporary is what the lines read so far mean.
LEMMA Meaning ==
    ASSUME NEW text \in Seq(LineType), NEW list \in Seq(DeviceType), NEW keys, NEW pos,
           SectionsAt(text, list, keys, pos)
    PROVE  Devices(text) = list
<1>1. /\ Cardinality(Headers(text)) = Len(list)
      /\ \A n \in 1..Len(list) : Nth(text, n) = pos[n]
  BY Counted
<1>2. \A n \in 1..Len(list) : list[n] = Section(text, pos[n])
  BY DEF SectionsAt
<1>3. Devices(text) = [n \in 1..Len(list) |-> list[n]]
  BY <1>1, <1>2 DEF Devices
<1> QED
  BY <1>3

LEMMA NamesAre ==
    ASSUME NEW text \in Seq(LineType), NEW list \in Seq(DeviceType), NEW keys, NEW pos,
           SectionsAt(text, list, keys, pos)
    PROVE  \A n \in 1..Len(list) : list[n].name = text[pos[n]].value.text
<1> SUFFICES ASSUME NEW n \in 1..Len(list)
             PROVE  list[n].name = text[pos[n]].value.text
  OBVIOUS
<1>1. /\ pos[n] \in 1..Len(text) /\ Distinct(text, pos[n])
      /\ list[n] = Section(text, pos[n])
  BY DEF SectionsAt
<1> QED
  BY <1>1, SectionIs

\* The file is valid so far if and only if its last section is.
LEMMA ValidSoFar ==
    ASSUME NEW text \in Seq(LineType), NEW list \in Seq(DeviceType), NEW keys, NEW pos,
           SectionsAt(text, list, keys, pos), LinesValid(text), Len(list) <= MaxDevices
    PROVE  ValidDevices(text) <=>
             (Len(list) > 0 => ValidSection(text, pos[Len(list)]))
<1>1. Cardinality(Headers(text)) = Len(list)
  BY Counted
<1>2. \A i \in 1..Len(text) :
        /\ text[i].length < DeviceLineSize /\ text[i].nul = "none"
        /\ text[i].kind \in {"blank", "semicolon", "header", "field"}
        /\ text[i].kind = "field" => \E h \in Headers(text) : h < i
  BY DEF LinesValid, LineValid
<1>3. ValidDevices(text) <=>
        \A h \in Headers(text) :
           /\ text[h].value.text \in GoodNames /\ text[h].value.len < NameSize
           /\ \A g \in Headers(text) \ {h} : text[g].value.text # text[h].value.text
           /\ ValidSection(text, h)
  BY <1>1, <1>2 DEF ValidDevices
<1>4. \A h \in Headers(text) :
        /\ text[h].value.text \in GoodNames /\ text[h].value.len < NameSize
        /\ \A g \in Headers(text) \ {h} : text[g].value.text # text[h].value.text
  <2>1. Headers(text) = {pos[n] : n \in 1..Len(list)}
    BY DEF SectionsAt
  <2>2. \A n \in 1..Len(list) :
          text[pos[n]].value.text \in GoodNames /\ text[pos[n]].value.len < NameSize
    BY DEF SectionsAt
  <2>3. \A m, n \in 1..Len(list) :
          pos[m] # pos[n] => text[pos[m]].value.text # text[pos[n]].value.text
    <3>1. \A m, n \in 1..Len(list) : m # n => list[m].name # list[n].name
      BY DEF SectionsAt
    <3>2. \A n \in 1..Len(list) : list[n].name = text[pos[n]].value.text
      BY NamesAre
    <3> QED
      BY <3>1, <3>2
  <2> QED
    BY <2>1, <2>2, <2>3
<1>5. Len(list) \in Nat
  OBVIOUS
<1>6. (\A h \in Headers(text) : ValidSection(text, h)) <=>
        (Len(list) > 0 => ValidSection(text, pos[Len(list)]))
  BY <1>5 DEF SectionsAt
<1> QED
  BY <1>3, <1>4, <1>6


\* The last header, and the others.
LEMMA LastHeader ==
    ASSUME NEW text \in Seq(LineType), NEW list \in Seq(DeviceType), NEW keys, NEW pos,
           SectionsAt(text, list, keys, pos)
    PROVE  \A n \in 1..Len(list) : IsLast(text, pos[n]) <=> n = Len(list)
<1> SUFFICES ASSUME NEW n \in 1..Len(list)
             PROVE  IsLast(text, pos[n]) <=> n = Len(list)
  OBVIOUS
<1>1. /\ Len(list) \in Nat /\ Len(text) \in Nat
      /\ pos \in [1..Len(list) -> 1..Len(text)]
      /\ \A m \in 1..Len(list) : pos[m] \in Nat
      /\ \A m, k \in 1..Len(list) : m < k => pos[m] < pos[k]
      /\ Headers(text) = {pos[m] : m \in 1..Len(list)}
  BY FieldsType DEF SectionsAt
<1>2. CASE n = Len(list)
  <2>1. \A m \in 1..Len(list) : m < n \/ m = n
    BY <1>1, <1>2
  <2>2. \A m \in 1..Len(list) : pos[m] <= pos[n]
    BY <1>1, <2>1
  <2>3. \A j \in (pos[n] + 1)..Len(text) : j > pos[n]
    BY <1>1
  <2> QED
    BY <1>1, <1>2, <2>2, <2>3 DEF IsLast
<1>3. CASE n # Len(list)
  <2>1. n + 1 \in 1..Len(list) /\ n < n + 1
    BY <1>1, <1>3
  <2>2. pos[n + 1] \in (pos[n] + 1)..Len(text)
    <3>1. pos[n] < pos[n + 1] /\ pos[n + 1] \in 1..Len(text) /\ pos[n] \in Nat
      BY <1>1, <2>1
    <3> QED
      BY <1>1, <3>1
  <2> QED
    BY <1>1, <1>3, <2>1, <2>2 DEF IsLast
<1> QED
  BY <1>2, <1>3

\* A line that is not a field leaves the sections before it alone, and a field
\* all but the last.
LEMMA SectionKept ==
    ASSUME NEW text \in Seq(LineType), NEW l \in LineType,
           NEW list \in Seq(DeviceType), NEW keys, NEW pos,
           SectionsAt(text, list, keys, pos),
           NEW n \in 1..Len(list), l.kind # "field" \/ n # Len(list)
    PROVE  /\ Fields(Append(text, l), pos[n]) = Fields(text, pos[n])
           /\ Distinct(Append(text, l), pos[n])
           /\ Keys(Append(text, l), pos[n]) = Keys(text, pos[n])
           /\ Section(Append(text, l), pos[n]) = Section(text, pos[n])
           /\ ValidSection(Append(text, l), pos[n]) <=> ValidSection(text, pos[n])
<1>1. pos[n] \in 1..Len(text) /\ Distinct(text, pos[n])
  BY DEF SectionsAt
<1>2. Fields(Append(text, l), pos[n]) = Fields(text, pos[n])
  BY <1>1, FieldsAppend, LastHeader
<1>3. Fields(text, pos[n]) \subseteq 1..Len(text)
  BY <1>1, FieldsType
<1>4. Agree(text, Append(text, l), pos[n])
  BY <1>1, <1>2, <1>3, Appended DEF Agree
<1> QED
  BY <1>1, <1>2, <1>4, SameSection, KeptSection

LEMMA AfterBlank ==
    ASSUME NEW text \in Seq(LineType), NEW l \in LineType,
           l.kind # "field", l.kind # "header",
           NEW list \in Seq(DeviceType), NEW keys, NEW pos,
           SectionsAt(text, list, keys, pos)
    PROVE  SectionsAt(Append(text, l), list, keys, pos)
<1> DEFINE more == Append(text, l)
<1>1. /\ Len(more) = Len(text) + 1 /\ Len(text) \in Nat
      /\ \A i \in 1..Len(text) : more[i] = text[i]
  BY Appended
<1>2. Headers(more) = Headers(text)
  BY HeadersAppend
<1>3. \A n \in 1..Len(list) :
        /\ Fields(more, pos[n]) = Fields(text, pos[n])
        /\ Distinct(more, pos[n])
        /\ Keys(more, pos[n]) = Keys(text, pos[n])
        /\ Section(more, pos[n]) = Section(text, pos[n])
        /\ ValidSection(more, pos[n]) <=> ValidSection(text, pos[n])
  BY SectionKept
<1>4. pos \in [1..Len(list) -> 1..Len(text)] /\ Len(list) \in Nat
  BY DEF SectionsAt
<1> HIDE DEF more
<1>5. pos \in [1..Len(list) -> 1..Len(more)]
  <2>1. 1..Len(text) \subseteq 1..Len(more)
    BY <1>1
  <2> QED
    BY <1>4, <2>1
<1>6. \A n \in 1..Len(list) : more[pos[n]] = text[pos[n]]
  BY <1>1, <1>4
<1>7. Len(list) > 0 =>
        /\ keys = Keys(more, pos[Len(list)])
        /\ \A i \in Fields(more, pos[Len(list)]) : Accepted(more[i].key, more[i].value)
  <2> SUFFICES ASSUME Len(list) > 0
               PROVE  /\ keys = Keys(more, pos[Len(list)])
                      /\ \A i \in Fields(more, pos[Len(list)]) :
                           Accepted(more[i].key, more[i].value)
    OBVIOUS
  <2>1. Len(list) \in 1..Len(list)
    BY <1>4
  <2>2. Fields(text, pos[Len(list)]) \subseteq 1..Len(text)
    BY <1>4, <2>1, FieldsType
  <2> QED
    BY <1>1, <1>3, <2>1, <2>2 DEF SectionsAt
<1>8. SectionsAt(more, list, keys, pos)
  BY <1>2, <1>3, <1>5, <1>6, <1>7 DEF SectionsAt
<1> QED
  BY <1>8 DEF more


\* The meaning of a header with nothing after it is device_config_init.
LEMMA FreshSection ==
    ASSUME NEW text \in Seq(LineType), NEW l \in LineType
    PROVE  /\ Distinct(Append(text, l), Len(text) + 1)
           /\ Keys(Append(text, l), Len(text) + 1) = {}
           /\ Section(Append(text, l), Len(text) + 1) = DeviceConfigInit(l.value.text)
<1> DEFINE more == Append(text, l)
           h == Len(text) + 1
<1>1. more[h] = l
  BY Appended
<1>2. Fields(more, h) = {}
  BY NewSection
<1> HIDE DEF more, h
<1>3. Distinct(more, h) /\ Keys(more, h) = {}
  BY <1>2 DEF Distinct, Keys
<1>4. ~Output(more, h)
  BY <1>3 DEF Output
<1>5. Output(more, h) = FALSE
  BY <1>4, Zenon DEF Output
<1>6. \A key, default :
        /\ TextOr(more, h, key, default) = default
        /\ NumberOr(more, h, key, default) = default
  BY <1>3 DEF TextOr, NumberOr
<1>7. Section(more, h) = DeviceConfigInit(l.value.text)
  <2> DEFINE out == Output(more, h)
             c(o) == [name |-> l.value.text, type |-> "uart", path |-> NoText,
                      led_name |-> NoText, enabled |-> 1, baudrate |-> 115200,
                      address |-> 0, offset |-> 0, output |-> o,
                      initial_value |-> 0, bias |-> "default"]
  <2>1. Section(more, h) = c(out)
    <3> HIDE DEF out
    <3>1. out = Output(more, h)
      BY DEF out
    <3> QED
      BY <1>1, <1>6, <3>1 DEF Section
  <2>2. c(FALSE) = DeviceConfigInit(l.value.text)
    BY DEF DeviceConfigInit
  <2> HIDE DEF c
  <2>3. c(out) = c(FALSE)
    BY <1>5, Zenon
  <2> QED
    BY <2>1, <2>2, <2>3, Zenon
<1> QED
  BY <1>3, <1>7 DEF more, h

\* A header that device_config_load accepts begins a section.
LEMMA AfterHeader ==
    ASSUME NEW text \in Seq(LineType), NEW l \in LineType, l.kind = "header",
           NEW list \in Seq(DeviceType), NEW keys, NEW pos,
           SectionsAt(text, list, keys, pos),
           Len(list) > 0 => ValidSection(text, pos[Len(list)]),
           l.value.text \in GoodNames, l.value.len < NameSize,
           \A n \in 1..Len(list) : list[n].name # l.value.text
    PROVE  /\ DeviceConfigInit(l.value.text) \in DeviceType
           /\ \E next : SectionsAt(Append(text, l),
                                   Append(list, DeviceConfigInit(l.value.text)), {}, next)
<1> DEFINE more == Append(text, l)
           h == Len(text) + 1
           N == Len(list)
           new == DeviceConfigInit(l.value.text)
           list2 == Append(list, new)
           pos2 == [n \in 1..(N + 1) |-> IF n = N + 1 THEN h ELSE pos[n]]
<1>1. /\ Len(more) = h /\ Len(text) \in Nat /\ more[h] = l
      /\ \A i \in 1..Len(text) : more[i] = text[i]
      /\ more \in Seq(LineType) /\ N \in Nat
  BY Appended
<1>2. Distinct(more, h) /\ Keys(more, h) = {} /\ Section(more, h) = new
  BY FreshSection
<1>3. new \in DeviceType /\ new.name = l.value.text
  <2>1. h \in 1..Len(more)
    BY <1>1
  <2> QED
    BY <1>1, <1>2, <2>1, SectionIs
<1>4. /\ list2 \in Seq(DeviceType) /\ Len(list2) = N + 1 /\ list2[N + 1] = new
      /\ \A n \in 1..N : list2[n] = list[n]
  BY <1>3
<1>5. Headers(more) = Headers(text) \cup {h}
  BY HeadersAppend
<1>6. Fields(more, h) = {}
  BY NewSection
<1>7. \A n \in 1..N :
        /\ Distinct(more, pos[n])
        /\ Section(more, pos[n]) = Section(text, pos[n])
        /\ ValidSection(more, pos[n]) <=> ValidSection(text, pos[n])
  BY SectionKept
<1>8. /\ pos \in [1..N -> 1..Len(text)]
      /\ \A m, n \in 1..N : m < n => pos[m] < pos[n]
      /\ Headers(text) = {pos[n] : n \in 1..N}
      /\ \A m, n \in 1..N : m # n => list[m].name # list[n].name
      /\ \A n \in 1..N :
           /\ list[n] = Section(text, pos[n])
           /\ text[pos[n]].value.text \in GoodNames
           /\ text[pos[n]].value.len < NameSize
           /\ ValidSection(text, pos[n])
  BY <1>1 DEF SectionsAt
<1> HIDE DEF more, h, N, new, list2
<1>9. /\ 1..(N + 1) = (1..N) \cup {N + 1} /\ N + 1 \notin 1..N
      /\ \A n \in 1..N : n < N + 1 /\ ~(N + 1 < n)
      /\ ~(N + 1 < N + 1)
  BY <1>1
<1>10. pos2[N + 1] = h /\ \A n \in 1..N : pos2[n] = pos[n]
  BY <1>9
<1>11. 1..Len(text) \subseteq 1..h /\ h \in 1..h /\ \A i \in 1..Len(text) : i < h
  BY <1>1 DEF h
<1>12. pos2 \in [1..(N + 1) -> 1..h]
  BY <1>8, <1>9, <1>11
<1> HIDE DEF pos2
<1>13. \A m, n \in 1..(N + 1) : m < n => pos2[m] < pos2[n]
  BY <1>8, <1>9, <1>10, <1>11
<1>14. Headers(more) = {pos2[n] : n \in 1..(N + 1)}
  <2>1. {pos2[n] : n \in 1..N} = {pos[n] : n \in 1..N}
    BY <1>10
  <2>2. {pos2[n] : n \in (1..N) \cup {N + 1}} = {pos2[n] : n \in 1..N} \cup {h}
    BY <1>10
  <2>3. Headers(more) = {pos[n] : n \in 1..N} \cup {h}
    BY <1>5, <1>8
  <2>4. 1..(N + 1) = (1..N) \cup {N + 1}
    BY <1>9
  <2> QED
    BY <2>1, <2>2, <2>3, <2>4
<1>15. ASSUME NEW n \in 1..(N + 1)
       PROVE  /\ Distinct(more, pos2[n])
              /\ list2[n] = Section(more, pos2[n])
              /\ more[pos2[n]].value.text \in GoodNames
              /\ more[pos2[n]].value.len < NameSize
              /\ n # N + 1 => ValidSection(more, pos2[n])
  <2>1. CASE n = N + 1
    BY <1>1, <1>2, <1>4, <1>10, <2>1
  <2>2. CASE n \in 1..N
    <3>1. pos2[n] = pos[n] /\ list2[n] = list[n]
      BY <1>4, <1>10, <2>2
    <3>2. pos[n] \in 1..Len(text)
      BY <1>8, <2>2
    <3>3. more[pos[n]] = text[pos[n]]
      BY <1>1, <3>2
    <3> QED
      BY <1>7, <1>8, <2>2, <3>1, <3>3
  <2> QED
    BY <1>9, <2>1, <2>2
<1>16. \A m, n \in 1..(N + 1) : m # n => list2[m].name # list2[n].name
  <2>1. \A n \in 1..N : list[n].name # l.value.text
    BY DEF N
  <2>2. \A n \in 1..N : list2[n].name # list2[N + 1].name
    BY <1>3, <1>4, <2>1
  <2>3. \A m, n \in 1..N : m # n => list2[m].name # list2[n].name
    BY <1>4, <1>8
  <2> QED
    BY <1>9, <2>2, <2>3
<1>17. SectionsAt(more, list2, {}, pos2)
  BY <1>1, <1>2, <1>4, <1>6, <1>10, <1>12, <1>13, <1>14, <1>15, <1>16
  DEF SectionsAt
<1> QED
  BY <1>3, <1>17 DEF more, list2, new

\* A field that config_field accepts goes to the last section.
LEMMA AfterField ==
    ASSUME NEW text \in Seq(LineType), NEW l \in LineType, l.kind = "field",
           NEW list \in Seq(DeviceType), NEW keys, NEW pos,
           SectionsAt(text, list, keys, pos), Len(list) > 0,
           l.key \notin keys, Accepted(l.key, l.value)
    PROVE  LET list2 == [list EXCEPT ![Len(list)] = SetField(@, l.key, l.value)]
           IN  /\ list2 \in Seq(DeviceType) /\ Len(list2) = Len(list)
               /\ SectionsAt(Append(text, l), list2, keys \cup {l.key}, pos)
<1> DEFINE more == Append(text, l)
           N == Len(list)
           h == pos[N]
           new == SetField(list[N], l.key, l.value)
           list2 == [list EXCEPT ![N] = new]
<1>1. /\ Len(more) = Len(text) + 1 /\ Len(text) \in Nat /\ more[Len(text) + 1] = l
      /\ \A i \in 1..Len(text) : more[i] = text[i]
      /\ more \in Seq(LineType) /\ N \in Nat /\ N \in 1..N
  BY Appended
<1>2. /\ pos \in [1..N -> 1..Len(text)]
      /\ \A m, n \in 1..N : m < n => pos[m] < pos[n]
      /\ Headers(text) = {pos[n] : n \in 1..N}
      /\ \A m, n \in 1..N : m # n => list[m].name # list[n].name
      /\ \A n \in 1..N :
           /\ Distinct(text, pos[n])
           /\ list[n] = Section(text, pos[n])
           /\ text[pos[n]].value.text \in GoodNames
           /\ text[pos[n]].value.len < NameSize
           /\ n # N => ValidSection(text, pos[n])
      /\ keys = Keys(text, h)
      /\ \A i \in Fields(text, h) : Accepted(text[i].key, text[i].value)
  BY DEF SectionsAt
<1>3. h \in 1..Len(text) /\ Distinct(text, h) /\ list[N] = Section(text, h)
  BY <1>1, <1>2
<1>4. Fields(more, h) = Fields(text, h) \cup {Len(text) + 1}
  BY <1>1, <1>3, FieldsAppend, LastHeader
<1>5. Keys(more, h) = keys \cup {l.key} /\ Distinct(more, h)
  BY <1>2, <1>3, <1>4, FieldAdded
<1>6. l.key \in Key
  BY DEF Accepted
<1>7. Section(more, h) = new
  BY <1>2, <1>3, <1>4, <1>6, GrownSection
<1>8. new \in DeviceType /\ new.name = list[N].name
  <2>1. l.value \in ValueType /\ list[N] \in DeviceType
    BY <1>1 DEF LineType
  <2> QED
    BY <1>6, <2>1, SetFieldIs
<1>9. Headers(more) = Headers(text)
  BY HeadersAppend
<1>10. \A n \in 1..N : n # N =>
         /\ Distinct(more, pos[n])
         /\ Section(more, pos[n]) = Section(text, pos[n])
         /\ ValidSection(more, pos[n]) <=> ValidSection(text, pos[n])
  BY SectionKept
<1>11. Fields(text, h) \subseteq 1..Len(text)
  BY <1>3, FieldsType
<1>12. /\ list2 \in Seq(DeviceType) /\ Len(list2) = N /\ list2[N] = new
       /\ \A n \in 1..N : n # N => list2[n] = list[n]
  BY <1>1, <1>8
<1> HIDE DEF more, N, h, new, list2
<1>13. pos \in [1..N -> 1..Len(more)]
  <2>1. 1..Len(text) \subseteq 1..Len(more)
    BY <1>1
  <2> QED
    BY <1>2, <2>1
<1>14. ASSUME NEW n \in 1..N
       PROVE  /\ Distinct(more, pos[n])
              /\ list2[n] = Section(more, pos[n])
              /\ more[pos[n]].value.text \in GoodNames
              /\ more[pos[n]].value.len < NameSize
              /\ n # N => ValidSection(more, pos[n])
  <2>1. more[pos[n]] = text[pos[n]]
    BY <1>1, <1>2
  <2>2. CASE n = N
    BY <1>2, <1>5, <1>7, <1>12, <2>1, <2>2 DEF h
  <2>3. CASE n # N
    BY <1>2, <1>10, <1>12, <2>1, <2>3
  <2> QED
    BY <2>2, <2>3
<1>15. \A n \in 1..N : list2[n].name = list[n].name
  BY <1>8, <1>12
<1>16. \A i \in Fields(more, h) : Accepted(more[i].key, more[i].value)
  BY <1>1, <1>2, <1>4, <1>11
<1>17. SectionsAt(more, list2, keys \cup {l.key}, pos)
  BY <1>2, <1>5, <1>9, <1>12, <1>13, <1>14, <1>15, <1>16 DEF SectionsAt, h
<1> QED
  BY <1>12, <1>17 DEF more, list2, new, N


LEMMA LinesAppend ==
    ASSUME NEW text \in Seq(LineType), NEW l \in LineType, LinesValid(text)
    PROVE  LinesValid(Append(text, l)) <=>
             LineValid(l) /\ (l.kind = "field" => Headers(text) # {})
<1> DEFINE more == Append(text, l)
           k == Len(text) + 1
<1>1. /\ Len(more) = k /\ Len(text) \in Nat /\ more[k] = l
      /\ \A i \in 1..Len(text) : more[i] = text[i]
  BY Appended
<1>2. Headers(more) = IF l.kind = "header" THEN Headers(text) \cup {k} ELSE Headers(text)
  BY HeadersAppend
<1>3. Headers(text) \subseteq 1..Len(text)
  BY <1>1, FieldsType
<1> HIDE DEF more
<1>4. 1..k = (1..Len(text)) \cup {k} /\ \A i \in 1..Len(text) : i < k
  BY <1>1
<1> HIDE DEF k
<1>5. \A i \in 1..Len(text) :
        /\ LineValid(more[i])
        /\ more[i].kind = "field" => \E h \in Headers(more) : h < i
  BY <1>1, <1>2 DEF LinesValid
<1>6. l.kind = "field" => ((\E h \in Headers(more) : h < k) <=> Headers(text) # {})
  BY <1>2, <1>3, <1>4
<1>7. LinesValid(more) <=> LineValid(l) /\ (l.kind = "field" => Headers(text) # {})
  BY <1>1, <1>4, <1>5, <1>6 DEF LinesValid
<1> QED
  BY <1>7 DEF more

\* What every beginning of a valid file has.
Promising(text) ==
    /\ LinesValid(text)
    /\ \A h \in Headers(text) :
         /\ text[h].value.text \in GoodNames /\ text[h].value.len < NameSize
         /\ \A g \in Headers(text) \ {h} : text[g].value.text # text[h].value.text
         /\ Distinct(text, h)
         /\ \A i \in Fields(text, h) : LegalValue(text[i].key, text[i].value)
         /\ ~IsLast(text, h) => ValidSection(text, h)
    /\ Cardinality(Headers(text)) <= MaxDevices

\* A valid file, whatever follows, begins like one.
LEMMA ValidPromises ==
    ASSUME NEW text \in Seq(LineType), NEW rest \in Seq(LineType),
           ValidDevices(text \o rest)
    PROVE  Promising(text)
<1> DEFINE all == text \o rest
<1>1. /\ all \in Seq(LineType) /\ Len(text) \in Nat /\ Len(all) \in Nat
      /\ Len(text) <= Len(all)
      /\ \A i \in 1..Len(text) : all[i] = text[i]
  OBVIOUS
<1>2. ValidDevices(all)
  OBVIOUS
<1> HIDE DEF all
<1>3. 1..Len(text) \subseteq 1..Len(all)
  BY <1>1
<1>4. Headers(text) = Headers(all) \cap 1..Len(text)
  BY <1>1, <1>3 DEF Headers
<1>5. ASSUME NEW h \in Headers(text)
      PROVE  /\ h \in 1..Len(text) /\ h \in Headers(all)
             /\ Fields(text, h) = Fields(all, h) \cap 1..Len(text)
  <2>1. h \in 1..Len(text) /\ h \in Headers(all)
    BY <1>4
  <2>2. (h + 1)..Len(text) = ((h + 1)..Len(all)) \cap 1..Len(text)
    BY <1>1, <2>1
  <2>3. ASSUME NEW i \in (h + 1)..Len(text)
        PROVE  i \in Fields(text, h) <=> i \in Fields(all, h)
    <3>1. (h + 1)..i \subseteq 1..Len(text) /\ i \in 1..Len(text) /\ i \in (h + 1)..Len(all)
      BY <1>1, <2>1
    <3>2. (\A j \in (h + 1)..i : j \notin Headers(all)) <=>
            (\A j \in (h + 1)..i : j \notin Headers(text))
      BY <1>4, <3>1
    <3> QED
      BY <1>1, <3>1, <3>2 DEF Fields
  <2>4. Fields(text, h) \subseteq (h + 1)..Len(text) /\ Fields(all, h) \subseteq (h + 1)..Len(all)
    BY DEF Fields
  <2>5. Fields(text, h) = Fields(all, h) \cap 1..Len(text)
    BY <2>2, <2>3, <2>4, Zenon
  <2> QED
    BY <2>1, <2>5
<1>6. LinesValid(text)
  <2> SUFFICES ASSUME NEW i \in 1..Len(text)
               PROVE  /\ LineValid(text[i])
                      /\ text[i].kind = "field" => \E h \in Headers(text) : h < i
    BY DEF LinesValid
  <2>1. i \in 1..Len(all) /\ all[i] = text[i]
    BY <1>1, <1>3
  <2>2. /\ LineValid(text[i])
        /\ text[i].kind = "field" => \E h \in Headers(all) : h < i
    BY <1>2, <2>1 DEF ValidDevices, LineValid
  <2>3. \A h \in Headers(all) : h < i => h \in 1..Len(text)
    BY <1>1 DEF Headers
  <2> QED
    BY <1>4, <2>2, <2>3
<1>7. ASSUME NEW h \in Headers(text)
      PROVE  /\ text[h].value.text \in GoodNames /\ text[h].value.len < NameSize
             /\ \A g \in Headers(text) \ {h} : text[g].value.text # text[h].value.text
  <2>1. \A g \in Headers(text) : all[g] = text[g] /\ g \in Headers(all)
    BY <1>1, <1>4
  <2>2. /\ all[h].value.text \in GoodNames /\ all[h].value.len < NameSize
        /\ \A g \in Headers(all) \ {h} : all[g].value.text # all[h].value.text
    BY <1>2, <2>1 DEF ValidDevices
  <2> QED
    BY <2>1, <2>2
<1>8. ASSUME NEW h \in Headers(text)
      PROVE  /\ Distinct(text, h) /\ Distinct(all, h)
             /\ \A i \in Fields(text, h) : LegalValue(text[i].key, text[i].value)
             /\ ValidSection(all, h)
  <2>1. ValidSection(all, h)
    BY <1>2, <1>5 DEF ValidDevices
  <2>2. Distinct(all, h)
    <3>1. h \in Nat
      BY <1>1, <1>5
    <3>2. Cardinality(Fields(all, h)) = Cardinality(Keys(all, h))
      BY <2>1 DEF ValidSection
    <3> QED
      BY <1>1, <3>1, <3>2, DistinctCounted
  <2>3. Distinct(text, h)
    BY <1>1, <1>5, <2>2 DEF Distinct
  <2>4. \A i \in Fields(all, h) : LegalValue(all[i].key, all[i].value)
    BY <2>1 DEF ValidSection
  <2>5. \A i \in Fields(text, h) : i \in Fields(all, h) /\ all[i] = text[i]
    BY <1>1, <1>5
  <2> QED
    BY <2>1, <2>2, <2>3, <2>4, <2>5
<1>9. ASSUME NEW h \in Headers(text), ~IsLast(text, h)
      PROVE  ValidSection(text, h)
  <2>1. PICK j \in (h + 1)..Len(text) : j \in Headers(text)
    BY <1>9 DEF IsLast
  <2>2. ASSUME NEW i \in Fields(all, h)
        PROVE  i \in 1..Len(text)
    <3>1. i \in (h + 1)..Len(all) /\ \A g \in (h + 1)..i : g \notin Headers(all)
      BY DEF Fields
    <3>2. j \notin (h + 1)..i
      BY <1>4, <2>1, <3>1
    <3>3. h \in 1..Len(text)
      BY <1>5
    <3> QED
      BY <1>1, <2>1, <3>1, <3>2, <3>3
  <2>3. Fields(all, h) = Fields(text, h)
    BY <1>5, <2>2
  <2>4. Agree(text, all, h)
    BY <1>1, <1>5, <2>3 DEF Agree
  <2> QED
    BY <1>8, <2>4, KeptSection
<1>10. Cardinality(Headers(text)) <= MaxDevices
  <2>1. IsFiniteSet(Headers(all))
    <3>1. Headers(all) \in SUBSET Nat /\ \A i \in Headers(all) : i <= Len(all)
      BY <1>1 DEF Headers
    <3> QED
      BY <1>1, <3>1, FS_BoundedSetOfNaturals
  <2>2. Cardinality(Headers(text)) <= Cardinality(Headers(all)) /\ IsFiniteSet(Headers(text))
    BY <1>4, <2>1, FS_Subset
  <2>3. Cardinality(Headers(all)) \in Nat /\ Cardinality(Headers(text)) \in Nat
    BY <2>1, <2>2, FS_CardinalityType
  <2>4. Cardinality(Headers(all)) <= MaxDevices
    BY <1>2 DEF ValidDevices
  <2> QED
    BY <2>2, <2>3, <2>4, SizesAssumption
<1> QED
  BY <1>6, <1>7, <1>8, <1>9, <1>10 DEF Promising

\* In particular when nothing does.
LEMMA ValidIsPromising ==
    ASSUME NEW text \in Seq(LineType), ValidDevices(text)
    PROVE  Promising(text)
<1>1. <<>> \in Seq(LineType) /\ text \o <<>> = text
  OBVIOUS
<1> QED
  BY <1>1, ValidPromises

\* The lines read so far, and what has been made of them.
Reading ==
    /\ temporary \in Seq(DeviceType) /\ Len(temporary) <= MaxDevices
    /\ LinesValid(file)
    /\ \E pos : SectionsAt(file, temporary, fields, pos)

\* The section that a header or the end of the file would end.
LEMMA LastChecked ==
    ASSUME file \in Seq(LineType), temporary \in Seq(DeviceType), NEW pos,
           SectionsAt(file, temporary, fields, pos), Len(temporary) > 0
    PROVE  SectionValid <=> ValidSection(file, pos[Len(temporary)])
<1>1. Len(temporary) \in 1..Len(temporary)
  OBVIOUS
<1> QED
  BY <1>1, SectionChecked DEF SectionsAt

\* device_config_load refuses no header that a valid file may have there,
LEMMA HeaderRefused ==
    ASSUME file \in Seq(LineType), Reading, NEW l \in LineType, l.kind = "header",
           Promising(Append(file, l))
    PROVE  HeaderOk(l.value)
<1> DEFINE more == Append(file, l)
           k == Len(file) + 1
           N == Len(temporary)
<1> PICK pos : SectionsAt(file, temporary, fields, pos)
  BY DEF Reading
<1> USE DEF Reading
<1>1. /\ Len(file) \in Nat /\ more[k] = l /\ N \in Nat /\ MaxDevices \in Nat
      /\ \A i \in 1..Len(file) : more[i] = file[i] /\ i # k
  BY Appended, SizesAssumption
<1>2. Headers(more) = Headers(file) \cup {k} /\ k \notin Headers(file)
  BY HeadersAppend, FieldsType
<1>3. /\ \A h \in Headers(more) :
           /\ more[h].value.text \in GoodNames /\ more[h].value.len < NameSize
           /\ \A g \in Headers(more) \ {h} : more[g].value.text # more[h].value.text
           /\ ~IsLast(more, h) => ValidSection(more, h)
      /\ Cardinality(Headers(more)) <= MaxDevices
  BY DEF Promising
<1>4. \A n \in 1..N : pos[n] \in Headers(file) /\ pos[n] \in 1..Len(file)
  BY DEF SectionsAt
<1>5. N > 0 => SectionValid
  <2> SUFFICES ASSUME N > 0
               PROVE  SectionValid
    OBVIOUS
  <2>1. N \in 1..N
    BY <1>1
  <2>2. ~IsLast(more, pos[N])
    <3>1. Len(more) = k
      BY Appended
    <3>2. k \in (pos[N] + 1)..Len(more)
      BY <1>1, <1>4, <2>1, <3>1
    <3> QED
      BY <1>2, <3>2 DEF IsLast
  <2>3. ValidSection(more, pos[N])
    BY <1>2, <1>3, <1>4, <2>1, <2>2
  <2>4. ValidSection(file, pos[N])
    BY <2>1, <2>3, SectionKept
  <2> QED
    BY <2>4, LastChecked
<1>6. \A n \in 1..N : temporary[n].name # l.value.text
  <2>1. \A n \in 1..N : temporary[n].name = file[pos[n]].value.text
    BY NamesAre
  <2> QED
    BY <1>1, <1>2, <1>3, <1>4, <2>1
<1>7. N # MaxDevices
  <2>1. Cardinality(Headers(file)) = N
    BY Counted
  <2>2. IsFiniteSet(Headers(file))
    <3>1. Headers(file) \in SUBSET Nat /\ \A i \in Headers(file) : i <= Len(file)
      BY <1>1, FieldsType
    <3> QED
      BY <1>1, <3>1, FS_BoundedSetOfNaturals
  <2>3. Cardinality(Headers(more)) = N + 1
    BY <1>2, <2>1, <2>2, FS_AddElement
  <2> QED
    BY <1>1, <1>3, <2>3
<1>8. l.value.text \in GoodNames /\ l.value.len < NameSize
  BY <1>1, <1>2, <1>3
<1> QED
  BY <1>5, <1>6, <1>7, <1>8 DEF HeaderOk, NameValid

\* and no field.
LEMMA FieldRefused ==
    ASSUME file \in Seq(LineType), Reading, NEW l \in LineType, l.kind = "field",
           Promising(Append(file, l))
    PROVE  Len(temporary) > 0 /\ FieldOk(l.key, l.value)
<1> DEFINE more == Append(file, l)
           k == Len(file) + 1
           N == Len(temporary)
<1> PICK pos : SectionsAt(file, temporary, fields, pos)
  BY DEF Reading
<1> USE DEF Reading
<1>1. N \in Nat /\ Len(file) \in Nat /\ more[k] = l
  BY Appended
<1>2. N > 0
  <2>1. Headers(file) # {}
    BY LinesAppend DEF Promising
  <2>2. Headers(file) = {pos[n] : n \in 1..N}
    BY DEF SectionsAt
  <2> QED
    BY <1>1, <2>1, <2>2
<1>3. N \in 1..N
  BY <1>1, <1>2
<1>4. /\ pos[N] \in 1..Len(file) /\ Distinct(file, pos[N]) /\ fields = Keys(file, pos[N])
      /\ pos[N] \in Headers(file)
  BY <1>2, <1>3 DEF SectionsAt
<1>5. Fields(more, pos[N]) = Fields(file, pos[N]) \cup {k}
  BY <1>3, <1>4, FieldsAppend, LastHeader
<1>6. /\ Distinct(more, pos[N])
      /\ \A i \in Fields(more, pos[N]) : LegalValue(more[i].key, more[i].value)
  <2>1. Headers(more) = Headers(file)
    BY HeadersAppend
  <2> QED
    BY <1>4, <2>1 DEF Promising
<1>7. l.key \notin fields
  BY <1>4, <1>5, <1>6, FieldAdded
<1>8. LegalValue(l.key, l.value)
  BY <1>1, <1>5, <1>6
<1>9. Accepted(l.key, l.value)
  BY <1>8, LegalIs DEF LineType
<1> QED
  BY <1>2, <1>7, <1>9 DEF FieldOk, Accepted


\* One line of a device file: what has been read is still understood, or the
\* file is refused, and rightly so.
LEMMA DeviceLineStep ==
    ASSUME file \in Seq(LineType), Reading, pc = "read", result = TRUE,
           NEW l \in LineType, DeviceLine(l), file' = Append(file, l)
    PROVE  \/ pc' = "read" /\ result' = TRUE /\ Reading'
           \/ pc' = "close" /\ result' = FALSE /\ ~Promising(file')
<1> PICK pos : SectionsAt(file, temporary, fields, pos)
  BY DEF Reading
<1>1. /\ temporary \in Seq(DeviceType) /\ Len(temporary) <= MaxDevices
      /\ LinesValid(file) /\ Len(temporary) \in Nat /\ MaxDevices \in Nat
  BY SizesAssumption DEF Reading
<1>2. Headers(file) = {pos[n] : n \in 1..Len(temporary)}
  BY DEF SectionsAt
<1>3. DeviceLineFits(l) <=> l.length < DeviceLineSize /\ l.nul = "none"
  BY SizesAssumption DEF LineType, DeviceLineFits
<1>4. CASE /\ DeviceLineFits(l) /\ l.kind \in {"blank", "semicolon"}
           /\ UNCHANGED <<pc, result, temporary, fields>>
  <2>1. UNCHANGED <<pc, result, temporary, fields>>
    BY <1>4
  <2>2. SectionsAt(file', temporary', fields', pos)
    BY <1>1, <1>4, <2>1, AfterBlank
  <2>3. LinesValid(file')
    BY <1>1, <1>3, <1>4, LinesAppend DEF LineValid
  <2> QED
    BY <1>1, <2>1, <2>2, <2>3 DEF Reading
<1>5. CASE /\ DeviceLineFits(l) /\ l.kind = "header" /\ HeaderOk(l.value)
           /\ temporary' = Append(temporary, DeviceConfigInit(l.value.text))
           /\ fields' = {}
           /\ UNCHANGED <<pc, result>>
  <2> DEFINE new == DeviceConfigInit(l.value.text)
  <2>1. /\ temporary' = Append(temporary, new) /\ fields' = {}
        /\ UNCHANGED <<pc, result>>
    BY <1>5
  <2>2. /\ Len(temporary) > 0 => ValidSection(file, pos[Len(temporary)])
        /\ l.value.text \in GoodNames /\ l.value.len < NameSize
        /\ \A n \in 1..Len(temporary) : temporary[n].name # l.value.text
        /\ Len(temporary) # MaxDevices
    BY <1>1, <1>5, LastChecked DEF HeaderOk, NameValid
  <2>3. /\ new \in DeviceType
        /\ \E next : SectionsAt(file', temporary', fields', next)
    BY <1>1, <1>5, <2>1, <2>2, AfterHeader
  <2>4. LinesValid(file')
    BY <1>1, <1>3, <1>5, LinesAppend DEF LineValid
  <2> HIDE DEF new
  <2>5. temporary' \in Seq(DeviceType) /\ Len(temporary') = Len(temporary) + 1
    BY <1>1, <2>1, <2>3
  <2>6. Len(temporary') <= MaxDevices
    BY <1>1, <2>2, <2>5
  <2> QED
    BY <2>1, <2>3, <2>4, <2>5, <2>6 DEF Reading
<1>6. CASE /\ DeviceLineFits(l) /\ l.kind = "field"
           /\ Len(temporary) > 0 /\ FieldOk(l.key, l.value)
           /\ temporary' = [temporary EXCEPT ![Len(temporary)] = SetField(@, l.key, l.value)]
           /\ fields' = fields \cup {l.key}
           /\ UNCHANGED <<pc, result>>
  <2>1. /\ temporary' = [temporary EXCEPT ![Len(temporary)] = SetField(@, l.key, l.value)]
        /\ fields' = fields \cup {l.key} /\ UNCHANGED <<pc, result>>
    BY <1>6
  <2>2. /\ l.key \notin fields /\ Accepted(l.key, l.value)
        /\ l.kind = "field" /\ Len(temporary) > 0
    BY <1>6 DEF FieldOk, Accepted
  <2>3. /\ temporary' \in Seq(DeviceType) /\ Len(temporary') = Len(temporary)
        /\ SectionsAt(file', temporary', fields', pos)
    BY <1>1, <2>1, <2>2, AfterField
  <2>4. Headers(file) # {}
    <3>1. Len(temporary) \in 1..Len(temporary)
      BY <1>1, <1>6
    <3> QED
      BY <1>2, <3>1
  <2>5. LinesValid(file')
    BY <1>1, <1>3, <1>6, <2>4, LinesAppend DEF LineValid
  <2> QED
    BY <1>1, <2>1, <2>3, <2>5 DEF Reading
<1>7. CASE /\ \/ ~DeviceLineFits(l)
              \/ l.kind \in {"badheader", "text"}
              \/ l.kind = "header" /\ ~HeaderOk(l.value)
              \/ l.kind = "field" /\ (Len(temporary) = 0 \/ ~FieldOk(l.key, l.value))
           /\ Refuse
  <2>1. pc' = "close" /\ result' = FALSE
    BY <1>7 DEF Refuse
  <2>2. Promising(file') => LineValid(l)
    BY <1>1, LinesAppend DEF Promising
  <2>3. l.kind = "header" /\ Promising(file') => HeaderOk(l.value)
    BY HeaderRefused
  <2>4. l.kind = "field" /\ Promising(file') =>
          Len(temporary) > 0 /\ FieldOk(l.key, l.value)
    BY FieldRefused
  <2> QED
    BY <1>1, <1>3, <1>7, <2>1, <2>2, <2>3, <2>4 DEF LineValid
<1> QED
  BY <1>4, <1>5, <1>6, <1>7 DEF DeviceLine

---------------------------------------------------------------------------
(* The invariant.                                                          *)

\* The caller's configuration is not touched before the end.
TargetOK == pc # "return" => target = Before

ShellOK ==
    which = "shell" =>
        /\ LastLineOK
        /\ pc = "open" => file = <<>> /\ temporary = ConfigInit
        /\ pc \in {"open", "read"} => result
        /\ pc = "read" => ValidShell(file) /\ temporary = Shell(file, ConfigInit)
        /\ pc = "close" =>
             /\ result => ValidShell(file) /\ temporary = Shell(file, ConfigInit)
             /\ ~result => io \/ ~ValidShell(file)

DevicesOK ==
    which = "devices" =>
        /\ pc = "open" => file = <<>> /\ temporary = <<>>
        /\ pc \in {"open", "read"} => result
        /\ pc = "read" => Reading
        /\ pc = "close" =>
             /\ result => ValidDevices(file) /\ temporary = Devices(file)
             /\ ~result => io \/ ~ValidDevices(file)

IndInv ==
    /\ TypeOK /\ TargetOK
    /\ ShellOK /\ ShellAsWritten
    /\ DevicesOK /\ DevicesAsWritten

LEMMA Initial == Init => IndInv
<1> SUFFICES ASSUME Init
             PROVE  IndInv
  OBVIOUS
<1>1. TypeOK
  <2>1. /\ file \in Seq(lines) /\ Len(file) <= MaxLines
        /\ fields \subseteq Key
    BY LinesAssumption DEF Init
  <2>2. /\ which \in {"devices", "shell"}
        /\ lines \in IF which = "devices" THEN LineSets ELSE ShellLineSets
    BY DEF Init
  <2>3. result \in BOOLEAN /\ io \in BOOLEAN /\ pc \in {"open", "read", "close", "return"}
    BY DEF Init
  <2> QED
    BY <2>1, <2>2, <2>3 DEF TypeOK
<1>2. TargetOK
  BY DEF Init, TargetOK
<1>3. ShellOK
  <2>1. \A key \in ShellKeys : Setting(file, key) = {}
    BY DEF Init, Setting
  <2> QED
    BY <2>1 DEF Init, ShellOK, LastLineOK
<1>4. DevicesOK
  BY DEF Init, DevicesOK
<1>5. ShellAsWritten /\ DevicesAsWritten
  BY DEF Init, ShellAsWritten, DevicesAsWritten, AsWritten
<1> QED
  BY <1>1, <1>2, <1>3, <1>4, <1>5 DEF IndInv

LEMMA FileType ==
    ASSUME TypeOK
    PROVE  file \in Seq(LineType) /\ lines \subseteq LineType
<1>1. lines \subseteq LineType
  BY LinesAssumption DEF TypeOK
<1> QED
  BY <1>1 DEF TypeOK

\* What a line changes has its type.
LEMMA DeviceLineTypes ==
    ASSUME TypeOK, NEW l, DeviceLine(l), pc = "read"
    PROVE  /\ pc' \in {"read", "close"} /\ result' \in BOOLEAN
           /\ fields' \subseteq Key
  BY DEF DeviceLine, Refuse, FieldOk, TypeOK

LEMMA ShellLineTypes ==
    ASSUME TypeOK, NEW l, ShellLine(l), pc = "read"
    PROVE  /\ pc' \in {"read", "close"} /\ result' \in BOOLEAN
           /\ fields' \subseteq Key
  BY DEF ShellLine, Refuse, TypeOK

\* A line is read into the configuration, or the file is refused for good.
Refused(text) == IF which = "devices" THEN ~Promising(text) ELSE ~ValidShell(text)

LEMMA ReadKeeps ==
    ASSUME IndInv, NEW l \in lines, ReadLine(l)
    PROVE  IndInv' /\ (pc' = "close" => Refused(file'))
<1> USE DEF IndInv
<1>1. file \in Seq(LineType) /\ l \in LineType /\ Len(file) \in Nat
  BY FileType
<1>2. /\ pc = "read" /\ Len(file) < MaxLines /\ file' = Append(file, l)
      /\ io' = io /\ which' = which /\ lines' = lines /\ target' = target
  BY DEF ReadLine, Stay
<1>3. pc' \in {"read", "close"} /\ result' \in BOOLEAN /\ fields' \subseteq Key
  BY <1>2, DeviceLineTypes, ShellLineTypes DEF ReadLine
<1>4. TypeOK'
  <2>1. Append(file, l) \in Seq(lines) /\ Len(Append(file, l)) = Len(file) + 1
    BY DEF TypeOK
  <2>2. Len(file) + 1 <= MaxLines
    BY <1>1, <1>2, LinesAssumption
  <2> QED
    BY <1>2, <1>3, <2>1, <2>2 DEF TypeOK
<1>5. TargetOK'
  BY <1>2, <1>3 DEF TargetOK, Before
<1>6. ShellOK' /\ (which = "shell" /\ pc' = "close" => ~ValidShell(file'))
  <2> SUFFICES ASSUME which = "shell"
               PROVE  ShellOK' /\ (pc' = "close" => ~ValidShell(file'))
    BY <1>2 DEF ShellOK
  <2>1. ShellLine(l) /\ FitsBuffer(l)
    BY LinesAssumption DEF ReadLine, TypeOK, FitsBuffer
  <2>2. /\ LastLineOK /\ result
        /\ ValidShell(file) /\ temporary = Shell(file, ConfigInit)
    BY <1>2 DEF ShellOK
  <2>3. LastLineOK'
    <3> SUFFICES ASSUME NEW key \in ShellKeys
                 PROVE  (Setting(file, key) = {} \/ HasGreatest(Setting(file, key)))'
      BY DEF LastLineOK
    <3> QED
      BY <1>1, <1>2, <2>2, LastOfAppend DEF LastLineOK
  <2>4. CASE ValidLine(l)
    <3>1. ValidShell(file')
      BY <1>1, <1>2, <2>2, <2>4, ValidAppend
    <3>2. Shell(file', ConfigInit) =
            IF l.kind = "blank" THEN temporary
            ELSE [temporary EXCEPT ![l.key] =
                    IF l.key = "prompts" THEN l.value.text ELSE l.value.num]
      BY <1>1, <1>2, <2>2, <2>4, ShellAppend DEF LastLineOK
    <3>3. pc' = pc /\ result' = result /\ temporary' = Shell(file', ConfigInit)
      BY <1>1, <2>1, <2>4, <3>2, LineAccepted DEF ShellLine, LineType
    <3> QED
      BY <1>2, <2>2, <2>3, <3>1, <3>3 DEF ShellOK
  <2>5. CASE ~ValidLine(l)
    <3>1. ~ValidShell(file')
      BY <1>1, <1>2, <2>5, ValidAppend
    <3>2. pc' = "close" /\ result' = FALSE
      BY <1>1, <2>1, <2>5, LineAccepted DEF ShellLine, Refuse, LineType
    <3> QED
      BY <2>3, <3>1, <3>2 DEF ShellOK
  <2> QED
    BY <2>4, <2>5
<1>7. DevicesOK' /\ (which = "devices" /\ pc' = "close" => ~Promising(file'))
  <2> SUFFICES ASSUME which = "devices"
               PROVE  DevicesOK' /\ (pc' = "close" => ~Promising(file'))
    BY <1>2 DEF DevicesOK
  <2>1. DeviceLine(l)
    BY DEF ReadLine
  <2>2. result = TRUE /\ Reading
    BY <1>2 DEF DevicesOK, TypeOK
  <2>3. \/ pc' = "read" /\ result' = TRUE /\ Reading'
        \/ pc' = "close" /\ result' = FALSE /\ ~Promising(file')
    BY <1>1, <1>2, <2>1, <2>2, DeviceLineStep
  <2>4. ValidDevices(file') => Promising(file')
    BY <1>1, <1>2, Appended, ValidIsPromising
  <2> QED
    BY <2>3, <2>4 DEF DevicesOK
<1>8. ShellAsWritten' /\ DevicesAsWritten'
  BY <1>3 DEF ShellAsWritten, DevicesAsWritten, AsWritten
<1>9. pc' = "close" => Refused(file')
  BY <1>6, <1>7 DEF TypeOK, Refused
<1> QED
  BY <1>4, <1>5, <1>6, <1>7, <1>8, <1>9

\* An open file of which nothing has been read.
LEMMA NothingRead ==
    ASSUME file = <<>>, temporary = <<>>
    PROVE  Reading
<1>1. /\ Len(file) = 0 /\ Len(temporary) = 0 /\ temporary \in Seq(DeviceType)
      /\ MaxDevices \in Nat
  BY SizesAssumption
<1>2. 1..0 = {}
  OBVIOUS
<1>3. Headers(file) = {} /\ LinesValid(file)
  BY <1>1, <1>2 DEF Headers, LinesValid
<1>4. SectionsAt(file, temporary, fields, [n \in {} |-> n])
  BY <1>1, <1>2, <1>3 DEF SectionsAt
<1> QED
  BY <1>1, <1>3, <1>4 DEF Reading

LEMMA Inductive == IndInv /\ [Next]_vars => IndInv'
<1> SUFFICES ASSUME IndInv, [Next]_vars
             PROVE  IndInv'
  OBVIOUS
<1> USE DEF IndInv
<1>1. CASE Open
  <2>1. TypeOK'
    BY <1>1 DEF Open, Stay, TypeOK
  <2>2. TargetOK'
    BY <1>1 DEF Open, Stay, TargetOK, Before
  <2>3. ShellOK'
    <3> SUFFICES ASSUME which = "shell"
                 PROVE  ShellOK'
      BY <1>1 DEF Open, Stay, ShellOK
    <3>1. file = <<>> /\ temporary = ConfigInit /\ result
      BY <1>1 DEF Open, ShellOK
    <3>2. ValidShell(file)
      BY <3>1 DEF ValidShell
    <3>3. temporary = Shell(file, ConfigInit)
      <4>1. \A key : Setting(file, key) = {}
        BY <3>1 DEF Setting
      <4>2. ASSUME NEW key, NEW default
            PROVE  LastOf(file, key, default) = default
        BY <4>1, LastOfSetting
      <4> QED
        BY <3>1, <4>2 DEF Shell, ConfigInit
    <3> QED
      BY <1>1, <3>1, <3>2, <3>3 DEF Open, Stay, ShellOK, LastLineOK
  <2>4. DevicesOK'
    <3> SUFFICES ASSUME which = "devices"
                 PROVE  DevicesOK'
      BY <1>1 DEF Open, Stay, DevicesOK
    <3>1. file = <<>> /\ temporary = <<>> /\ result
      BY <1>1 DEF Open, DevicesOK
    <3>2. Reading
      BY <3>1, NothingRead
    <3> QED
      BY <1>1, <3>1, <3>2 DEF Open, Stay, DevicesOK, Reading
  <2>5. ShellAsWritten' /\ DevicesAsWritten'
    BY <1>1
    DEF Open, Stay, TargetOK, ShellAsWritten, DevicesAsWritten, AsWritten,
        Before
  <2> QED
    BY <2>1, <2>2, <2>3, <2>4, <2>5
<1>2. ASSUME NEW l \in lines, ReadLine(l)
      PROVE  IndInv'
  BY <1>2, ReadKeeps
<1>3. CASE ReadError
  <2>1. TypeOK'
    BY <1>3 DEF ReadError, Refuse, Stay, TypeOK
  <2>2. TargetOK'
    BY <1>3 DEF ReadError, Refuse, Stay, TargetOK, Before
  <2>3. ShellOK'
    BY <1>3 DEF ReadError, Refuse, Stay, ShellOK, LastLineOK
  <2>4. DevicesOK'
    BY <1>3 DEF ReadError, Refuse, Stay, DevicesOK
  <2>5. ShellAsWritten' /\ DevicesAsWritten'
    BY <1>3 DEF ReadError, Refuse, ShellAsWritten, DevicesAsWritten, AsWritten
  <2> QED
    BY <2>1, <2>2, <2>3, <2>4, <2>5
<1>4. CASE EndOfFile
  <2>1. TypeOK'
    <3>1. result' \in BOOLEAN
      BY <1>4, Zenon DEF EndOfFile
    <3> QED
      BY <1>4, <3>1 DEF EndOfFile, Stay, TypeOK
  <2>2. TargetOK'
    BY <1>4 DEF EndOfFile, Stay, TargetOK, Before
  <2>3. ShellOK'
    <3> SUFFICES ASSUME which = "shell"
                 PROVE  ShellOK'
      BY <1>4 DEF EndOfFile, Stay, ShellOK
    <3>1. result'
      BY <1>4 DEF EndOfFile
    <3> QED
      BY <1>4, <3>1 DEF EndOfFile, Stay, ShellOK, LastLineOK
  <2>4. DevicesOK'
    <3> SUFFICES ASSUME which = "devices"
                 PROVE  DevicesOK'
      BY <1>4 DEF EndOfFile, Stay, DevicesOK
    <3>1. Reading
      BY <1>4 DEF EndOfFile, DevicesOK
    <3> PICK pos : SectionsAt(file, temporary, fields, pos)
      BY <3>1 DEF Reading
    <3>2. /\ file \in Seq(LineType) /\ temporary \in Seq(DeviceType)
          /\ Len(temporary) <= MaxDevices /\ LinesValid(file)
      BY <3>1, FileType DEF Reading
    <3>3. ValidDevices(file) <=> (Len(temporary) > 0 => SectionValid)
      BY <3>2, ValidSoFar, LastChecked
    <3>4. temporary = Devices(file)
      BY <3>2, Meaning
    <3>5. result' <=> ValidDevices(file)
      BY <1>4, <3>3, Zenon DEF EndOfFile
    <3> QED
      BY <1>4, <3>4, <3>5 DEF EndOfFile, Stay, DevicesOK
  <2>5. ShellAsWritten' /\ DevicesAsWritten'
    BY <1>4 DEF EndOfFile, ShellAsWritten, DevicesAsWritten, AsWritten
  <2> QED
    BY <2>1, <2>2, <2>3, <2>4, <2>5
<1>5. CASE Close
  <2> PICK ok \in BOOLEAN : result' = (result /\ ok) /\ io' = (io \/ ~ok)
    BY <1>5 DEF Close
  <2>1. result' \in BOOLEAN /\ io' \in BOOLEAN /\ (~result' => ~result \/ io')
    BY Zenon DEF TypeOK
  <2>2. TypeOK'
    BY <1>5, <2>1 DEF Close, TypeOK
  <2>3. TargetOK'
    BY <1>5 DEF Close, TargetOK
  <2>4. ShellOK'
    BY <1>5 DEF Close, ShellOK, LastLineOK
  <2>5. DevicesOK'
    BY <1>5 DEF Close, DevicesOK
  <2>6. ShellAsWritten'
    BY <1>5, <2>1
    DEF Close, ShellOK, TargetOK, ShellAsWritten, AsWritten, Before
  <2>7. DevicesAsWritten'
    BY <1>5, <2>1
    DEF Close, DevicesOK, TargetOK, DevicesAsWritten, AsWritten, Before
  <2> QED
    BY <2>2, <2>3, <2>4, <2>5, <2>6, <2>7
<1>6. CASE UNCHANGED vars
  <2>1. TypeOK' /\ TargetOK'
    BY <1>6 DEF vars, TypeOK, TargetOK, Before
  <2>2. ShellOK' /\ ShellAsWritten'
    BY <1>6 DEF vars, ShellOK, LastLineOK, ShellAsWritten, AsWritten, Before
  <2>3. DevicesOK' /\ DevicesAsWritten'
    BY <1>6 DEF vars, DevicesOK, Reading, DevicesAsWritten, AsWritten, Before
  <2> QED
    BY <2>1, <2>2, <2>3
<1> QED
  BY <1>1, <1>2, <1>3, <1>4, <1>5, <1>6 DEF Next, Returned

---------------------------------------------------------------------------
(* Theorems.                                                               *)

\* What the loaders hold is what the lines read so far mean, until one is
\* refused.
THEOREM Invariance == Spec => []IndInv
  BY Initial, Inductive, PTL DEF Spec

\* Types: a file is made of the lines of its set, and a section has keys of
\* device_config.c only.
THEOREM TypeCorrect == Spec => []TypeOK
<1>1. IndInv => TypeOK
  BY DEF IndInv
<1> QED
  BY <1>1, Invariance, PTL

\* config_load: whatever the file, for every size of a line and of a value
\* and whichever call of stdio fails, the caller gets the meaning of a valid
\* file or keeps what it had.
THEOREM ShellLoaded == Spec => []ShellAsWritten
<1>1. IndInv => ShellAsWritten
  BY DEF IndInv
<1> QED
  BY <1>1, Invariance, PTL

\* device_config_load: whatever the sections, their fields and the order of
\* these, for every size of a line and of a value and every number of devices.
THEOREM DevicesLoaded == Spec => []DevicesAsWritten
<1>1. IndInv => DevicesAsWritten
  BY DEF IndInv
<1> QED
  BY <1>1, Invariance, PTL

\* A line that is refused makes the file invalid, whatever comes after it.
RefusedForGood ==
    [][(\E l \in lines : ReadLine(l)) /\ pc' = "close" =>
         \A rest \in Seq(LineType) :
           IF which = "devices" THEN ~ValidDevices(file' \o rest)
           ELSE ~ValidShell(file' \o rest)]_vars

\* device_config_load and config_load stop at the first line that they refuse,
\* and are right to: no line after it could have made the file a valid one.
THEOREM RefusalIsFinal == Spec => RefusedForGood
<1>1. ASSUME IndInv, NEW l \in lines, ReadLine(l), pc' = "close",
             NEW rest \in Seq(LineType)
      PROVE  IF which = "devices" THEN ~ValidDevices(file' \o rest)
             ELSE ~ValidShell(file' \o rest)
  <2>1. Refused(file')
    BY <1>1, ReadKeeps
  <2>2. file' \in Seq(LineType)
    <3>1. file \in Seq(LineType) /\ l \in LineType
      BY FileType, <1>1 DEF IndInv
    <3> QED
      BY <1>1, <3>1, Appended DEF ReadLine
  <2>3. ValidDevices(file' \o rest) => Promising(file')
    BY <2>2, ValidPromises
  <2>4. ValidShell(file' \o rest) => ValidShell(file')
    <3>1. ASSUME NEW text \in Seq(LineType), ValidShell(text \o rest)
          PROVE  ValidShell(text)
      <4> DEFINE all == text \o rest
      <4>1. \A i \in 1..Len(text) : i \in 1..Len(all) /\ all[i] = text[i]
        OBVIOUS
      <4>2. ValidShell(all)
        BY <3>1
      <4> HIDE DEF all
      <4> QED
        BY <4>1, <4>2 DEF ValidShell
    <3> QED
      BY <2>2, <3>1
  <2> QED
    BY <2>1, <2>3, <2>4 DEF Refused
<1>2. IndInv => ((\E l \in lines : ReadLine(l)) /\ pc' = "close" =>
                   \A rest \in Seq(LineType) :
                     IF which = "devices" THEN ~ValidDevices(file' \o rest)
                     ELSE ~ValidShell(file' \o rest))
  BY <1>1
<1> QED
  BY <1>2, Invariance, PTL DEF RefusedForGood
=============================================================================
