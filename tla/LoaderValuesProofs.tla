------------------------- MODULE LoaderValuesProofs -------------------------
(***************************************************************************)
(* Theorems about what Loader takes from the lines of a file: the          *)
(* settings, what constants and variables start with, and the program.     *)
(***************************************************************************)
EXTENDS LoaderProofs

(* The lines among the first n that begin with a word, when the next one   *)
(* is looked at.                                                           *)
LEMMA OneLineMore ==
    ASSUME NEW lines, NEW word, NEW n \in Nat
    PROVE  /\ lines[n + 1][1] = word =>
                 {i \in 1..n + 1 : lines[i][1] = word} = {i \in 1..n : lines[i][1] = word} \cup {n + 1}
           /\ lines[n + 1][1] # word =>
                 {i \in 1..n + 1 : lines[i][1] = word} = {i \in 1..n : lines[i][1] = word}
<1>1. \A i : i \in 1..n + 1 <=> i \in 1..n \/ i = n + 1
  OBVIOUS
<1> QED
  BY <1>1

(* A conversion of a word of a line yields one word or none.               *)
LEMMA OneNumeral ==
    ASSUME NEW w \in Text, NEW t \in ConstTypes, NEW x \in Numeral(t, w)
    PROVE  Numeral(t, w) = {x}
BY NumeralIsOneNumber

LEMMA OneValue ==
    ASSUME NEW w \in Text, NEW x \in Values(w)
    PROVE  Values(w) = {x}
<1>1. {"u", "i", "f"} \subseteq ConstTypes
  BY DEF ConstTypes
<1> DEFINE whole == Numeral(IF Negative(w) THEN "i" ELSE "u", w)
<1>2. CASE whole # {}
  <2>1. x \in whole /\ Values(w) = whole
    BY <1>2 DEF Values
  <2> QED
    BY <1>1, <2>1, OneNumeral
<1>3. CASE whole = {}
  <2>1. x \in Numeral("f", w) /\ Values(w) = Numeral("f", w)
    BY <1>3 DEF Values
  <2> QED
    BY <1>1, <2>1, OneNumeral
<1> QED
  BY <1>2, <1>3

-----------------------------------------------------------------------------
(* The settings.                                                           *)
Settings == section["__SETTINGS"]
Parsing == SectionNames \cup {"targets", "done"}
SettingsDone == IF stage = "__SETTINGS" THEN at ELSE Len(Settings)
Given(lines, word, n) == {i \in 1..n : lines[i][1] = word}

(* Another name is not concerned by a line.                                *)
LEMMA OtherName ==
    ASSUME NEW lines, NEW k \in Nat, NEW name, name # lines[k + 1][1]
    PROVE  Given(lines, name, k + 1) = Given(lines, name, k)
BY OneLineMore DEF Given

LEMMA SameName ==
    ASSUME NEW lines, NEW k \in Nat, NEW name, name = lines[k + 1][1]
    PROVE  Given(lines, name, k + 1) = Given(lines, name, k) \cup {k + 1}
BY OneLineMore DEF Given

(* InForce, for any lines.                                                 *)
Applies(lines, chosen, value, default) ==
    \/ chosen = {} /\ value = default
    \/ \E i \in chosen : (\A j \in chosen : j <= i) /\ Numeral("u", lines[i][2]) = {value}

(* What SettingsApplied says, of the lines dealt with so far; a CYCLE_MS   *)
(* among them has been recorded.                                           *)
SettingsMeaning ==
    /\ stage = "read" => cycle_time_ms = 1000 /\ cycles = 0
    /\ stage \in Parsing =>
          /\ SettingsDone \in 0..Len(Settings)
          /\ Applies(Settings, Given(Settings, "CYCLE_MS", SettingsDone), cycle_time_ms, 1000)
          /\ \A i, j \in Given(Settings, "CYCLE_MS", SettingsDone) : i = j
          /\ Given(Settings, "CYCLE_MS", SettingsDone) # {} => "CYCLE_MS" \in applied_settings
          /\ Applies(Settings, Given(Settings, "CYCLES", SettingsDone), cycles, 0)

(* The line at which the defined behaviour is left.                        *)
Variables == section["__VAR"]
LeftAt ==
    stage = "undefined" =>
        \/ at < Len(Settings) /\ Settings[at + 1] = <<"CYCLES">>
        \/ /\ at < Len(Variables) /\ CellIsEmpty(Variables[at + 1])
           /\ SettingsInForce

(* The steps, as far as the settings are concerned.                        *)
LEMMA SettingsSteps ==
    ASSUME IInv, [Next]_vars, stage' # "read", stage' # "failed"
    PROVE  /\ section' = section
           /\ \/ stage' = stage /\ at' = at /\ UNCHANGED settings
              \/ stage = "read" /\ stage' = "__SETTINGS" /\ at' = 0 /\ UNCHANGED settings
              \/ SetsCycleTime \/ SetsCycles
              \/ stage = "__SETTINGS" /\ at = Len(Settings) /\ stage' = "__MEM" /\ UNCHANGED settings
              \/ /\ stage \in Parsing \ {"__SETTINGS"} /\ stage' \in Parsing \ {"__SETTINGS"}
                 /\ UNCHANGED settings
              \/ stage = "__VAR" /\ stage' = "undefined"
<1>1. CASE UNCHANGED vars \/ Loaded
  BY <1>1 DEF Loaded, vars, reader
<1>2. CASE Blank \/ Opens \/ Collects
  BY <1>2 DEF Blank, Opens, Collects, Reading, ReadOn, Throw
<1>3. CASE EndOfFile
  BY <1>3 DEF EndOfFile, Enter, reader
<1>4. CASE SetsCycleTime
  BY <1>4 DEF SetsCycleTime, Parsed, Throw, reader
<1>5. CASE SetsCycles
  BY <1>5 DEF SetsCycles, Parsed, Throw, Undefined, reader
<1>6. CASE UnknownSetting \/ EndSettings
  BY <1>6 DEF UnknownSetting, Throw, EndSettings, AtEndOf, Enter, reader, Settings
<1>7. CASE parse_mem \/ EndMem \/ parse_var \/ EndVar
  BY <1>7 DEF parse_mem, EndMem, parse_var, EndVar, InSection, AtEndOf, Enter, Throw, Undefined,
              Parsed, reader, Parsing, SectionNames
<1>8. CASE InitConst \/ InitVar \/ InitUnknown \/ EndInit
  BY <1>8 DEF InitConst, InitVar, InitUnknown, EndInit, InSection, AtEndOf, Enter, Throw, Parsed,
              reader, Parsing, SectionNames
<1>9. CASE Mnemonic \/ LabelLine \/ PushLine \/ PopLine \/ JumpLine \/ DroppedLine \/ LongLine
  BY <1>9 DEF Mnemonic, LabelLine, PushLine, PopLine, JumpLine, DroppedLine, LongLine, TwoWords,
              InProgram, InSection, Emit, Throw, Parsed, reader, Parsing, SectionNames
<1>10. CASE EndProgram \/ AssignTargets
  BY <1>10 DEF EndProgram, AssignTargets, AtEndOf, Enter, Throw, reader, Parsing, SectionNames
<1> QED
  BY <1>1, <1>2, <1>3, <1>4, <1>5, <1>6, <1>7, <1>8, <1>9, <1>10 DEF Next

(* A line of the settings that is accepted.                                *)
LEMMA CycleTimeAccepted ==
    ASSUME IInv, SetsCycleTime, stage' # "failed"
    PROVE  /\ stage = "__SETTINGS" /\ stage' = stage /\ at' = at + 1 /\ at + 1 \in 1..Len(Settings)
           /\ Settings[at + 1][1] = "CYCLE_MS" /\ "CYCLE_MS" \notin applied_settings
           /\ Numeral("u", Settings[at + 1][2]) = {cycle_time_ms'}
           /\ "CYCLE_MS" \in applied_settings' /\ cycles' = cycles
<1>1. InSection("__SETTINGS") /\ Line[1] = "CYCLE_MS"
  BY DEF SetsCycleTime
<1>2. /\ cycle_time_ms' \in CycleTimes /\ applied_settings' = applied_settings \cup {"CYCLE_MS"}
      /\ Parsed /\ UNCHANGED cycles
  BY DEF SetsCycleTime, Throw
<1>3. stage = "__SETTINGS" /\ Line \in Seq(Text) /\ Line = Settings[at + 1]
  BY <1>1, LineTyped DEF IInv, SectionNames, Line, Settings
<1>4. at + 1 \in 1..Len(Settings)
  <2>1. Settings \in Seq(Seq(Text)) /\ at \in Nat
    BY DEF IInv, ReaderOK, Sequences_, Settings, SectionNames
  <2> QED
    BY <1>1, <2>1 DEF InSection, Settings
<1>5. Len(Line) = 2 /\ Line[1] \notin applied_settings /\ cycle_time_ms' \in Numeral("u", Line[2])
  BY <1>2 DEF CycleTimes
<1>6. Line[2] \in Text /\ "u" \in ConstTypes
  BY <1>3, <1>5 DEF ConstTypes
<1>7. Numeral("u", Line[2]) = {cycle_time_ms'}
  BY <1>5, <1>6, OneNumeral
<1> QED
  BY <1>1, <1>2, <1>3, <1>4, <1>5, <1>7 DEF Parsed

LEMMA CyclesAccepted ==
    ASSUME IInv, SetsCycles, stage' # "failed"
    PROVE  /\ stage = "__SETTINGS" /\ at + 1 \in 1..Len(Settings)
           /\ Settings[at + 1][1] = "CYCLES"
           /\ \/ /\ stage' = stage /\ at' = at + 1
                 /\ Numeral("u", Settings[at + 1][2]) = {cycles'}
                 /\ cycle_time_ms' = cycle_time_ms /\ applied_settings' = applied_settings
              \/ stage' = "undefined" /\ at' = at /\ Settings[at + 1] = <<"CYCLES">>
<1>1. InSection("__SETTINGS") /\ Line[1] = "CYCLES"
  BY DEF SetsCycles
<1>2. \/ /\ Len(Line) > 1 /\ cycles' \in Numeral("u", Line[2])
         /\ Parsed /\ UNCHANGED <<cycle_time_ms, applied_settings>>
      \/ Len(Line) = 1 /\ stage' = "undefined" /\ at' = at
  BY DEF SetsCycles, Throw, Undefined
<1>3. stage = "__SETTINGS" /\ Line \in Seq(Text) /\ Line = Settings[at + 1]
  BY <1>1, LineTyped DEF IInv, SectionNames, Line, Settings
<1>4. at + 1 \in 1..Len(Settings)
  <2>1. Settings \in Seq(Seq(Text)) /\ at \in Nat
    BY DEF IInv, ReaderOK, Sequences_, Settings, SectionNames
  <2> QED
    BY <1>1, <2>1 DEF InSection, Settings
<1>5. CASE Len(Line) = 1 /\ stage' = "undefined" /\ at' = at
  <2>1. Line = <<"CYCLES">>
    BY <1>1, <1>3, <1>5
  <2> QED
    BY <1>1, <1>3, <1>4, <1>5, <2>1
<1>6. CASE /\ Len(Line) > 1 /\ cycles' \in Numeral("u", Line[2])
           /\ Parsed /\ UNCHANGED <<cycle_time_ms, applied_settings>>
  <2>1. Line[2] \in Text /\ "u" \in ConstTypes
    BY <1>3, <1>6 DEF ConstTypes
  <2>2. Numeral("u", Line[2]) = {cycles'}
    BY <1>6, <2>1, OneNumeral
  <2> QED
    BY <1>1, <1>3, <1>4, <1>6, <2>2 DEF Parsed
<1> QED
  BY <1>2, <1>5, <1>6

(* A setting that is repeated is overtaken by its last line, which is the  *)
(* one read last.                                                          *)
LEMMA LastLineApplies ==
    ASSUME NEW lines, NEW k \in Nat \ {0}, NEW key, lines[k][1] = key, NEW value,
           Numeral("u", lines[k][2]) = {value}, NEW default
    PROVE  Applies(lines, Given(lines, key, k), value, default)
<1>1. k \in Given(lines, key, k)
  BY DEF Given
<1>2. \A j \in Given(lines, key, k) : j <= k
  BY DEF Given
<1> QED
  BY <1>1, <1>2 DEF Applies

LEMMA SettingsInductive == IInv /\ SettingsMeaning /\ [Next]_vars => SettingsMeaning'
<1> SUFFICES ASSUME IInv, SettingsMeaning, [Next]_vars PROVE SettingsMeaning'
  OBVIOUS
<1>0. /\ Settings \in Seq(Seq(Text)) /\ Len(Settings) \in Nat /\ at \in Nat
      /\ {"__SETTINGS", "__MEM"} \subseteq Parsing
      /\ Parsing \cap {"read", "undefined", "failed"} = {}
  BY DEF IInv, ReaderOK, Sequences_, Settings, SectionNames, Parsing
<1>1. CASE stage' = "failed"
  BY <1>1 DEF SettingsMeaning, Parsing, SectionNames
<1>2. CASE stage' = "read"
  <2>1. stage = "read" /\ UNCHANGED settings
    BY <1>2 DEF Next, Loaded, vars, Blank, Opens, Collects, Reading, ReadOn, Throw, Undefined,
                EndOfFile, Enter, SetsCycleTime, SetsCycles, UnknownSetting, EndSettings, Parsed,
                parse_mem, EndMem, parse_var, EndVar, InitConst, InitVar, InitUnknown, EndInit,
                Mnemonic, LabelLine, PushLine, PopLine, JumpLine, DroppedLine, LongLine,
                TwoWords, InProgram, InSection, AtEndOf, EndProgram, AssignTargets, Emit
  <2> QED
    BY <1>2, <2>1 DEF SettingsMeaning, Parsing, SectionNames, settings
<1> SUFFICES ASSUME stage' # "failed", stage' # "read" PROVE SettingsMeaning'
  BY <1>1, <1>2
<1>3. section' = section /\ Settings' = Settings
  BY SettingsSteps DEF Settings
<1>5. CASE stage' = stage /\ at' = at /\ UNCHANGED settings
  <2>1. SettingsDone' = SettingsDone
    BY <1>3, <1>5 DEF SettingsDone
  <2> QED
    BY <1>3, <1>5, <2>1 DEF SettingsMeaning, settings
<1>6. CASE stage = "read" /\ stage' = "__SETTINGS" /\ at' = 0 /\ UNCHANGED settings
  <2>1. \A key : Given(Settings, key, 0) = {}
    BY DEF Given
  <2>2. cycle_time_ms' = 1000 /\ cycles' = 0 /\ SettingsDone' = 0
    BY <1>6 DEF SettingsMeaning, settings, SettingsDone
  <2>3. \A x : Applies(Settings, {}, x, x)
    BY DEF Applies
  <2>4. stage' \in Parsing /\ stage' \notin {"read", "undefined"} /\ 0 \in 0..Len(Settings)
    BY <1>0, <1>6
  <2>5. \A key : Given(Settings', key, SettingsDone') = {} /\ SettingsDone' \in 0..Len(Settings')
    BY <1>3, <2>1, <2>2, <2>4
  <2>6. Applies(Settings', {}, cycle_time_ms', 1000) /\ Applies(Settings', {}, cycles', 0)
    BY <1>3, <2>2, <2>3
  <2> QED
    BY <2>4, <2>5, <2>6 DEF SettingsMeaning
<1>7. CASE SetsCycleTime
  <2>1. /\ stage = "__SETTINGS" /\ stage' = stage /\ at' = at + 1 /\ at + 1 \in 1..Len(Settings)
        /\ Settings[at + 1][1] = "CYCLE_MS" /\ "CYCLE_MS" \notin applied_settings
        /\ Numeral("u", Settings[at + 1][2]) = {cycle_time_ms'}
        /\ "CYCLE_MS" \in applied_settings' /\ cycles' = cycles
    BY <1>7, CycleTimeAccepted
  <2>2. SettingsDone = at /\ SettingsDone' = at + 1
    BY <2>1 DEF SettingsDone
  <2>3. Given(Settings, "CYCLE_MS", at) = {}
    BY <1>0, <2>1, <2>2 DEF SettingsMeaning
  <2>4. /\ Given(Settings, "CYCLE_MS", at + 1) = {at + 1}
        /\ Given(Settings, "CYCLES", at + 1) = Given(Settings, "CYCLES", at)
    <3>1. Given(Settings, "CYCLE_MS", at + 1) = Given(Settings, "CYCLE_MS", at) \cup {at + 1}
      BY <1>0, <2>1, SameName
    <3>2. Given(Settings, "CYCLES", at + 1) = Given(Settings, "CYCLES", at)
      BY <1>0, <2>1, OtherName
    <3> QED
      BY <2>3, <3>1, <3>2
  <2>5. Applies(Settings, {at + 1}, cycle_time_ms', 1000)
    <3> DEFINE k == at + 1
    <3>1. k \in Nat \ {0} /\ Settings[k][1] = "CYCLE_MS" /\ Numeral("u", Settings[k][2]) = {cycle_time_ms'}
      BY <1>0, <2>1
    <3> HIDE DEF k
    <3>2. \A default : Applies(Settings, Given(Settings, "CYCLE_MS", k), cycle_time_ms', default)
      BY <3>1, LastLineApplies
    <3> QED
      BY <2>4, <3>2 DEF k
  <2>6. Applies(Settings, Given(Settings, "CYCLES", at), cycles, 0)
    BY <1>0, <2>1, <2>2 DEF SettingsMeaning
  <2>7. stage' \in Parsing /\ stage' \notin {"read", "undefined"}
    BY <1>0, <2>1
  <2>8. SettingsDone' = at + 1 /\ SettingsDone' \in 0..Len(Settings')
    BY <1>0, <1>3, <2>1, <2>2
  <2>9. Given(Settings', "CYCLE_MS", SettingsDone') = {at + 1}
    BY <1>3, <2>4, <2>8
  <2>10. Applies(Settings', Given(Settings', "CYCLE_MS", SettingsDone'), cycle_time_ms', 1000)
    BY <1>3, <2>5, <2>9
  <2>11. Applies(Settings', Given(Settings', "CYCLES", SettingsDone'), cycles', 0)
    BY <1>3, <2>1, <2>4, <2>6, <2>8
  <2> QED
    BY <2>1, <2>7, <2>8, <2>9, <2>10, <2>11 DEF SettingsMeaning
<1>8. CASE SetsCycles
  <2>1. /\ stage = "__SETTINGS" /\ at + 1 \in 1..Len(Settings)
        /\ Settings[at + 1][1] = "CYCLES"
        /\ \/ /\ stage' = stage /\ at' = at + 1
              /\ Numeral("u", Settings[at + 1][2]) = {cycles'}
              /\ cycle_time_ms' = cycle_time_ms /\ applied_settings' = applied_settings
           \/ stage' = "undefined" /\ Settings[at + 1] = <<"CYCLES">>
    BY <1>8, CyclesAccepted
  <2>2. CASE stage' = "undefined"
    <3>1. stage' # "read" /\ stage' \notin Parsing
      BY <1>0, <2>2
    <3> QED
      BY <3>1 DEF SettingsMeaning
  <2>3. CASE /\ stage' = stage /\ at' = at + 1
             /\ Numeral("u", Settings[at + 1][2]) = {cycles'}
             /\ cycle_time_ms' = cycle_time_ms /\ applied_settings' = applied_settings
    <3>1. SettingsDone = at /\ SettingsDone' = at + 1
      BY <2>1, <2>3 DEF SettingsDone
    <3>2. Given(Settings, "CYCLE_MS", at + 1) = Given(Settings, "CYCLE_MS", at)
      BY <1>0, <2>1, OtherName
    <3>3. Applies(Settings, Given(Settings, "CYCLES", at + 1), cycles', 0)
      <4> DEFINE k == at + 1
      <4>1. k \in Nat \ {0} /\ Settings[k][1] = "CYCLES" /\ Numeral("u", Settings[k][2]) = {cycles'}
        BY <1>0, <2>1, <2>3
      <4> HIDE DEF k
      <4>2. Applies(Settings, Given(Settings, "CYCLES", k), cycles', 0)
        BY <4>1, LastLineApplies
      <4> QED
        BY <4>2 DEF k
    <3>4. Applies(Settings, Given(Settings, "CYCLE_MS", at), cycle_time_ms, 1000)
      BY <1>0, <2>1, <3>1 DEF SettingsMeaning
    <3> QED
      BY <1>0, <1>3, <2>1, <2>3, <3>1, <3>2, <3>3, <3>4 DEF SettingsMeaning
  <2> QED
    BY <2>1, <2>2, <2>3
<1>9. CASE /\ stage \in Parsing /\ stage' \in Parsing \ {"__SETTINGS"} /\ UNCHANGED settings
           /\ stage = "__SETTINGS" => at = Len(Settings)
  <2>1. SettingsDone = Len(Settings) /\ SettingsDone' = SettingsDone
    BY <1>3, <1>9 DEF SettingsDone
  <2> QED
    BY <1>0, <1>3, <1>9, <2>1 DEF SettingsMeaning, settings
<1>10. CASE stage' = "undefined"
  <2>1. stage' # "read" /\ stage' \notin Parsing
    BY <1>0, <1>10
  <2> QED
    BY <2>1 DEF SettingsMeaning
<1> QED
  BY <1>0, <1>5, <1>6, <1>7, <1>8, <1>9, <1>10, SettingsSteps

LEMMA MeansInForce ==
    ASSUME SettingsMeaning, stage \in Parsing \ {"__SETTINGS"}
    PROVE  SettingsInForce
<1>1. \A key : SettingLines(key) = Given(Settings, key, Len(Settings))
  BY DEF SettingLines, Given, Settings
<1> QED
  BY <1>1 DEF SettingsMeaning, SettingsDone, SettingsInForce, InForce, Applies, Settings

(* The steps that lead to the undefined, and what follows them.            *)
LEMMA LeavingSteps ==
    ASSUME [Next]_vars, stage' = "undefined"
    PROVE  \/ stage = "undefined" /\ UNCHANGED vars
           \/ SetsCycles
           \/ InSection("__VAR") /\ CellMissing /\ Undefined
<1>1. CASE UNCHANGED vars \/ Loaded
  BY <1>1 DEF Loaded, vars
<1>2. CASE Blank \/ Opens \/ Collects \/ EndOfFile
  BY <1>2 DEF Blank, Opens, Collects, Reading, ReadOn, Throw, EndOfFile, Enter
<1>3. CASE SetsCycleTime \/ UnknownSetting \/ EndSettings \/ parse_mem \/ EndMem \/ EndVar
  BY <1>3 DEF SetsCycleTime, UnknownSetting, EndSettings, parse_mem, EndMem, EndVar, InSection,
              AtEndOf, Enter, Throw, Parsed
<1>4. CASE parse_var
  BY <1>4 DEF parse_var, InSection, Throw, Parsed
<1>5. CASE InitConst \/ InitVar \/ InitUnknown \/ EndInit
  BY <1>5 DEF InitConst, InitVar, InitUnknown, EndInit, InSection, AtEndOf, Enter, Throw, Parsed
<1>6. CASE Mnemonic \/ LabelLine \/ PushLine \/ PopLine \/ JumpLine \/ DroppedLine \/ LongLine
  BY <1>6 DEF Mnemonic, LabelLine, PushLine, PopLine, JumpLine, DroppedLine, LongLine, TwoWords,
              InProgram, InSection, Emit, Throw, Parsed
<1>7. CASE EndProgram \/ AssignTargets
  BY <1>7 DEF EndProgram, AssignTargets, AtEndOf, Enter, Throw
<1> QED
  BY <1>1, <1>2, <1>3, <1>4, <1>5, <1>6, <1>7 DEF Next

LEMMA SameInForce ==
    ASSUME SettingsInForce, section' = section, UNCHANGED settings
    PROVE  SettingsInForce'
BY DEF SettingsInForce, InForce, SettingLines, settings

LEMMA LeftAtInductive == IInv /\ SettingsMeaning /\ LeftAt /\ [Next]_vars => LeftAt'
<1> SUFFICES ASSUME IInv, SettingsMeaning, LeftAt, [Next]_vars, stage' = "undefined"
             PROVE  LeftAt'
  BY DEF LeftAt
<1>1. section' = section /\ Settings' = Settings /\ Variables' = Variables
  BY SettingsSteps DEF Settings, Variables
<1>2. CASE stage = "undefined" /\ UNCHANGED vars
  <2>1. SettingsInForce => SettingsInForce'
    BY <1>1, <1>2, SameInForce DEF vars
  <2>2. \A l : CellIsEmpty(l) => CellIsEmpty(l)'
    BY <1>2 DEF CellIsEmpty, NameFree, vars, declared
  <2>3. at' = at
    BY <1>2 DEF vars
  <2> QED
    BY <1>1, <1>2, <2>1, <2>2, <2>3 DEF LeftAt
<1>3. CASE SetsCycles
  <2>1. at + 1 \in 1..Len(Settings) /\ at' = at /\ Settings[at + 1] = <<"CYCLES">>
    BY <1>3, CyclesAccepted DEF IInv
  <2>2. at \in Nat
    BY DEF IInv
  <2>3. at' < Len(Settings')
    BY <1>1, <2>1, <2>2
  <2> QED
    BY <1>1, <2>1, <2>3 DEF LeftAt
<1>4. CASE InSection("__VAR") /\ CellMissing /\ Undefined
  <2>1. stage = "__VAR" /\ at < Len(Variables) /\ Line = Variables[at + 1]
    BY <1>4 DEF InSection, Line, Variables
  <2>2. CellIsEmpty(Line)
    BY <1>4 DEF CellMissing, VarHasMemory, VarCell, VarMem, CellIsEmpty
  <2>3. at' = at /\ UNCHANGED <<settings, declared>>
    BY <1>4 DEF Undefined
  <2>4. \A l : CellIsEmpty(l) => CellIsEmpty(l)'
    BY <2>3 DEF CellIsEmpty, NameFree, declared
  <2>5. SettingsInForce'
    BY <1>1, <2>1, <2>3, MeansInForce, SameInForce DEF Parsing, SectionNames
  <2> QED
    BY <1>1, <2>1, <2>2, <2>3, <2>4, <2>5 DEF LeftAt
<1> QED
  BY <1>2, <1>3, <1>4, LeavingSteps

(* The settings in force are those the file says, whatever else is in it:  *)
(* the last CYCLES, the only CYCLE_MS.  Loading leaves the defined         *)
(* behaviour only at the line of a CYCLES without a value, or of a         *)
(* variable of a free name in a declared memory whose cell is empty, and   *)
(* then with the settings in force.                                        *)
THEOREM SettingsAppliedTheorem == Spec => []SettingsApplied
<1>1. Init => SettingsMeaning /\ LeftAt
  BY DEF Init, SettingsMeaning, LeftAt, Parsing, SectionNames
<1>2. SettingsMeaning /\ LeftAt => SettingsApplied
  BY MeansInForce DEF SettingsApplied, LeftAt, Parsing, Settings, Variables
<1> QED
  BY <1>1, <1>2, Invariance, SettingsInductive, LeftAtInductive, PTL DEF Spec

-----------------------------------------------------------------------------
(* The initial values.                                                     *)
Inits == section["__INIT"]
InitsDone == IF stage = "__INIT" THEN at ELSE Len(Inits)
Early == {"read", "__SETTINGS", "__MEM", "__VAR"}
Late == {"__INIT", "__PROGRAM", "targets", "done"}

NoValues ==
    /\ \A c \in DOMAIN const_map : const_map[c].init = {}
    /\ \A v \in DOMAIN var_map : var_map[v].init = {}

(* A constant and a variable, of whose lines `given' are dealt with.       *)
ConstMeans(lines, given, c) ==
    \/ given = {} /\ c.init = {}
    \/ \E i \in given :
          given = {i} /\ c.init # {} /\ c.init = Numeral(c.d_type, lines[i][2])
VarMeans(lines, given, v) ==
    \/ given = {} /\ v.init = {}
    \/ \E i \in given : (\A j \in given : j <= i) /\ v.init = Values(lines[i][2])

ValuesMeaning ==
    /\ stage \in Early => NoValues
    /\ stage \in Late =>
          /\ InitsDone \in 0..Len(Inits)
          /\ \A c \in DOMAIN const_map :
                ConstMeans(Inits, Given(Inits, c, InitsDone), const_map[c])
          /\ \A v \in DOMAIN var_map :
                VarMeans(Inits, Given(Inits, v, InitsDone), var_map[v])
    /\ stage \in Late \ {"__INIT"} => \A c \in DOMAIN const_map : const_map[c].init # {}

(* Before __INIT nothing has a value, what parse_var declares included.    *)
LEMMA EarlySteps ==
    ASSUME IInv, NoValues, stage \in Early, [Next]_vars, stage' # "failed"
    PROVE  NoValues'
<1>1. CASE UNCHANGED <<const_map, var_map>>
  BY <1>1 DEF NoValues
<1>2. CASE parse_var
  <2>1. CASE /\ const_map' = With(const_map, Line[3], [d_type |-> Line[2], init |-> {}])
             /\ UNCHANGED var_map
    <3> DEFINE e == [d_type |-> Line[2], init |-> {}]
    <3>1. e.init = {} /\ const_map' = With(const_map, Line[3], e)
      BY <2>1
    <3> HIDE DEF e
    <3>2. \A c \in DOMAIN const_map' : const_map'[c].init = {}
      BY <3>1 DEF With, NoValues
    <3> QED
      BY <2>1, <3>2 DEF NoValues
  <2>2. ASSUME NEW c \in VarCells, NEW i \in VarIndices,
               var_map' = With(var_map, Line[3], VarEntry(c, i)), UNCHANGED const_map
        PROVE  NoValues'
    <3> DEFINE e == VarEntry(c, i)
    <3>1. e.init = {} /\ var_map' = With(var_map, Line[3], e)
      BY <2>2 DEF VarEntry
    <3> HIDE DEF e
    <3>2. \A v \in DOMAIN var_map' : var_map'[v].init = {}
      BY <3>1 DEF With, NoValues
    <3> QED
      BY <2>2, <3>2 DEF NoValues
  <2> QED
    BY <1>1, <1>2, <2>1, <2>2 DEF parse_var, Throw, Undefined, declared
<1>3. CASE UNCHANGED vars \/ Loaded
  BY <1>1, <1>3 DEF Loaded, vars, declared
<1>4. CASE Blank \/ Opens \/ Collects \/ EndOfFile
  BY <1>1, <1>4 DEF Blank, Opens, Collects, ReadOn, EndOfFile, Enter, Throw, declared
<1>5. CASE SetsCycleTime \/ SetsCycles \/ UnknownSetting \/ EndSettings
  BY <1>1, <1>5 DEF SetsCycleTime, SetsCycles, UnknownSetting, EndSettings, Enter, Throw,
                  Undefined, declared
<1>6. CASE parse_mem \/ EndMem \/ EndVar
  BY <1>1, <1>6 DEF parse_mem, EndMem, EndVar, Enter, Throw, declared
<1>7. CASE InitConst \/ InitVar \/ InitUnknown \/ EndInit
  BY <1>7 DEF InitConst, InitVar, InitUnknown, EndInit, InSection, AtEndOf, Early
<1>8. CASE Mnemonic \/ LabelLine \/ PushLine \/ PopLine \/ JumpLine \/ DroppedLine \/ LongLine
  BY <1>8 DEF Mnemonic, LabelLine, PushLine, PopLine, JumpLine, DroppedLine, LongLine, TwoWords,
              InProgram, InSection, Early
<1>9. CASE EndProgram \/ AssignTargets
  BY <1>9 DEF EndProgram, AssignTargets, AtEndOf, Early
<1> QED
  BY <1>2, <1>3, <1>4, <1>5, <1>6, <1>7, <1>8, <1>9 DEF Next

(* The steps from __INIT on, and into it.                                  *)
LEMMA LateSteps ==
    ASSUME IInv, [Next]_vars, stage' \in Late
    PROVE  /\ section' = section
           /\ \/ stage' = stage /\ at' = at /\ UNCHANGED <<const_map, var_map>>
              \/ stage = "__VAR" /\ stage' = "__INIT" /\ at' = 0 /\ UNCHANGED <<const_map, var_map>>
              \/ InitConst \/ InitVar
              \/ /\ stage = "__INIT" /\ at = Len(Inits) /\ stage' = "__PROGRAM"
                 /\ UNCHANGED <<const_map, var_map>>
                 /\ \A c \in DOMAIN const_map : const_map[c].init # {}
              \/ /\ stage \in Late \ {"__INIT"} /\ stage' \in Late \ {"__INIT"}
                 /\ UNCHANGED <<const_map, var_map>>
<1>1. CASE UNCHANGED vars \/ Loaded
  BY <1>1 DEF Loaded, vars, reader, declared
<1>2. CASE Blank \/ Opens \/ Collects \/ EndOfFile
  BY <1>2 DEF Blank, Opens, Collects, Reading, ReadOn, Throw, EndOfFile, Enter, Late
<1>3. CASE SetsCycleTime \/ SetsCycles \/ UnknownSetting \/ EndSettings
  BY <1>3 DEF SetsCycleTime, SetsCycles, UnknownSetting, EndSettings, InSection, AtEndOf, Enter,
              Throw, Undefined, Parsed, Late
<1>4. CASE parse_mem \/ EndMem \/ parse_var
  BY <1>4 DEF parse_mem, EndMem, parse_var, InSection, AtEndOf, Enter, Throw, Undefined, Parsed,
              Late
<1>5. CASE EndVar
  BY <1>5 DEF EndVar, AtEndOf, Enter, reader, declared
<1>6. CASE InitConst \/ InitVar
  BY <1>6 DEF InitConst, InitVar, Throw, Parsed, reader
<1>7. CASE InitUnknown \/ EndInit
  BY <1>7 DEF InitUnknown, EndInit, AtEndOf, Enter, Throw, reader, declared, Late, Inits
<1>8. CASE Mnemonic \/ LabelLine \/ PushLine \/ PopLine \/ JumpLine \/ DroppedLine \/ LongLine
  BY <1>8 DEF Mnemonic, LabelLine, PushLine, PopLine, JumpLine, DroppedLine, LongLine, TwoWords,
              InProgram, InSection, Emit, Throw, Parsed, reader, declared, Late
<1>9. CASE EndProgram \/ AssignTargets
  BY <1>9 DEF EndProgram, AssignTargets, AtEndOf, Enter, Throw, reader, declared, Late
<1> QED
  BY <1>1, <1>2, <1>3, <1>4, <1>5, <1>6, <1>7, <1>8, <1>9 DEF Next

(* A line of __INIT that is accepted.                                      *)
LEMMA InitLine ==
    ASSUME IInv, InSection("__INIT"), Len(Line) = 2
    PROVE  /\ stage = "__INIT" /\ at + 1 \in 1..Len(Inits) /\ Line = Inits[at + 1]
           /\ Line[2] \in Text
<1>1. stage = "__INIT" /\ Line \in Seq(Text) /\ Line = Inits[at + 1]
  BY LineTyped DEF IInv, SectionNames, Line, Inits
<1>2. Inits \in Seq(Seq(Text)) /\ at \in Nat
  BY DEF IInv, ReaderOK, Sequences_, Inits, SectionNames
<1>3. at + 1 \in 1..Len(Inits)
  BY <1>2 DEF InSection, Inits
<1> QED
  BY <1>1, <1>3

LEMMA ConstAcceptsValue ==
    ASSUME IInv, InitConst, stage' # "failed", NEW n, n = Line[1]
    PROVE  /\ stage = "__INIT" /\ stage' = stage /\ at' = at + 1 /\ at + 1 \in 1..Len(Inits)
           /\ n = Inits[at + 1][1] /\ n \in DOMAIN const_map /\ const_map[n].init = {}
           /\ \E x : /\ const_map' = [const_map EXCEPT ![n].init = {x}]
                     /\ Numeral(const_map[n].d_type, Inits[at + 1][2]) = {x}
           /\ var_map' = var_map
<1>1. InSection("__INIT") /\ Len(Line) = 2 /\ n \in DOMAIN const_map
  BY DEF InitConst
<1>2. /\ \E x \in ConstValues : const_map' = [const_map EXCEPT ![Line[1]].init = {x}]
      /\ Parsed /\ UNCHANGED var_map
  BY DEF InitConst, Throw
<1>3. PICK x \in ConstValues : const_map' = [const_map EXCEPT ![n].init = {x}]
  BY <1>2
<1>4. const_map[n].init = {} /\ x \in Numeral(const_map[n].d_type, Line[2])
  BY <1>3 DEF ConstValues
<1>5. const_map[n].d_type \in ConstTypes
  BY <1>1 DEF IInv, DeclaredOK, Constant
<1>6. Numeral(const_map[n].d_type, Line[2]) = {x}
  BY <1>1, <1>4, <1>5, InitLine, OneNumeral
<1>7. stage = "__INIT" /\ at + 1 \in 1..Len(Inits) /\ Line = Inits[at + 1]
  BY <1>1, InitLine
<1>8. stage' = stage /\ at' = at + 1 /\ var_map' = var_map
  BY <1>2 DEF Parsed
<1> QED
  BY <1>1, <1>3, <1>4, <1>6, <1>7, <1>8

LEMMA VarAcceptsValue ==
    ASSUME IInv, InitVar, stage' # "failed", NEW n, n = Line[1]
    PROVE  /\ stage = "__INIT" /\ stage' = stage /\ at' = at + 1 /\ at + 1 \in 1..Len(Inits)
           /\ n = Inits[at + 1][1] /\ n \in DOMAIN var_map \ DOMAIN const_map
           /\ \E x : /\ var_map' = [var_map EXCEPT ![n].init = {x}]
                     /\ Values(Inits[at + 1][2]) = {x}
           /\ const_map' = const_map
<1>1. InSection("__INIT") /\ Len(Line) = 2 /\ n \in DOMAIN var_map \ DOMAIN const_map
  BY DEF InitVar
<1>2. /\ \E x \in Values(Line[2]) : var_map' = [var_map EXCEPT ![Line[1]].init = {x}]
      /\ Parsed /\ UNCHANGED const_map
  BY DEF InitVar, Throw
<1>3. PICK x \in Values(Line[2]) : var_map' = [var_map EXCEPT ![n].init = {x}]
  BY <1>2
<1>4. stage = "__INIT" /\ at + 1 \in 1..Len(Inits) /\ Line = Inits[at + 1] /\ Line[2] \in Text
  BY <1>1, InitLine
<1>5. Values(Line[2]) = {x}
  BY <1>3, <1>4, OneValue
<1>6. stage' = stage /\ at' = at + 1 /\ const_map' = const_map
  BY <1>2 DEF Parsed
<1> QED
  BY <1>1, <1>3, <1>4, <1>5, <1>6

(* The first line of a constant, the last one of a variable.               *)
LEMMA FirstLineMeans ==
    ASSUME NEW lines, NEW k, NEW c, c.init # {}, c.init = Numeral(c.d_type, lines[k][2])
    PROVE  ConstMeans(lines, {k}, c)
<1>1. k \in {k} /\ {k} = {k}
  OBVIOUS
<1> QED
  BY <1>1 DEF ConstMeans

LEMMA LastLineMeans ==
    ASSUME NEW lines, NEW k \in Nat \ {0}, NEW name, lines[k][1] = name,
           NEW v, v.init = Values(lines[k][2])
    PROVE  VarMeans(lines, Given(lines, name, k), v)
<1>1. k \in Given(lines, name, k) /\ \A j \in Given(lines, name, k) : j <= k
  BY DEF Given
<1> QED
  BY <1>1 DEF VarMeans

(* Giving a value changes init of one entry.                               *)
LEMMA ConstUpdated ==
    ASSUME IInv, NEW n \in DOMAIN const_map, NEW x,
           const_map' = [const_map EXCEPT ![n].init = {x}]
    PROVE  /\ DOMAIN const_map' = DOMAIN const_map
           /\ const_map'[n].init = {x} /\ const_map'[n].d_type = const_map[n].d_type
           /\ \A c \in DOMAIN const_map : c # n => const_map'[c] = const_map[c]
BY DEF IInv, DeclaredOK, Constant

LEMMA VarUpdated ==
    ASSUME IInv, NEW n \in DOMAIN var_map, NEW x,
           var_map' = [var_map EXCEPT ![n].init = {x}]
    PROVE  /\ DOMAIN var_map' = DOMAIN var_map
           /\ var_map'[n].init = {x}
           /\ \A v \in DOMAIN var_map : v # n => var_map'[v] = var_map[v]
BY DEF IInv, DeclaredOK, Variable

LEMMA ConstStep ==
    ASSUME IInv, ValuesMeaning, InitConst, stage' # "failed", section' = section
    PROVE  ValuesMeaning'
<1> DEFINE k == at + 1
<1> DEFINE n == Inits[k][1]
<1>1. /\ stage = "__INIT" /\ stage' = stage /\ at' = k /\ k \in 1..Len(Inits)
      /\ n \in DOMAIN const_map /\ const_map[n].init = {} /\ var_map' = var_map
  <2>1. Line[1] = n
    BY ConstAcceptsValue
  <2> QED
    BY <2>1, ConstAcceptsValue
<1>2. PICK x : /\ const_map' = [const_map EXCEPT ![n].init = {x}]
               /\ Numeral(const_map[n].d_type, Inits[k][2]) = {x}
  BY ConstAcceptsValue
<1>3. at \in Nat /\ Inits' = Inits /\ n \notin DOMAIN var_map
  BY <1>1 DEF IInv, Inits, DeclaredOK, NamesOK
<1>4. InitsDone = at /\ InitsDone' = k /\ InitsDone' \in 0..Len(Inits')
  BY <1>1, <1>3 DEF InitsDone
<1>5. k \in Nat \ {0} /\ k = at + 1
  BY <1>3
<1>6. /\ \A c \in DOMAIN const_map : ConstMeans(Inits, Given(Inits, c, at), const_map[c])
      /\ \A v \in DOMAIN var_map : VarMeans(Inits, Given(Inits, v, at), var_map[v])
  BY <1>1, <1>4 DEF ValuesMeaning, Late
<1>7. ASSUME NEW name, name # n
      PROVE  Given(Inits, name, k) = Given(Inits, name, at)
  BY <1>3, <1>7, OtherName
<1>8. /\ DOMAIN const_map' = DOMAIN const_map
      /\ const_map'[n].init = {x} /\ const_map'[n].d_type = const_map[n].d_type
      /\ \A c \in DOMAIN const_map : c # n => const_map'[c] = const_map[c]
  BY <1>1, <1>2, ConstUpdated
<1>9. ConstMeans(Inits, Given(Inits, n, k), const_map'[n])
  <2>1. Given(Inits, n, at) = {}
    <3>1. ConstMeans(Inits, Given(Inits, n, at), const_map[n])
      BY <1>1, <1>6
    <3> QED
      BY <1>1, <3>1 DEF ConstMeans
  <2>2. Given(Inits, n, k) = {k}
    BY <1>3, <1>5, <2>1, OneLineMore DEF Given
  <2> DEFINE c == const_map'[n]
  <2>3. c.init # {} /\ c.init = Numeral(c.d_type, Inits[k][2])
    BY <1>2, <1>8
  <2> HIDE DEF c
  <2>4. ConstMeans(Inits, {k}, c)
    BY <2>3, FirstLineMeans
  <2> QED
    BY <2>2, <2>4 DEF c
<1> HIDE DEF k, n
<1>10. \A c \in DOMAIN const_map' : ConstMeans(Inits', Given(Inits', c, InitsDone'), const_map'[c])
  BY <1>3, <1>4, <1>6, <1>7, <1>8, <1>9
<1>11. \A v \in DOMAIN var_map' : VarMeans(Inits', Given(Inits', v, InitsDone'), var_map'[v])
  BY <1>1, <1>3, <1>4, <1>6, <1>7
<1>12. stage' \notin Early /\ stage' \notin Late \ {"__INIT"}
  BY <1>1 DEF Early, Late
<1> QED
  BY <1>4, <1>10, <1>11, <1>12 DEF ValuesMeaning

LEMMA VarStep ==
    ASSUME IInv, ValuesMeaning, InitVar, stage' # "failed", section' = section
    PROVE  ValuesMeaning'
<1> DEFINE k == at + 1
<1> DEFINE n == Inits[k][1]
<1>1. /\ stage = "__INIT" /\ stage' = stage /\ at' = k /\ k \in 1..Len(Inits)
      /\ n \in DOMAIN var_map \ DOMAIN const_map /\ const_map' = const_map
  <2>1. Line[1] = n
    BY VarAcceptsValue
  <2> QED
    BY <2>1, VarAcceptsValue
<1>2. PICK x : var_map' = [var_map EXCEPT ![n].init = {x}] /\ Values(Inits[k][2]) = {x}
  BY VarAcceptsValue
<1>3. at \in Nat /\ Inits' = Inits
  BY DEF IInv, Inits
<1>4. InitsDone = at /\ InitsDone' = k /\ InitsDone' \in 0..Len(Inits')
  BY <1>1, <1>3 DEF InitsDone
<1>5. k \in Nat \ {0} /\ k = at + 1
  BY <1>3
<1>6. /\ \A c \in DOMAIN const_map : ConstMeans(Inits, Given(Inits, c, at), const_map[c])
      /\ \A v \in DOMAIN var_map : VarMeans(Inits, Given(Inits, v, at), var_map[v])
  BY <1>1, <1>4 DEF ValuesMeaning, Late
<1>7. ASSUME NEW name, name # n
      PROVE  Given(Inits, name, k) = Given(Inits, name, at)
  BY <1>3, <1>7, OtherName
<1>8. /\ DOMAIN var_map' = DOMAIN var_map /\ var_map'[n].init = {x}
      /\ \A v \in DOMAIN var_map : v # n => var_map'[v] = var_map[v]
  BY <1>1, <1>2, VarUpdated
<1>9. VarMeans(Inits, Given(Inits, n, k), var_map'[n])
  <2> DEFINE v == var_map'[n]
  <2>1. v.init = Values(Inits[k][2]) /\ Inits[k][1] = n
    BY <1>2, <1>8
  <2> HIDE DEF v, n, k
  <2>2. VarMeans(Inits, Given(Inits, n, k), v)
    BY <1>5, <2>1, LastLineMeans
  <2> QED
    BY <2>2 DEF v
<1> HIDE DEF k, n
<1>10. \A v \in DOMAIN var_map' : VarMeans(Inits', Given(Inits', v, InitsDone'), var_map'[v])
  BY <1>3, <1>4, <1>6, <1>7, <1>8, <1>9
<1>11. \A c \in DOMAIN const_map' : ConstMeans(Inits', Given(Inits', c, InitsDone'), const_map'[c])
  BY <1>1, <1>3, <1>4, <1>6, <1>7
<1>12. stage' \notin Early /\ stage' \notin Late \ {"__INIT"}
  BY <1>1 DEF Early, Late
<1> QED
  BY <1>4, <1>10, <1>11, <1>12 DEF ValuesMeaning

LEMMA ValuesInductive == IInv /\ ValuesMeaning /\ [Next]_vars => ValuesMeaning'
<1> SUFFICES ASSUME IInv, ValuesMeaning, [Next]_vars PROVE ValuesMeaning'
  OBVIOUS
<1>0. /\ Inits \in Seq(Seq(Text)) /\ Len(Inits) \in Nat
      /\ Early \cap Late = {} /\ "failed" \notin Early \cup Late
  BY DEF IInv, ReaderOK, Sequences_, Inits, SectionNames, Early, Late
<1>1. CASE stage' \in Early
  <2>1. stage \in Early
    BY <1>1 DEF Next, Loaded, vars, Blank, Opens, Collects, Reading, ReadOn, Throw, Undefined,
                EndOfFile, Enter, SetsCycleTime, SetsCycles, UnknownSetting, EndSettings, Parsed,
                parse_mem, EndMem, parse_var, EndVar, InitConst, InitVar, InitUnknown, EndInit,
                Mnemonic, LabelLine, PushLine, PopLine, JumpLine, DroppedLine, LongLine,
                TwoWords, InProgram, InSection, AtEndOf, EndProgram, AssignTargets, Emit, Early
  <2>2. NoValues'
    BY <1>0, <1>1, <2>1, EarlySteps DEF ValuesMeaning
  <2> QED
    BY <1>0, <1>1, <2>2 DEF ValuesMeaning
<1>2. CASE stage' \notin Early \cup Late
  BY <1>2 DEF ValuesMeaning
<1>3. CASE stage' \in Late
  <2>1. section' = section /\ Inits' = Inits /\ stage' # "failed" /\ stage' \notin Early
    BY <1>0, <1>3, LateSteps DEF Inits
  <2>2. CASE stage' = stage /\ at' = at /\ UNCHANGED <<const_map, var_map>>
    <3>1. InitsDone' = InitsDone
      BY <2>1, <2>2 DEF InitsDone
    <3> QED
      BY <2>1, <2>2, <3>1 DEF ValuesMeaning
  <2>3. CASE stage = "__VAR" /\ stage' = "__INIT" /\ at' = 0 /\ UNCHANGED <<const_map, var_map>>
    <3>1. InitsDone' = 0 /\ 0 \in 0..Len(Inits)
      BY <1>0, <2>3 DEF InitsDone
    <3>2. \A name : Given(Inits, name, 0) = {}
      BY DEF Given
    <3>3. NoValues
      BY <2>3 DEF ValuesMeaning, Early
    <3>4. \A c \in DOMAIN const_map' : ConstMeans(Inits', Given(Inits', c, InitsDone'), const_map'[c])
      BY <2>1, <2>3, <3>1, <3>2, <3>3 DEF NoValues, ConstMeans
    <3>5. \A v \in DOMAIN var_map' : VarMeans(Inits', Given(Inits', v, InitsDone'), var_map'[v])
      BY <2>1, <2>3, <3>1, <3>2, <3>3 DEF NoValues, VarMeans
    <3> QED
      BY <2>1, <2>3, <3>1, <3>4, <3>5 DEF ValuesMeaning
  <2>4. CASE InitConst
    BY <2>1, <2>4, ConstStep
  <2>5. CASE InitVar
    BY <2>1, <2>5, VarStep
  <2>6. CASE /\ stage = "__INIT" /\ at = Len(Inits) /\ stage' = "__PROGRAM"
             /\ UNCHANGED <<const_map, var_map>>
             /\ \A c \in DOMAIN const_map : const_map[c].init # {}
    <3>1. InitsDone' = InitsDone
      BY <2>1, <2>6 DEF InitsDone
    <3> QED
      BY <2>1, <2>6, <3>1 DEF ValuesMeaning, Late
  <2>7. CASE /\ stage \in Late \ {"__INIT"} /\ stage' \in Late \ {"__INIT"}
             /\ UNCHANGED <<const_map, var_map>>
    <3>1. InitsDone' = InitsDone
      BY <2>1, <2>7 DEF InitsDone
    <3> QED
      BY <2>1, <2>7, <3>1 DEF ValuesMeaning, Late
  <2> QED
    BY <1>3, <2>2, <2>3, <2>4, <2>5, <2>6, <2>7, LateSteps
<1> QED
  BY <1>1, <1>2, <1>3

(* When parse_program starts, every constant has the value of its only     *)
(* line in __INIT, and a variable that of its last line, if it has one.    *)
THEOREM ConstantsGivenOnceTheorem == Spec => []ConstantsGivenOnce
<1>1. Init => ValuesMeaning
  BY DEF Init, ValuesMeaning, NoValues, NoNames, Early, Late
<1>2. ValuesMeaning => ConstantsGivenOnce
  <2> SUFFICES ASSUME ValuesMeaning, stage \in Late \ {"__INIT"} PROVE ConstantsGivenOnce
    BY DEF ConstantsGivenOnce, Late
  <2>1. \A name : InitLines(name) = Given(Inits, name, InitsDone)
    BY DEF InitLines, Given, Inits, InitsDone
  <2>2. ASSUME NEW c \in DOMAIN const_map
        PROVE  \E i \in InitLines(c) :
                  /\ InitLines(c) = {i}
                  /\ const_map[c].init = Numeral(const_map[c].d_type, section["__INIT"][i][2])
    <3>1. ConstMeans(Inits, InitLines(c), const_map[c]) /\ const_map[c].init # {}
      BY <2>1 DEF ValuesMeaning
    <3> QED
      BY <3>1 DEF ConstMeans, Inits
  <2>3. ASSUME NEW v \in DOMAIN var_map
        PROVE  \/ InitLines(v) = {} /\ var_map[v].init = {}
               \/ \E i \in InitLines(v) :
                     /\ \A j \in InitLines(v) : j <= i
                     /\ var_map[v].init = Values(section["__INIT"][i][2])
    <3>1. VarMeans(Inits, InitLines(v), var_map[v])
      BY <2>1 DEF ValuesMeaning
    <3> QED
      BY <3>1 DEF VarMeans, Inits
  <2> QED
    BY <2>2, <2>3 DEF ConstantsGivenOnce
<1> QED
  BY <1>1, <1>2, Invariance, ValuesInductive, PTL DEF Spec

-----------------------------------------------------------------------------
(* A constant has one value, or none yet.                                  *)
SingleValues == \A c \in DOMAIN const_map : \A x, y \in const_map[c].init : x = y

LEMMA SingleValuesInductive == IInv /\ SingleValues /\ [Next]_vars => SingleValues'
<1> SUFFICES ASSUME IInv, SingleValues, [Next]_vars PROVE SingleValues'
  OBVIOUS
<1>1. CASE UNCHANGED const_map
  BY <1>1 DEF SingleValues
<1>2. ASSUME NEW n, NEW t, const_map' = With(const_map, n, [d_type |-> t, init |-> {}])
      PROVE  SingleValues'
  <2>1. ASSUME NEW c \in DOMAIN const_map', NEW x \in const_map'[c].init, NEW y \in const_map'[c].init
        PROVE  x = y
    <3>1. CASE c = n
      BY <1>2, <2>1, <3>1 DEF With
    <3>2. CASE c # n
      <4>1. c \in DOMAIN const_map /\ const_map'[c] = const_map[c]
        BY <1>2, <3>2 DEF With
      <4> QED
        BY <2>1, <4>1 DEF SingleValues
    <3> QED
      BY <3>1, <3>2
  <2> QED
    BY <2>1 DEF SingleValues
<1>3. ASSUME NEW n \in DOMAIN const_map, NEW x, const_map' = [const_map EXCEPT ![n].init = {x}]
      PROVE  SingleValues'
  <2>1. /\ DOMAIN const_map' = DOMAIN const_map /\ const_map'[n].init = {x}
        /\ \A c \in DOMAIN const_map : c # n => const_map'[c] = const_map[c]
    BY <1>3, ConstUpdated
  <2> QED
    BY <2>1 DEF SingleValues
<1>4. \/ UNCHANGED const_map
      \/ \E n, t : const_map' = With(const_map, n, [d_type |-> t, init |-> {}])
      \/ \E n \in DOMAIN const_map : \E x : const_map' = [const_map EXCEPT ![n].init = {x}]
  <2>1. CASE UNCHANGED vars \/ Loaded
    BY <2>1 DEF Loaded, vars, declared
  <2>2. CASE Blank \/ Opens \/ Collects \/ EndOfFile
    BY <2>2 DEF Blank, Opens, Collects, ReadOn, Throw, EndOfFile, Enter, declared
  <2>3. CASE SetsCycleTime \/ SetsCycles \/ UnknownSetting \/ EndSettings
    BY <2>3 DEF SetsCycleTime, SetsCycles, UnknownSetting, EndSettings, Enter, Throw, Undefined,
                declared
  <2>4. CASE parse_mem \/ EndMem \/ EndVar
    BY <2>4 DEF parse_mem, EndMem, EndVar, Enter, Throw, declared
  <2>5. CASE parse_var
    BY <2>5 DEF parse_var, Throw, Undefined, declared
  <2>6. CASE InitConst
    BY <2>6 DEF InitConst, Throw, declared
  <2>7. CASE InitVar \/ InitUnknown \/ EndInit
    BY <2>7 DEF InitVar, InitUnknown, EndInit, Enter, Throw, declared
  <2>8. CASE Mnemonic \/ LabelLine \/ PushLine \/ PopLine \/ JumpLine \/ DroppedLine \/ LongLine
    BY <2>8 DEF Mnemonic, LabelLine, PushLine, PopLine, JumpLine, DroppedLine, LongLine,
                Emit, Throw, declared
  <2>9. CASE EndProgram \/ AssignTargets
    BY <2>9 DEF EndProgram, AssignTargets, Enter, Throw, declared
  <2> QED
    BY <2>1, <2>2, <2>3, <2>4, <2>5, <2>6, <2>7, <2>8, <2>9 DEF Next
<1> QED
  BY <1>1, <1>2, <1>3, <1>4

-----------------------------------------------------------------------------
(* A line of two words that is no instruction is passed over.              *)
Known(l) == Len(l) = 2 => l[1] \in Pushes \cup Pops \cup Jumps
KnownIn(code, n) == {i \in 1..n : Known(code[i])}

(* The i-th instruction before the targets are known.                      *)
Drafted(l, ins, i, jumps, consts) ==
    /\ Len(l) \in {1, 2} /\ Known(l)
    /\ Len(l) = 1 /\ Label(l[1]) # {} => ins = [op |-> "LABEL"]
    /\ Len(l) = 1 /\ Label(l[1]) = {} =>
          \/ ins \in [op : {"BINARY", "UNARY"}, alu : {l[1]}]
          \/ l[1] = "DUP" /\ ins = [op |-> "DUP"]
          \/ l[1] \in ArcTangents /\ ins = [op |-> "ATANXY"]
    /\ Len(l) = 2 /\ l[1] \in Jumps =>
          ins.op = l[1] /\ i - 1 \in DOMAIN jumps /\ jumps[i - 1] = l[2]
    /\ Len(l) = 2 /\ l[1] \in Pushes =>
          \/ ins = [op |-> "PUSH_var", var |-> l[2]]
          \/ ins.op = "PUSH_const" /\ consts[l[2]].init = {ins.value}
          \/ ins.op = "PUSH_special" /\ l[2] \in RESERVED
    /\ Len(l) = 2 /\ l[1] \in Pops =>
          \/ ins = [op |-> "POP_var", var |-> l[2]]
          \/ ins.op = "POP_discard" /\ l[2] \in RESERVED \cup {"NULL"}

(* A list and the lines it stands for.                                     *)
Declares(l, n) == Len(l) = 1 /\ Label(l[1]) = {n}
DraftOK(lines, list, jumps, labels, consts) ==
    /\ lines \in Seq(Seq(Text)) /\ Len(list) = Len(lines)
    /\ \A i \in 1..Len(lines) : Drafted(lines[i], list[i], i, jumps, consts)
    /\ \A n \in DOMAIN labels :
          labels[n] \in 0..Len(lines) - 1 /\ Declares(lines[labels[n] + 1], n)

LEMMA DraftGrows ==
    ASSUME NEW lines, NEW X, NEW list \in Seq(X), NEW jumps, NEW labels, NEW consts,
           DraftOK(lines, list, jumps, labels, consts),
           NEW l \in Seq(Text), NEW ins \in X, NEW jumps2, NEW labels2,
           \A i \in DOMAIN jumps : i \in DOMAIN jumps2 /\ jumps2[i] = jumps[i],
           \A n \in DOMAIN labels2 :
              \/ n \in DOMAIN labels /\ labels2[n] = labels[n]
              \/ labels2[n] = Len(list) /\ Declares(l, n),
           Drafted(l, ins, Len(list) + 1, jumps2, consts)
    PROVE  DraftOK(Append(lines, l), Append(list, ins), jumps2, labels2, consts)
<1> DEFINE k == Len(list)
<1> DEFINE a == Append(lines, l)
<1> DEFINE b == Append(list, ins)
<1>1. /\ k \in Nat /\ Len(b) = k + 1 /\ b[k + 1] = ins
      /\ \A i \in 1..k : b[i] = list[i]
  OBVIOUS
<1>2. lines \in Seq(Seq(Text)) /\ Len(lines) = k
  BY DEF DraftOK
<1>3. /\ a \in Seq(Seq(Text)) /\ Len(a) = k + 1 /\ a[k + 1] = l
      /\ \A i \in 1..k : a[i] = lines[i]
  <2> DEFINE S == Seq(Text)
  <2>1. lines \in Seq(S) /\ l \in S
    BY <1>2
  <2> HIDE DEF S
  <2>2. /\ Append(lines, l) \in Seq(S) /\ Len(Append(lines, l)) = Len(lines) + 1
        /\ Append(lines, l)[Len(lines) + 1] = l
        /\ \A i \in 1..Len(lines) : Append(lines, l)[i] = lines[i]
    BY <2>1
  <2> QED
    BY <1>2, <2>2 DEF S
<1>4. /\ \A i \in 1..k : Drafted(lines[i], list[i], i, jumps, consts)
      /\ \A n \in DOMAIN labels : labels[n] \in 0..k - 1 /\ Declares(lines[labels[n] + 1], n)
      /\ Drafted(l, ins, k + 1, jumps2, consts)
      /\ \A n \in DOMAIN labels2 :
              \/ n \in DOMAIN labels /\ labels2[n] = labels[n]
              \/ labels2[n] = k /\ Declares(l, n)
  BY <1>2 DEF DraftOK
<1> HIDE DEF k, a, b
<1>5. ASSUME NEW i \in 1..k + 1
      PROVE  Drafted(a[i], b[i], i, jumps2, consts)
  <2>1. CASE i = k + 1
    BY <1>1, <1>3, <1>4, <2>1
  <2>2. CASE i # k + 1
    <3>1. i \in 1..k /\ a[i] = lines[i] /\ b[i] = list[i]
      BY <1>1, <1>3, <2>2
    <3>2. Drafted(lines[i], list[i], i, jumps, consts)
      BY <1>4, <3>1
    <3>3. Drafted(lines[i], list[i], i, jumps2, consts)
      BY <3>2 DEF Drafted
    <3> QED
      BY <3>1, <3>3
  <2> QED
    BY <2>1, <2>2
<1>6. ASSUME NEW n \in DOMAIN labels2
      PROVE  labels2[n] \in 0..k /\ Declares(a[labels2[n] + 1], n)
  <2>1. CASE n \in DOMAIN labels /\ labels2[n] = labels[n]
    <3>1. labels[n] \in 0..k - 1 /\ Declares(lines[labels[n] + 1], n)
      BY <1>4, <2>1
    <3>2. labels[n] + 1 \in 1..k /\ labels[n] \in 0..k
      BY <1>1, <3>1
    <3> QED
      BY <1>3, <2>1, <3>1, <3>2
  <2>2. CASE labels2[n] = k /\ Declares(l, n)
    BY <1>1, <1>3, <2>2
  <2> QED
    BY <1>4, <2>1, <2>2
<1>7. k + 1 - 1 = k
  BY <1>1
<1>8. DraftOK(a, b, jumps2, labels2, consts)
  BY <1>1, <1>3, <1>5, <1>6, <1>7 DEF DraftOK
<1> QED
  BY <1>8 DEF a, b

(* What has been drafted of the program: nothing before __PROGRAM, then an *)
(* instruction for every line accepted, and in the end what                *)
(* OnlyUnknownLinesMissing says.                                           *)
Drafting == {"__PROGRAM", "targets"}
Prior == {"read", "__SETTINGS", "__MEM", "__VAR", "__INIT"}

(* A finished list, the same way.                                          *)
Stands(l, ins, lines, consts) ==
    /\ Len(l) \in {1, 2} /\ Known(l)
    /\ Len(l) = 1 /\ Label(l[1]) # {} => ins.op = "LABEL"
    /\ Len(l) = 1 /\ Label(l[1]) = {} =>
          \/ ins \in [op : {"BINARY", "UNARY"}, alu : {l[1]}]
          \/ l[1] = "DUP" /\ ins = [op |-> "DUP"]
          \/ l[1] \in ArcTangents /\ ins = [op |-> "ATANXY"]
    /\ Len(l) = 2 /\ l[1] \in Jumps =>
          ins.op = l[1] /\ Declares(lines[ins.target + 1], l[2])
    /\ Len(l) = 2 /\ l[1] \in Pushes =>
          \/ ins = [op |-> "PUSH_var", var |-> l[2]]
          \/ ins.op = "PUSH_const" /\ consts[l[2]].init = {ins.value}
          \/ ins.op = "PUSH_special" /\ l[2] \in RESERVED
    /\ Len(l) = 2 /\ l[1] \in Pops =>
          \/ ins = [op |-> "POP_var", var |-> l[2]]
          \/ ins.op = "POP_discard" /\ l[2] \in RESERVED \cup {"NULL"}
Finished(lines, list, consts) ==
    /\ Len(list) = Len(lines) + 1
    /\ \A i \in 1..Len(lines) : Stands(lines[i], list[i], lines, consts)

AcceptedLines == Selected(Code, KnownIn(Code, Accepted))
ProgramDraft ==
    /\ stage \in Prior =>
          instructions = <<>> /\ DOMAIN label_pos = {} /\ DOMAIN jump_targets = {}
    /\ stage \in Drafting =>
          /\ Accepted \in 0..Len(Code)
          /\ DraftOK(AcceptedLines, instructions, jump_targets, label_pos, const_map)
    /\ stage = "done" => Finished(AcceptedLines, instructions, const_map)

LEMMA KnownNext ==
    ASSUME NEW code, NEW n \in Nat
    PROVE  /\ KnownIn(code, n) \in SUBSET (1..n)
           /\ Known(code[n + 1]) => KnownIn(code, n + 1) = KnownIn(code, n) \cup {n + 1}
           /\ ~Known(code[n + 1]) => KnownIn(code, n + 1) = KnownIn(code, n)
<1>1. \A i : i \in 1..n + 1 <=> i \in 1..n \/ i = n + 1
  OBVIOUS
<1> QED
  BY <1>1 DEF KnownIn

(* A line of the program is looked at.                                     *)
LEMMA ProgramLine ==
    ASSUME IInv, InProgram
    PROVE  /\ stage = "__PROGRAM" /\ at \in Nat /\ at + 1 \in 1..Len(Code)
           /\ Line = Code[at + 1] /\ Line \in Seq(Text) /\ Code \in Seq(Seq(Text))
           /\ Accepted = at
<1>1. Code \in Seq(Seq(Text)) /\ at \in Nat
  BY DEF IInv, ReaderOK, Sequences_, Code, SectionNames
<1>2. stage = "__PROGRAM" /\ at < Len(Code) /\ Line = Code[at + 1]
  BY DEF InProgram, InSection, Line, Code
<1>3. at + 1 \in 1..Len(Code)
  BY <1>1, <1>2
<1> QED
  BY <1>1, <1>2, <1>3 DEF Accepted

(* A line that is accepted as an instruction.                              *)
LEMMA LineAdded ==
    ASSUME IInv, ProgramDraft, InProgram,
           NEW ins \in Instruction(DOMAIN var_map), Emit(ins),
           \A i \in DOMAIN jump_targets :
              i \in DOMAIN jump_targets' /\ jump_targets'[i] = jump_targets[i],
           \A n \in DOMAIN label_pos' :
              \/ n \in DOMAIN label_pos /\ label_pos'[n] = label_pos[n]
              \/ label_pos'[n] = Len(instructions) /\ Declares(Line, n),
           Drafted(Line, ins, Len(instructions) + 1, jump_targets', const_map)
    PROVE  ProgramDraft'
<1> DEFINE n == at
<1> DEFINE P == KnownIn(Code, n)
<1> DEFINE x == Selected(Code, P)
<1>1. /\ stage = "__PROGRAM" /\ n \in Nat /\ n + 1 \in 1..Len(Code)
      /\ Line = Code[n + 1] /\ Line \in Seq(Text) /\ Code \in Seq(Seq(Text))
      /\ Accepted = n
  BY ProgramLine
<1>2. /\ stage' = "__PROGRAM" /\ at' = n + 1 /\ Code' = Code /\ const_map' = const_map
      /\ instructions' = Append(instructions, ins)
  BY <1>1 DEF Emit, Parsed, reader, declared, Code
<1>3. DraftOK(x, instructions, jump_targets, label_pos, const_map)
  BY <1>1 DEF ProgramDraft, Drafting, AcceptedLines
<1>4. x \in Seq(Seq(Text)) /\ P \in SUBSET (1..n)
  BY <1>1, <1>3, KnownNext DEF DraftOK
<1>5. KnownIn(Code, n + 1) = P \cup {n + 1}
  <2>1. Known(Code[n + 1])
    BY <1>1 DEF Drafted
  <2> QED
    BY <1>1, <2>1, KnownNext
<1>6. x = Selected(Code, P)
  OBVIOUS
<1>7. AcceptedLines' = Selected(Code, P \cup {n + 1})
  BY <1>2, <1>5 DEF AcceptedLines, Accepted
<1>8. instructions \in Seq(Instruction(DOMAIN var_map))
  BY <1>1 DEF IInv, ProgramOK, ListOK
<1> HIDE DEF n, P, x
<1>9. AcceptedLines' = Append(x, Line)
  BY <1>1, <1>4, <1>6, <1>7, SelectedLine
<1>10. DraftOK(Append(x, Line), Append(instructions, ins), jump_targets', label_pos', const_map)
  BY <1>1, <1>3, <1>8, DraftGrows
<1>11. DraftOK(AcceptedLines', instructions', jump_targets', label_pos', const_map')
  BY <1>2, <1>9, <1>10
<1>12. Accepted' \in 0..Len(Code') /\ stage' \notin Prior /\ stage' # "done"
  BY <1>1, <1>2 DEF Accepted, Prior
<1> QED
  BY <1>11, <1>12 DEF ProgramDraft

(* A line that is passed over.                                             *)
LEMMA LineDropped ==
    ASSUME IInv, ProgramDraft, DroppedLine
    PROVE  ProgramDraft'
<1> DEFINE n == at
<1>1. /\ stage = "__PROGRAM" /\ n \in Nat /\ n + 1 \in 1..Len(Code)
      /\ Line = Code[n + 1] /\ Accepted = n
  BY ProgramLine DEF DroppedLine
<1>2. /\ stage' = "__PROGRAM" /\ at' = n + 1 /\ Code' = Code /\ const_map' = const_map
      /\ UNCHANGED <<instructions, label_pos, jump_targets>>
  BY <1>1 DEF DroppedLine, Parsed, reader, declared, program, Code
<1>3. ~Known(Code[n + 1])
  BY <1>1 DEF DroppedLine, Known
<1>4. KnownIn(Code, n + 1) = KnownIn(Code, n)
  BY <1>1, <1>3, KnownNext
<1>5. AcceptedLines' = AcceptedLines
  BY <1>1, <1>2, <1>4 DEF AcceptedLines, Accepted
<1>6. Accepted' \in 0..Len(Code') /\ stage' \notin Prior /\ stage' # "done"
  BY <1>1, <1>2 DEF Accepted, Prior
<1>7. DraftOK(AcceptedLines', instructions', jump_targets', label_pos', const_map')
  BY <1>1, <1>2, <1>5 DEF ProgramDraft, Drafting
<1> QED
  BY <1>6, <1>7 DEF ProgramDraft

-----------------------------------------------------------------------------
(* What the lines of each kind add.                                        *)
LEMMA NoJumpAdded ==
    ASSUME IInv, ProgramDraft, InProgram,
           NEW ins \in Instruction(DOMAIN var_map), Emit(ins),
           UNCHANGED <<label_pos, jump_targets>>,
           Drafted(Line, ins, Len(instructions) + 1, jump_targets, const_map)
    PROVE  ProgramDraft'
BY LineAdded

LEMMA MnemonicDraft ==
    ASSUME IInv, ProgramDraft, Mnemonic
    PROVE  ProgramDraft'
<1> DEFINE w == Line[1]
<1>1. InProgram /\ Len(Line) = 1 /\ UNCHANGED <<label_pos, jump_targets>>
  BY DEF Mnemonic
<1>2. w \in Text
  <2>1. Line \in Seq(Text)
    BY <1>1, ProgramLine
  <2> QED
    BY <1>1, <2>1
<1>3. ASSUME NEW ins \in Instruction(DOMAIN var_map), Emit(ins), w \in Mnemonics,
             \/ ins \in [op : {"BINARY", "UNARY"}, alu : {w}]
             \/ w = "DUP" /\ ins = [op |-> "DUP"]
             \/ w \in ArcTangents /\ ins = [op |-> "ATANXY"]
      PROVE  ProgramDraft'
  <2>1. Label(w) = {}
    BY <1>2, <1>3, LabelAssumption
  <2>2. Drafted(Line, ins, Len(instructions) + 1, jump_targets, const_map)
    BY <1>1, <1>3, <2>1 DEF Drafted, Known
  <2> QED
    BY <1>1, <1>3, <2>2, NoJumpAdded
<1>4. CASE w \in BinaryOps /\ Emit([op |-> "BINARY", alu |-> w])
  <2> DEFINE ins == [op |-> "BINARY", alu |-> w]
  <2>1. /\ ins \in Instruction(DOMAIN var_map) /\ ins \in [op : {"BINARY", "UNARY"}, alu : {w}]
        /\ w \in Mnemonics
    BY <1>4 DEF Instruction, Mnemonics
  <2> HIDE DEF w
  <2> QED
    BY <1>3, <1>4, <2>1
<1>5. CASE w \in UnaryOps /\ Emit([op |-> "UNARY", alu |-> w])
  <2> DEFINE ins == [op |-> "UNARY", alu |-> w]
  <2>1. /\ ins \in Instruction(DOMAIN var_map) /\ ins \in [op : {"BINARY", "UNARY"}, alu : {w}]
        /\ w \in Mnemonics
    BY <1>5 DEF Instruction, Mnemonics
  <2> HIDE DEF w
  <2> QED
    BY <1>3, <1>5, <2>1
<1>6. CASE w = "DUP" /\ Emit([op |-> "DUP"])
  <2>1. [op |-> "DUP"] \in Instruction(DOMAIN var_map) /\ w \in Mnemonics
    BY <1>6 DEF Instruction, Mnemonics
  <2> HIDE DEF w
  <2> QED
    BY <1>3, <1>6, <2>1
<1>7. CASE w \in ArcTangents /\ Emit([op |-> "ATANXY"])
  <2>1. [op |-> "ATANXY"] \in Instruction(DOMAIN var_map) /\ w \in Mnemonics
    BY <1>7 DEF Instruction, Mnemonics
  <2> HIDE DEF w
  <2> QED
    BY <1>3, <1>7, <2>1
<1> QED
  BY <1>4, <1>5, <1>6, <1>7 DEF Mnemonic

LEMMA LabelDraft ==
    ASSUME IInv, ProgramDraft, LabelLine, stage' # "failed"
    PROVE  ProgramDraft'
<1> DEFINE w == Line[1]
<1> DEFINE ins == [op |-> "LABEL"]
<1>1. InProgram /\ Len(Line) = 1 /\ Emit(ins) /\ UNCHANGED jump_targets
  BY DEF LabelLine, Throw
<1>2. PICK n \in Label(w) : label_pos' = With(label_pos, n, Len(instructions))
  BY DEF LabelLine, Throw
<1>3. w \in Text
  <2>1. Line \in Seq(Text)
    BY <1>1, ProgramLine
  <2> QED
    BY <1>1, <2>1
<1>4. Label(w) = {n}
  BY <1>2, <1>3, LabelAssumption
<1>5. ins \in Instruction(DOMAIN var_map)
  BY DEF Instruction
<1>6. Drafted(Line, ins, Len(instructions) + 1, jump_targets', const_map)
  BY <1>1, <1>4 DEF Drafted, Known
<1>7. \A m \in DOMAIN label_pos' :
         \/ m \in DOMAIN label_pos /\ label_pos'[m] = label_pos[m]
         \/ label_pos'[m] = Len(instructions) /\ Declares(Line, m)
  BY <1>1, <1>2, <1>4 DEF With, Declares
<1>8. \A i \in DOMAIN jump_targets :
         i \in DOMAIN jump_targets' /\ jump_targets'[i] = jump_targets[i]
  BY <1>1
<1> HIDE DEF ins
<1> QED
  BY <1>1, <1>5, <1>6, <1>7, <1>8, LineAdded

LEMMA PushDraft ==
    ASSUME IInv, ProgramDraft, SingleValues, PushLine, stage' # "failed"
    PROVE  ProgramDraft'
<1> DEFINE name == Line[2]
<1>1. InProgram /\ Len(Line) = 2 /\ Line[1] \in Pushes
  BY DEF PushLine, TwoWords
<1>2. Line[1] \notin Jumps /\ Line[1] \notin Pops
  BY <1>1 DEF Pushes, Pops, Jumps, ConditionalJumps
<1>3. ASSUME NEW ins \in Instruction(DOMAIN var_map), Emit(ins),
             UNCHANGED <<label_pos, jump_targets>>,
             \/ ins = [op |-> "PUSH_var", var |-> name]
             \/ ins.op = "PUSH_const" /\ const_map[name].init = {ins.value}
             \/ ins.op = "PUSH_special" /\ name \in RESERVED
      PROVE  ProgramDraft'
  <2>1. Drafted(Line, ins, Len(instructions) + 1, jump_targets, const_map)
    BY <1>1, <1>2, <1>3 DEF Drafted, Known
  <2> QED
    BY <1>1, <1>3, <2>1, NoJumpAdded
<1>4. CASE /\ name \in DOMAIN const_map
           /\ \E x \in const_map[name].init : Emit([op |-> "PUSH_const", value |-> x])
           /\ UNCHANGED <<label_pos, jump_targets>>
  <2>1. PICK x \in const_map[name].init : Emit([op |-> "PUSH_const", value |-> x])
    BY <1>4
  <2> DEFINE ins == [op |-> "PUSH_const", value |-> x]
  <2>2. const_map[name].init = {x}
    BY <1>4 DEF SingleValues
  <2>3. x \in Word
    BY <1>4 DEF IInv, DeclaredOK, Constant
  <2>4. /\ ins \in Instruction(DOMAIN var_map) /\ Emit(ins)
        /\ ins.op = "PUSH_const" /\ const_map[name].init = {ins.value}
    BY <2>1, <2>2, <2>3 DEF Instruction
  <2> HIDE DEF ins, name
  <2> QED
    BY <1>3, <1>4, <2>4
<1>5. CASE /\ name \in DOMAIN var_map
           /\ Emit([op |-> "PUSH_var", var |-> name]) /\ UNCHANGED <<label_pos, jump_targets>>
  <2> DEFINE ins == [op |-> "PUSH_var", var |-> name]
  <2>1. ins \in Instruction(DOMAIN var_map) /\ Emit(ins)
    BY <1>5 DEF Instruction
  <2> HIDE DEF name
  <2> QED
    BY <1>3, <1>5, <2>1
<1>6. CASE /\ name \in PushSpecial
           /\ Emit([op |-> "PUSH_special"]) /\ UNCHANGED <<label_pos, jump_targets>>
  <2> DEFINE ins == [op |-> "PUSH_special"]
  <2>1. /\ ins \in Instruction(DOMAIN var_map) /\ Emit(ins) /\ ins.op = "PUSH_special"
        /\ name \in RESERVED
    BY <1>6 DEF Instruction, RESERVED
  <2> HIDE DEF name, ins
  <2> QED
    BY <1>3, <1>6, <2>1
<1> QED
  BY <1>4, <1>5, <1>6 DEF PushLine, Throw

LEMMA PopDraft ==
    ASSUME IInv, ProgramDraft, PopLine, stage' # "failed"
    PROVE  ProgramDraft'
<1> DEFINE name == Line[2]
<1>1. InProgram /\ Len(Line) = 2 /\ Line[1] \in Pops
  BY DEF PopLine, TwoWords
<1>2. Line[1] \notin Jumps /\ Line[1] \notin Pushes
  BY <1>1 DEF Pushes, Pops, Jumps, ConditionalJumps
<1>3. ASSUME NEW ins \in Instruction(DOMAIN var_map), Emit(ins),
             UNCHANGED <<label_pos, jump_targets>>,
             \/ ins = [op |-> "POP_var", var |-> name]
             \/ ins.op = "POP_discard" /\ name \in RESERVED \cup {"NULL"}
      PROVE  ProgramDraft'
  <2>1. Drafted(Line, ins, Len(instructions) + 1, jump_targets, const_map)
    BY <1>1, <1>2, <1>3 DEF Drafted, Known
  <2> QED
    BY <1>1, <1>3, <2>1, NoJumpAdded
<1>4. CASE /\ name \in DOMAIN var_map
           /\ Emit([op |-> "POP_var", var |-> name]) /\ UNCHANGED <<label_pos, jump_targets>>
  <2> DEFINE ins == [op |-> "POP_var", var |-> name]
  <2>1. ins \in Instruction(DOMAIN var_map) /\ Emit(ins)
    BY <1>4 DEF Instruction
  <2> HIDE DEF name
  <2> QED
    BY <1>3, <1>4, <2>1
<1>5. CASE /\ name \in PopSpecial \cup {"NULL"}
           /\ Emit([op |-> "POP_discard"]) /\ UNCHANGED <<label_pos, jump_targets>>
  <2> DEFINE ins == [op |-> "POP_discard"]
  <2>1. /\ ins \in Instruction(DOMAIN var_map) /\ Emit(ins) /\ ins.op = "POP_discard"
        /\ name \in RESERVED \cup {"NULL"}
    BY <1>5 DEF Instruction, RESERVED
  <2> HIDE DEF name, ins
  <2> QED
    BY <1>3, <1>5, <2>1
<1> QED
  BY <1>4, <1>5 DEF PopLine, Throw

LEMMA JumpDraft ==
    ASSUME IInv, ProgramDraft, JumpLine
    PROVE  ProgramDraft'
<1> DEFINE op == Line[1]
<1> DEFINE ins == [op |-> op, target |-> 0]
<1>1. /\ InProgram /\ Len(Line) = 2 /\ op \in Jumps /\ Emit(ins) /\ UNCHANGED label_pos
      /\ jump_targets' = With(jump_targets, Len(instructions), Line[2])
  BY DEF JumpLine, TwoWords
<1>2. op \notin Pushes \cup Pops
  BY <1>1 DEF Pushes, Pops, Jumps, ConditionalJumps
<1>3. ins \in Instruction(DOMAIN var_map) /\ ins.op = op
  BY <1>1 DEF Instruction
<1>4. /\ instructions \in Seq(Instruction(DOMAIN var_map)) /\ Len(instructions) \in Nat
      /\ \A i \in DOMAIN jump_targets : i \in 0..Len(instructions) - 1
  <2>1. ListOK(instructions, jump_targets, label_pos, DOMAIN var_map)
    BY <1>1, ProgramLine DEF IInv, ProgramOK
  <2> QED
    BY <2>1 DEF ListOK
<1>5. \A i \in DOMAIN jump_targets :
         i \in DOMAIN jump_targets' /\ jump_targets'[i] = jump_targets[i]
  <2>1. Len(instructions) \notin DOMAIN jump_targets
    BY <1>4
  <2> QED
    BY <1>1, <2>1 DEF With
<1>6. Drafted(Line, ins, Len(instructions) + 1, jump_targets', const_map)
  <2>1. Len(instructions) + 1 - 1 = Len(instructions)
    BY <1>4
  <2>2. Len(instructions) \in DOMAIN jump_targets' /\ jump_targets'[Len(instructions)] = Line[2]
    BY <1>1 DEF With
  <2> HIDE DEF ins
  <2> QED
    BY <1>1, <1>2, <1>3, <2>1, <2>2 DEF Drafted, Known
<1>7. \A n \in DOMAIN label_pos' : n \in DOMAIN label_pos /\ label_pos'[n] = label_pos[n]
  BY <1>1
<1> HIDE DEF ins
<1> QED
  BY <1>1, <1>3, <1>5, <1>6, <1>7, LineAdded

-----------------------------------------------------------------------------
(* The targets become known: the finished list stands for its lines.       *)
WithTargets(list, jumps, labels) ==
    Append([i \in 1..Len(list) |->
                IF i - 1 \in DOMAIN jumps
                THEN [op |-> list[i].op, target |-> labels[jumps[i - 1]]]
                ELSE list[i]],
           [op |-> "END"])

LEMMA DraftFinished ==
    ASSUME NEW lines, NEW list, NEW jumps, NEW labels, NEW consts, NEW X, list \in Seq(X),
           DraftOK(lines, list, jumps, labels, consts),
           \A i \in 1..Len(list) : list[i].op \in Jumps <=> i - 1 \in DOMAIN jumps,
           \A k \in DOMAIN jumps : jumps[k] \in DOMAIN labels,
           NEW p, p = WithTargets(list, jumps, labels)
    PROVE  /\ Len(p) = Len(lines) + 1
           /\ \A i \in 1..Len(lines) :
                 /\ i - 1 \in DOMAIN jumps =>
                       /\ p[i].op = list[i].op /\ list[i].op \in Jumps
                       /\ Declares(lines[p[i].target + 1], jumps[i - 1])
                 /\ i - 1 \notin DOMAIN jumps => p[i] = list[i] /\ list[i].op \notin Jumps
<1> DEFINE end == [op |-> "END"]
<1> DEFINE jump(i) == [op |-> list[i].op, target |-> labels[jumps[i - 1]]]
<1> DEFINE q == [i \in 1..Len(list) |-> IF i - 1 \in DOMAIN jumps THEN jump(i) ELSE list[i]]
<1>1. \A i \in 1..Len(list) : jump(i).op = list[i].op /\ jump(i).target = labels[jumps[i - 1]]
  OBVIOUS
<1>2. p = Append(q, end)
  BY DEF WithTargets
<1> HIDE DEF jump, end
<1>3. /\ Len(p) = Len(list) + 1
      /\ \A i \in 1..Len(list) : p[i] = IF i - 1 \in DOMAIN jumps THEN jump(i) ELSE list[i]
  <2>0. Len(list) \in Nat
    OBVIOUS
  <2>1. q \in Seq({q[i] : i \in 1..Len(list)} \cup {end}) /\ Len(q) = Len(list)
    BY <2>0
  <2>2. \A i \in 1..Len(list) : q[i] = IF i - 1 \in DOMAIN jumps THEN jump(i) ELSE list[i]
    OBVIOUS
  <2> HIDE DEF q
  <2>3. /\ Len(Append(q, end)) = Len(list) + 1
        /\ \A i \in 1..Len(list) : Append(q, end)[i] = q[i]
    BY <2>0, <2>1
  <2> QED
    BY <1>2, <2>2, <2>3
<1> HIDE DEF q
<1>4. ASSUME NEW i \in 1..Len(lines), i - 1 \in DOMAIN jumps
      PROVE  /\ p[i].op = list[i].op /\ list[i].op \in Jumps
             /\ Declares(lines[p[i].target + 1], jumps[i - 1])
  <2>1. i \in 1..Len(list)
    BY DEF DraftOK
  <2>2. p[i] = jump(i) /\ list[i].op \in Jumps
    BY <1>3, <1>4, <2>1
  <2>3. p[i].op = list[i].op /\ p[i].target = labels[jumps[i - 1]]
    BY <1>1, <2>1, <2>2
  <2>4. jumps[i - 1] \in DOMAIN labels
    BY <1>4
  <2>5. Declares(lines[labels[jumps[i - 1]] + 1], jumps[i - 1])
    BY <2>4 DEF DraftOK
  <2> QED
    BY <2>2, <2>3, <2>5
<1>5. ASSUME NEW i \in 1..Len(lines), i - 1 \notin DOMAIN jumps
      PROVE  p[i] = list[i] /\ list[i].op \notin Jumps
  <2>1. i \in 1..Len(list)
    BY DEF DraftOK
  <2> QED
    BY <1>3, <1>5, <2>1
<1>6. Len(lines) = Len(list)
  BY DEF DraftOK
<1> QED
  BY <1>3, <1>4, <1>5, <1>6

LEMMA DraftStands ==
    ASSUME NEW l, NEW old, NEW i, NEW jumps, NEW consts, NEW lines, NEW ins,
           Drafted(l, old, i, jumps, consts),
           i - 1 \in DOMAIN jumps =>
              /\ ins.op = old.op /\ old.op \in Jumps
              /\ Declares(lines[ins.target + 1], jumps[i - 1]),
           i - 1 \notin DOMAIN jumps => ins = old /\ old.op \notin Jumps
    PROVE  Stands(l, ins, lines, consts)
<1>0. Jumps = {"J", "JZ", "JNZ"} /\ Pushes = {"PUSH", "L"} /\ Pops = {"POP", "S"}
  BY DEF Jumps, ConditionalJumps, Pushes, Pops
<1>1. CASE Len(l) = 1
  <2>1. CASE Label(l[1]) # {}
    <3>1. old = [op |-> "LABEL"]
      BY <1>1, <2>1 DEF Drafted
    <3>2. ins.op = "LABEL"
      BY <1>0, <3>1
    <3> QED
      BY <1>1, <2>1, <3>2 DEF Stands, Known
  <2>2. CASE Label(l[1]) = {}
    <3>1. \/ old \in [op : {"BINARY", "UNARY"}, alu : {l[1]}]
          \/ l[1] = "DUP" /\ old = [op |-> "DUP"]
          \/ l[1] \in ArcTangents /\ old = [op |-> "ATANXY"]
      BY <1>1, <2>2 DEF Drafted
    <3>2. old.op \in {"BINARY", "UNARY", "DUP", "ATANXY"}
      BY <3>1
    <3>3. ins = old
      BY <1>0, <3>2
    <3> QED
      BY <1>1, <2>2, <3>1, <3>3 DEF Stands, Known
  <2> QED
    BY <2>1, <2>2
<1>2. CASE Len(l) = 2 /\ l[1] \in Jumps
  <2>1. old.op = l[1] /\ i - 1 \in DOMAIN jumps /\ jumps[i - 1] = l[2]
    BY <1>2 DEF Drafted
  <2>2. ins.op = l[1] /\ Declares(lines[ins.target + 1], l[2])
    BY <2>1
  <2> QED
    BY <1>0, <1>2, <2>2 DEF Stands, Known
<1>3. CASE Len(l) = 2 /\ l[1] \in Pushes
  <2>1. \/ old = [op |-> "PUSH_var", var |-> l[2]]
        \/ old.op = "PUSH_const" /\ consts[l[2]].init = {old.value}
        \/ old.op = "PUSH_special" /\ l[2] \in RESERVED
    BY <1>3 DEF Drafted
  <2>2. old.op \in {"PUSH_var", "PUSH_const", "PUSH_special"}
    BY <2>1
  <2>3. ins = old
    BY <1>0, <2>2
  <2> QED
    BY <1>0, <1>3, <2>1, <2>3 DEF Stands, Known
<1>4. CASE Len(l) = 2 /\ l[1] \in Pops
  <2>1. \/ old = [op |-> "POP_var", var |-> l[2]]
        \/ old.op = "POP_discard" /\ l[2] \in RESERVED \cup {"NULL"}
    BY <1>4 DEF Drafted
  <2>2. old.op \in {"POP_var", "POP_discard"}
    BY <2>1
  <2>3. ins = old
    BY <1>0, <2>2
  <2> QED
    BY <1>0, <1>4, <2>1, <2>3 DEF Stands, Known
<1> QED
  BY <1>1, <1>2, <1>3, <1>4 DEF Drafted, Known

LEMMA TargetsDraft ==
    ASSUME IInv, ProgramDraft, AssignTargets, stage' # "failed"
    PROVE  ProgramDraft'
<1> DEFINE lines == AcceptedLines
<1> DEFINE p == instructions'
<1>1. /\ stage = "targets" /\ stage' = "done"
      /\ \A k \in DOMAIN jump_targets : jump_targets[k] \in DOMAIN label_pos
      /\ p = WithTargets(instructions, jump_targets, label_pos)
      /\ Code' = Code /\ UNCHANGED const_map
  BY DEF AssignTargets, WithTargets, Throw, reader, declared, Code
<1>2. DraftOK(lines, instructions, jump_targets, label_pos, const_map)
  BY <1>1 DEF ProgramDraft, Drafting
<1>3. /\ instructions \in Seq(Instruction(DOMAIN var_map))
      /\ \A i \in 1..Len(instructions) :
            instructions[i].op \in Jumps <=> i - 1 \in DOMAIN jump_targets
  BY <1>1 DEF IInv, ProgramOK, ListOK
<1>4. AcceptedLines' = lines
  BY <1>1 DEF AcceptedLines, Accepted
<1> HIDE DEF lines, p
<1>5. /\ Len(p) = Len(lines) + 1
      /\ \A i \in 1..Len(lines) :
            /\ i - 1 \in DOMAIN jump_targets =>
                  /\ p[i].op = instructions[i].op /\ instructions[i].op \in Jumps
                  /\ Declares(lines[p[i].target + 1], jump_targets[i - 1])
            /\ i - 1 \notin DOMAIN jump_targets =>
                  p[i] = instructions[i] /\ instructions[i].op \notin Jumps
  BY <1>1, <1>2, <1>3, DraftFinished
<1>6. ASSUME NEW i \in 1..Len(lines)
      PROVE  Stands(lines[i], p[i], lines, const_map)
  <2>1. Drafted(lines[i], instructions[i], i, jump_targets, const_map)
    BY <1>2 DEF DraftOK
  <2> QED
    BY <1>5, <2>1, DraftStands
<1>7. Finished(lines, p, const_map)
  BY <1>5, <1>6 DEF Finished
<1>8. stage' \notin Prior /\ stage' \notin Drafting
  BY <1>1 DEF Prior, Drafting
<1>9. Finished(AcceptedLines', instructions', const_map')
  BY <1>1, <1>4, <1>7 DEF p
<1> QED
  BY <1>8, <1>9 DEF ProgramDraft

(* Before and behind the lines of the program.                             *)
LEMMA ProgramSteps ==
    ASSUME [Next]_vars, stage' # "failed"
    PROVE  \/ stage \in Prior /\ stage' \in Prior /\ UNCHANGED program
           \/ /\ stage = "__INIT" /\ stage' = "__PROGRAM" /\ at' = 0 /\ UNCHANGED program
              /\ UNCHANGED <<section, const_map>>
           \/ Mnemonic \/ LabelLine \/ PushLine \/ PopLine \/ JumpLine \/ DroppedLine
           \/ /\ stage = "__PROGRAM" /\ at = Len(Code) /\ stage' = "targets"
              /\ UNCHANGED <<section, const_map, program>>
           \/ AssignTargets
           \/ stage' = stage /\ at' = at /\ UNCHANGED <<section, const_map, program>>
           \/ stage' = "undefined"
<1>1. CASE UNCHANGED vars \/ Loaded
  BY <1>1 DEF Loaded, vars, reader, declared
<1>2. CASE Blank \/ Opens \/ Collects \/ EndOfFile
  BY <1>2 DEF Blank, Opens, Collects, Reading, ReadOn, Throw, EndOfFile, Enter, Prior
<1>3. CASE SetsCycleTime \/ SetsCycles \/ UnknownSetting \/ EndSettings
  BY <1>3 DEF SetsCycleTime, SetsCycles, UnknownSetting, EndSettings, InSection, AtEndOf, Enter,
              Throw, Undefined, Parsed, Prior
<1>4. CASE parse_mem \/ EndMem \/ parse_var \/ EndVar
  BY <1>4 DEF parse_mem, EndMem, parse_var, EndVar, InSection, AtEndOf, Enter, Throw, Undefined,
              Parsed,
              Prior
<1>5. CASE InitConst \/ InitVar \/ InitUnknown
  BY <1>5 DEF InitConst, InitVar, InitUnknown, InSection, Throw, Parsed, Prior
<1>6. CASE EndInit
  BY <1>6 DEF EndInit, AtEndOf, Enter, Throw, reader, declared
<1>7. CASE LongLine
  BY <1>7 DEF LongLine, Throw
<1>8. CASE EndProgram
  BY <1>8 DEF EndProgram, AtEndOf, Enter, reader, declared, Code
<1> QED
  BY <1>1, <1>2, <1>3, <1>4, <1>5, <1>6, <1>7, <1>8 DEF Next

LEMMA DraftInductive ==
    IInv /\ SingleValues /\ ProgramDraft /\ [Next]_vars => ProgramDraft'
<1> SUFFICES ASSUME IInv, SingleValues, ProgramDraft, [Next]_vars PROVE ProgramDraft'
  OBVIOUS
<1>1. CASE stage' \in {"failed", "undefined"}
  BY <1>1 DEF ProgramDraft, Prior, Drafting
<1>2. CASE stage \in Prior /\ stage' \in Prior /\ UNCHANGED program
  BY <1>2 DEF ProgramDraft, Prior, Drafting, program
<1>3. CASE /\ stage = "__INIT" /\ stage' = "__PROGRAM" /\ at' = 0 /\ UNCHANGED program
           /\ UNCHANGED <<section, const_map>>
  <2>1. /\ instructions' = <<>> /\ DOMAIN label_pos' = {} /\ Code' = Code
        /\ Code \in Seq(Seq(Text)) /\ Accepted' = 0
    BY <1>3 DEF ProgramDraft, Prior, program, Code, Accepted, IInv, ReaderOK, Sequences_,
                SectionNames
  <2>2. KnownIn(Code', 0) = {}
    BY DEF KnownIn
  <2>3. AcceptedLines' = <<>>
    BY <2>1, <2>2, SelectedNone DEF AcceptedLines
  <2>4. DraftOK(<<>>, <<>>, jump_targets', label_pos', const_map')
    BY <2>1 DEF DraftOK
  <2>5. Accepted' \in 0..Len(Code') /\ stage' \notin Prior /\ stage' # "done"
    BY <1>3, <2>1 DEF Prior
  <2> QED
    BY <2>1, <2>3, <2>4, <2>5 DEF ProgramDraft
<1>4. CASE Mnemonic \/ LabelLine \/ PushLine \/ PopLine \/ JumpLine \/ DroppedLine
  <2>1. CASE stage' # "failed"
    BY <1>4, <2>1, MnemonicDraft, LabelDraft, PushDraft, PopDraft, JumpDraft, LineDropped
  <2> QED
    BY <1>1, <2>1
<1>5. CASE /\ stage = "__PROGRAM" /\ at = Len(Code) /\ stage' = "targets"
           /\ UNCHANGED <<section, const_map, program>>
  <2>1. Code' = Code /\ Accepted = at /\ Accepted' = at
    BY <1>5 DEF Code, Accepted
  <2>2. AcceptedLines' = AcceptedLines
    BY <2>1 DEF AcceptedLines
  <2>3. stage' \notin Prior /\ stage' # "done" /\ stage \in Drafting
    BY <1>5 DEF Prior, Drafting
  <2> QED
    BY <1>5, <2>1, <2>2, <2>3 DEF ProgramDraft, program
<1>6. CASE AssignTargets
  BY <1>1, <1>6, TargetsDraft
<1>7. CASE stage' = stage /\ at' = at /\ UNCHANGED <<section, const_map, program>>
  <2>1. Code' = Code /\ Accepted' = Accepted
    BY <1>7 DEF Code, Accepted
  <2>2. AcceptedLines' = AcceptedLines
    BY <2>1 DEF AcceptedLines
  <2> QED
    BY <1>7, <2>1, <2>2 DEF ProgramDraft, program
<1> QED
  BY <1>1, <1>2, <1>3, <1>4, <1>5, <1>6, <1>7, ProgramSteps

(* The machine executes the lines of __PROGRAM in their order, each as     *)
(* what it says; the only lines missing are those of two words that        *)
(* parse_program does not know, and jumps lead to their labels all the     *)
(* same.                                                                   *)
THEOREM OnlyUnknownLinesMissingTheorem == Spec => []OnlyUnknownLinesMissing
<1>1. Init => SingleValues /\ ProgramDraft
  BY DEF Init, SingleValues, ProgramDraft, Prior, Drafting, NoNames
<1>2. ProgramDraft => OnlyUnknownLinesMissing
  <2> SUFFICES ASSUME ProgramDraft, stage = "done" PROVE OnlyUnknownLinesMissing
    BY DEF OnlyUnknownLinesMissing
  <2> DEFINE lines == Selected(section["__PROGRAM"], KnownLines(Len(section["__PROGRAM"])))
  <2>1. lines = AcceptedLines
    <3>1. KnownLines(Len(Code)) = KnownIn(Code, Len(Code))
      BY DEF KnownLines, KnownIn, Known, Code
    <3> QED
      BY <3>1 DEF AcceptedLines, Accepted, Code
  <2> HIDE DEF lines
  <2>2. Finished(lines, instructions, const_map)
    BY <2>1 DEF ProgramDraft
  <2>3. ASSUME NEW i \in 1..Len(lines)
        PROVE  StandsFor(lines, i)
    <3> DEFINE l == lines[i]
    <3> DEFINE ins == instructions[i]
    <3>1. Stands(l, ins, lines, const_map)
      BY <2>2 DEF Finished
    <3>2. Jumps = {"J", "JZ", "JNZ"} /\ Pushes = {"PUSH", "L"} /\ Pops = {"POP", "S"}
      BY DEF Jumps, ConditionalJumps, Pushes, Pops
    <3> HIDE DEF l, ins
    <3>3. CASE Len(l) = 1 /\ Label(l[1]) # {}
      <4>1. ins.op = "LABEL" /\ Len(l) # 2
        BY <3>1, <3>3 DEF Stands
      <4> QED
        BY <3>3, <4>1 DEF StandsFor, l, ins
    <3>4. CASE Len(l) = 1 /\ Label(l[1]) = {}
      BY <3>1, <3>4 DEF Stands, StandsFor, l, ins
    <3>5. CASE Len(l) = 2 /\ l[1] \in Jumps
      BY <3>1, <3>2, <3>5 DEF Stands, StandsFor, Declares, l, ins
    <3>6. CASE Len(l) = 2 /\ l[1] \in Pushes
      BY <3>1, <3>2, <3>6 DEF Stands, StandsFor, l, ins
    <3>7. CASE Len(l) = 2 /\ l[1] \in Pops
      BY <3>1, <3>2, <3>7 DEF Stands, StandsFor, l, ins
    <3> QED
      BY <3>1, <3>3, <3>4, <3>5, <3>6, <3>7 DEF Stands, Known
  <2> QED
    BY <2>2, <2>3 DEF OnlyUnknownLinesMissing, Finished, lines
<1> QED
  BY <1>1, <1>2, Invariance, SingleValuesInductive, DraftInductive, PTL DEF Spec

=============================================================================
