------------------------------- MODULE Loader -------------------------------
(***************************************************************************)
(* Machine::load_file: a file is read line by line into five sections,     *)
(* which are then parsed in an order of their own, whatever their order in *)
(* the file, into the maps and the instruction list of class Machine.      *)
(*                                                                         *)
(* A line is the sequence of its words: blanks and comments are gone, a    *)
(* line of them only is the empty sequence.  What a word is made of is a   *)
(* parameter: the number it denotes, its parts, the label it declares.     *)
(***************************************************************************)
EXTENDS Program, FiniteSets

CONSTANTS
    Text,               \* the words
    Files,              \* sequences of lines
    Word,
    BinaryOps, UnaryOps,
    Numeral(_, _),      \* (type, word): what parse_unsigned "u",
                        \* parse_signed "i", parse_double "f" return; none
                        \* where they throw
    Negative(_),        \* the word begins with a minus sign
    AtParts(_),         \* split_string at '@' and at '.'
    DotParts(_),
    Label(_)            \* the name behind a `$', none for other words

(* The types of constants and of variables in shared memory, the special   *)
(* names of PUSH and POP, RESERVED.                                        *)
PushSpecial == {"STIME", "MTIME", "CTIME", "TTIME", "PID", "PPID", "UID", "EUID",
                "RAND", "RANDF", "RANDD"}
PopSpecial == {"STDOUT", "STDOUTS", "STDOUTF", "STDOUTD"}
RESERVED == PushSpecial \cup PopSpecial
ConstTypes == {"u", "i", "f"}
BitTypes == {"le1", "be1"}
DataTypes == BitTypes \cup {"byte", "le16", "be16", "le32", "be32", "le32r", "be32r",
                            "le64", "be64", "le64r", "be64r", "le64r4", "be64r4"}
CellSizes == {1, 2, 4, 8}

ASSUME FilesAssumption == Files \subseteq Seq(Seq(Text))
ASSUME NumeralAssumption ==
    \A w \in Text :
        /\ \A t \in ConstTypes : Numeral(t, w) \subseteq Word
        /\ AtParts(w) \in Seq(Text) /\ DotParts(w) \in Seq(Text)
(* A conversion returns one number or throws.                              *)
ASSUME NumeralIsOneNumber ==
    \A w \in Text, t \in ConstTypes : \A x, y \in Numeral(t, w) : x = y

SectionNames == {"__SETTINGS", "__MEM", "__VAR", "__INIT", "__PROGRAM"}

VARIABLES
    file,
    stage,      \* "read", the section being parsed, "targets", and how
                \* load_file ended: "done", "failed", "undefined"
    at,         \* the lines of the file, or of that section, dealt with
    cur_section,
    section,    \* section -> its lines
    \* members of class Machine
    cycle_time_ms, cycles,
    mem_map, var_map, const_map,
    instructions, label_pos,
    \* locals of parse_settings and parse_program
    applied_settings, jump_targets

reader == <<file, cur_section, section>>
settings == <<cycle_time_ms, cycles, applied_settings>>
declared == <<mem_map, var_map, const_map>>
program == <<instructions, label_pos, jump_targets>>
vars == <<stage, at, reader, settings, declared, program>>

Ends == {"done", "failed", "undefined"}
NoNames == [n \in {} |-> {}]
With(f, n, x) == [m \in DOMAIN f \cup {n} |-> IF m = n THEN x ELSE f[m]]

-----------------------------------------------------------------------------
Init ==
    /\ file \in Files
    /\ stage = "read" /\ at = 0 /\ cur_section = "none"
    /\ section = [s \in SectionNames |-> <<>>]
    /\ cycle_time_ms = 1000 /\ cycles = 0 /\ applied_settings = {}
    /\ mem_map = NoNames /\ var_map = NoNames /\ const_map = NoNames
    /\ instructions = <<>> /\ label_pos = NoNames /\ jump_targets = NoNames

(* An exception leaves load_file, and main ends.                           *)
Throw == stage' = "failed" /\ UNCHANGED <<at, reader, settings, declared, program>>

(* The first element of an empty vector, or the second of a shorter one,   *)
(* is used: what follows is not defined, and no catch clause sees it.      *)
Undefined == stage' = "undefined" /\ UNCHANGED <<at, reader, settings, declared, program>>

-----------------------------------------------------------------------------
(* The loop of load_file.                                                  *)
Reading == stage = "read" /\ at < Len(file)
IsHeader(l) == Len(l) = 1 /\ l[1] \in SectionNames
ReadOn == stage' = stage /\ at' = at + 1 /\ UNCHANGED <<file, settings, declared, program>>

Blank == /\ Reading /\ file[at + 1] = <<>>
         /\ ReadOn /\ UNCHANGED <<cur_section, section>>

(* Mutation: a section may be opened again.                                *)
OpensAgain ==
    /\ Reading /\ IsHeader(file[at + 1])
    /\ cur_section' = file[at + 1][1] /\ ReadOn /\ UNCHANGED section

(* A second header is refused when the first one already holds a line.     *)
Opens ==
    /\ Reading /\ IsHeader(file[at + 1])
    /\ \/ /\ section[file[at + 1][1]] = <<>>
          /\ cur_section' = file[at + 1][1] /\ ReadOn /\ UNCHANGED section
       \/ section[file[at + 1][1]] # <<>> /\ Throw

Collects ==
    /\ Reading /\ file[at + 1] # <<>> /\ ~IsHeader(file[at + 1])
    /\ \/ /\ cur_section # "none"
          /\ section' = [section EXCEPT ![cur_section] = Append(@, file[at + 1])]
          /\ ReadOn /\ UNCHANGED cur_section
       \/ cur_section = "none" /\ Throw

(* Enters a stage, at its first line.                                      *)
Enter(s) == stage' = s /\ at' = 0 /\ UNCHANGED <<reader, settings, declared, program>>

EndOfFile == stage = "read" /\ at = Len(file) /\ Enter("__SETTINGS")

-----------------------------------------------------------------------------
(* Parsing a section line by line.                                         *)
InSection(s) == stage = s /\ at < Len(section[s])
AtEndOf(s) == stage = s /\ at = Len(section[s])
Line == section[stage][at + 1]
Parsed == stage' = stage /\ at' = at + 1 /\ UNCHANGED reader

(* parse_settings.  Only CYCLE_MS is recorded in applied_settings.         *)
CycleTimes ==
    IF Len(Line) = 2 /\ Line[1] \notin applied_settings THEN Numeral("u", Line[2]) ELSE {}

(* Mutation: the setting is not recorded.                                  *)
SetsCycleTimeUnrecorded ==
    /\ InSection("__SETTINGS") /\ Line[1] = "CYCLE_MS"
    /\ \/ /\ cycle_time_ms' \in CycleTimes
          /\ Parsed /\ UNCHANGED <<cycles, applied_settings, declared, program>>
       \/ CycleTimes = {} /\ Throw

SetsCycleTime ==
    /\ InSection("__SETTINGS") /\ Line[1] = "CYCLE_MS"
    /\ \/ /\ cycle_time_ms' \in CycleTimes
          /\ applied_settings' = applied_settings \cup {"CYCLE_MS"}
          /\ Parsed /\ UNCHANGED <<cycles, declared, program>>
       \/ CycleTimes = {} /\ Throw

(* The number of words is not looked at: without a value the code reads    *)
(* behind the end of a vector, more words are ignored.                     *)
SetsCycles ==
    /\ InSection("__SETTINGS") /\ Line[1] = "CYCLES"
    /\ \/ /\ Len(Line) > 1 /\ cycles' \in Numeral("u", Line[2])
          /\ Parsed /\ UNCHANGED <<cycle_time_ms, applied_settings, declared, program>>
       \/ Len(Line) > 1 /\ Numeral("u", Line[2]) = {} /\ Throw
       \/ Len(Line) = 1 /\ Undefined

UnknownSetting ==
    InSection("__SETTINGS") /\ Line[1] \notin {"CYCLE_MS", "CYCLES"} /\ Throw

EndSettings == AtEndOf("__SETTINGS") /\ Enter("__MEM")

(* parse_mem: `local name cells' and `shm shm_name name cell_size'.        *)
MemName == IF Line[1] = "local" THEN Line[2] ELSE Line[3]
MemEntries ==
    IF Line[1] = "local" /\ Len(Line) = 3
    THEN {[kind |-> "local", cells |-> n] : n \in Numeral("u", Line[3])}
    ELSE IF Line[1] = "shm" /\ Len(Line) = 4
    THEN {[kind |-> "shm", cell_size |-> n] : n \in Numeral("u", Line[4]) \cap CellSizes}
    ELSE {}
MemAccepted == MemEntries # {} /\ MemName \notin DOMAIN mem_map

(* A line that is accepted may fail, too: the shared memory does not       *)
(* exist, or there is no room for so many local cells.                     *)
parse_mem ==
    /\ InSection("__MEM")
    /\ \/ /\ MemAccepted /\ \E m \in MemEntries : mem_map' = With(mem_map, MemName, m)
          /\ Parsed /\ UNCHANGED <<settings, var_map, const_map, program>>
       \/ Throw

EndMem == AtEndOf("__MEM") /\ Enter("__VAR")

-----------------------------------------------------------------------------
(* parse_var: `const type name' and `memory@cell[.index] type name'.       *)

(* Mutation: a variable may have the name of a constant.                   *)
NameFreeOfVariables(n) == n \notin RESERVED \cup DOMAIN var_map

NameFree(n) == n \notin RESERVED \cup DOMAIN const_map \cup DOMAIN var_map

ConstAccepted ==
    Len(Line) = 3 /\ Line[1] = "const" /\ Line[2] \in ConstTypes /\ NameFree(Line[3])

(* Local cells are le64 whatever their type says, be1 becomes le1.  Only   *)
(* bits have an index.                                                     *)
VarMem == AtParts(Line[1])[1]
VarCell == DotParts(AtParts(Line[1])[2])
IsLocal == mem_map[VarMem].kind = "local"
IsBit == ~IsLocal /\ Line[2] \in BitTypes
VarType == IF IsLocal THEN "le64" ELSE IF IsBit THEN "le1" ELSE Line[2]

(* The tests that come before the cell is looked at.                       *)
VarHasMemory ==
    /\ Len(Line) = 3 /\ Line[1] # "const" /\ NameFree(Line[3])
    /\ Len(AtParts(Line[1])) = 2 /\ VarMem \in DOMAIN mem_map
VarAccepted ==
    /\ VarHasMemory
    /\ IsLocal \/ Line[2] \in DataTypes
    /\ Len(VarCell) = (IF IsBit THEN 2 ELSE 1)
VarCells == IF VarAccepted THEN Numeral("u", VarCell[1]) ELSE {}
VarIndices == IF VarAccepted /\ IsBit THEN Numeral("u", VarCell[2]) ELSE {0}
VarEntry(cell, index) ==
    [mem |-> VarMem, data_type |-> VarType, cell |-> cell, index |-> index, init |-> {}]

(* `memory@@': the cell is empty and has no parts, but the first of them   *)
(* is used before their number is checked.                                 *)
CellMissing == VarHasMemory /\ VarCell = <<>>

parse_var ==
    /\ InSection("__VAR")
    /\ \/ /\ ConstAccepted
          /\ const_map' = With(const_map, Line[3], [d_type |-> Line[2], init |-> {}])
          /\ Parsed /\ UNCHANGED <<settings, mem_map, var_map, program>>
       \/ /\ \E c \in VarCells, i \in VarIndices :
                var_map' = With(var_map, Line[3], VarEntry(c, i))
          /\ Parsed /\ UNCHANGED <<settings, mem_map, const_map, program>>
       \/ CellMissing /\ Undefined
       \/ ~ConstAccepted /\ (VarCells = {} \/ VarIndices = {}) /\ ~CellMissing /\ Throw

EndVar == AtEndOf("__VAR") /\ Enter("__INIT")

-----------------------------------------------------------------------------
(* parse_init: `name value'.  init holds the value once there is one.      *)
ConstValues ==
    IF const_map[Line[1]].init = {} THEN Numeral(const_map[Line[1]].d_type, Line[2]) ELSE {}

(* A whole number, or else a double.                                       *)
Values(w) ==
    LET whole == Numeral(IF Negative(w) THEN "i" ELSE "u", w)
    IN  IF whole # {} THEN whole ELSE Numeral("f", w)

(* Mutation: a constant may be given a value again.                        *)
InitConstAgain ==
    /\ InSection("__INIT") /\ Len(Line) = 2 /\ Line[1] \in DOMAIN const_map
    /\ LET values == Numeral(const_map[Line[1]].d_type, Line[2])
       IN  \/ /\ \E x \in values : const_map' = [const_map EXCEPT ![Line[1]].init = {x}]
              /\ Parsed /\ UNCHANGED <<settings, mem_map, var_map, program>>
           \/ values = {} /\ Throw

InitConst ==
    /\ InSection("__INIT") /\ Len(Line) = 2 /\ Line[1] \in DOMAIN const_map
    /\ \/ /\ \E x \in ConstValues : const_map' = [const_map EXCEPT ![Line[1]].init = {x}]
          /\ Parsed /\ UNCHANGED <<settings, mem_map, var_map, program>>
       \/ ConstValues = {} /\ Throw

(* A variable may be given a value again.                                  *)
InitVar ==
    /\ InSection("__INIT") /\ Len(Line) = 2
    /\ Line[1] \in DOMAIN var_map \ DOMAIN const_map
    /\ \/ /\ \E x \in Values(Line[2]) : var_map' = [var_map EXCEPT ![Line[1]].init = {x}]
          /\ Parsed /\ UNCHANGED <<settings, mem_map, const_map, program>>
       \/ Values(Line[2]) = {} /\ Throw

InitUnknown ==
    /\ InSection("__INIT")
    /\ Len(Line) = 2 => Line[1] \notin DOMAIN const_map \cup DOMAIN var_map
    /\ Throw

(* All constants have a value.                                             *)
EndInit ==
    /\ AtEndOf("__INIT")
    /\ \/ (\A c \in DOMAIN const_map : const_map[c].init # {}) /\ Enter("__PROGRAM")
       \/ (\E c \in DOMAIN const_map : const_map[c].init = {}) /\ Throw

-----------------------------------------------------------------------------
(* parse_program.                                                          *)
InProgram == InSection("__PROGRAM")
Emit(i) == /\ instructions' = Append(instructions, i)
           /\ Parsed /\ UNCHANGED <<settings, declared>>

ArcTangents == {"ATANXY", "ATAN2"}
Mnemonics == BinaryOps \cup UnaryOps \cup {"DUP"} \cup ArcTangents
(* A word declares one label or none; no mnemonic begins with `$'.         *)
ASSUME LabelAssumption ==
    \A w \in Text :
        /\ \A x, y \in Label(w) : x = y
        /\ w \in Mnemonics => Label(w) = {}
Pushes == {"PUSH", "L"}
Pops == {"POP", "S"}
Jumps == ConditionalJumps \cup {"J"}

Mnemonic ==
    /\ InProgram /\ Len(Line) = 1
    /\ \/ Line[1] \in BinaryOps /\ Emit([op |-> "BINARY", alu |-> Line[1]])
       \/ Line[1] \in UnaryOps \ BinaryOps /\ Emit([op |-> "UNARY", alu |-> Line[1]])
       \/ Line[1] = "DUP" /\ Emit([op |-> "DUP"])
       \/ Line[1] \in ArcTangents /\ Emit([op |-> "ATANXY"])
    /\ UNCHANGED <<label_pos, jump_targets>>

(* `$' alone, and a name that is taken, are refused.                       *)
LabelAccepted == Label(Line[1]) \ ({""} \cup DOMAIN label_pos) # {}

(* Mutation: the label is the number of the line.                          *)
LabelLineByNumber ==
    /\ InProgram /\ Len(Line) = 1 /\ Line[1] \notin Mnemonics
    /\ \/ /\ LabelAccepted
          /\ \E n \in Label(Line[1]) : label_pos' = With(label_pos, n, at)
          /\ Emit([op |-> "LABEL"]) /\ UNCHANGED jump_targets
       \/ ~LabelAccepted /\ Throw

LabelLine ==
    /\ InProgram /\ Len(Line) = 1 /\ Line[1] \notin Mnemonics
    /\ \/ /\ LabelAccepted
          /\ \E n \in Label(Line[1]) : label_pos' = With(label_pos, n, Len(instructions))
          /\ Emit([op |-> "LABEL"]) /\ UNCHANGED jump_targets
       \/ ~LabelAccepted /\ Throw

TwoWords(first) == InProgram /\ Len(Line) = 2 /\ Line[1] \in first

(* The constants are searched before the variables, the variables before   *)
(* the special names.                                                      *)
PushLine ==
    /\ TwoWords(Pushes)
    /\ LET name == Line[2]
           known == DOMAIN const_map \cup DOMAIN var_map
       IN  \/ /\ name \in DOMAIN const_map
              /\ \E x \in const_map[name].init : Emit([op |-> "PUSH_const", value |-> x])
              /\ UNCHANGED <<label_pos, jump_targets>>
           \/ /\ name \in DOMAIN var_map \ DOMAIN const_map
              /\ Emit([op |-> "PUSH_var", var |-> name]) /\ UNCHANGED <<label_pos, jump_targets>>
           \/ /\ name \in PushSpecial \ known
              /\ Emit([op |-> "PUSH_special"]) /\ UNCHANGED <<label_pos, jump_targets>>
           \/ name \notin PushSpecial \cup known /\ Throw

(* Mutation: the constants are searched, too.                              *)
PopLineConstants ==
    /\ TwoWords(Pops)
    /\ LET name == Line[2]
           known == DOMAIN var_map \cup DOMAIN const_map
           special == PopSpecial \cup {"NULL"}
       IN  \/ /\ name \in known
              /\ Emit([op |-> "POP_var", var |-> name]) /\ UNCHANGED <<label_pos, jump_targets>>
           \/ /\ name \in special \ known
              /\ Emit([op |-> "POP_discard"]) /\ UNCHANGED <<label_pos, jump_targets>>
           \/ name \notin special \cup known /\ Throw

(* The constants are not searched: the name of one is unknown.             *)
PopLine ==
    /\ TwoWords(Pops)
    /\ LET name == Line[2]
           special == PopSpecial \cup {"NULL"}
       IN  \/ /\ name \in DOMAIN var_map
              /\ Emit([op |-> "POP_var", var |-> name]) /\ UNCHANGED <<label_pos, jump_targets>>
           \/ /\ name \in special \ DOMAIN var_map
              /\ Emit([op |-> "POP_discard"]) /\ UNCHANGED <<label_pos, jump_targets>>
           \/ name \notin special \cup DOMAIN var_map /\ Throw

JumpLine ==
    /\ TwoWords(Jumps)
    /\ Emit([op |-> Line[1], target |-> 0])
    /\ jump_targets' = With(jump_targets, Len(instructions), Line[2])
    /\ UNCHANGED label_pos

(* Two words of which the first is none of these: no instruction, no       *)
(* error.                                                                  *)
DroppedLine ==
    /\ InProgram /\ Len(Line) = 2 /\ Line[1] \notin Pushes \cup Pops \cup Jumps
    /\ Parsed /\ UNCHANGED <<settings, declared, program>>

LongLine == InProgram /\ Len(Line) > 2 /\ Throw

EndProgram == AtEndOf("__PROGRAM") /\ Enter("targets")

(* Mutation: a jump to an unknown label keeps its target 0.                *)
AssignKnownTargets ==
    /\ stage = "targets"
    /\ instructions' =
          Append([i \in 1..Len(instructions) |->
                      IF i - 1 \in DOMAIN jump_targets /\ jump_targets[i - 1] \in DOMAIN label_pos
                      THEN [op |-> instructions[i].op,
                            target |-> label_pos[jump_targets[i - 1]]]
                      ELSE instructions[i]],
                 [op |-> "END"])
    /\ stage' = "done"
    /\ UNCHANGED <<at, reader, settings, declared, label_pos, jump_targets>>

(* The targets of the jumps become known, and END is added.                *)
AssignTargets ==
    /\ stage = "targets"
    /\ \/ /\ \A j \in DOMAIN jump_targets : jump_targets[j] \in DOMAIN label_pos
          /\ instructions' =
                Append([i \in 1..Len(instructions) |->
                            IF i - 1 \in DOMAIN jump_targets
                            THEN [op |-> instructions[i].op,
                                  target |-> label_pos[jump_targets[i - 1]]]
                            ELSE instructions[i]],
                       [op |-> "END"])
          /\ stage' = "done"
          /\ UNCHANGED <<at, reader, settings, declared, label_pos, jump_targets>>
       \/ (\E j \in DOMAIN jump_targets : jump_targets[j] \notin DOMAIN label_pos) /\ Throw

Loaded == stage \in Ends /\ UNCHANGED vars

Next ==
    \/ Blank \/ Opens \/ Collects \/ EndOfFile
    \/ SetsCycleTime \/ SetsCycles \/ UnknownSetting \/ EndSettings
    \/ parse_mem \/ EndMem
    \/ parse_var \/ EndVar
    \/ InitConst \/ InitVar \/ InitUnknown \/ EndInit
    \/ Mnemonic \/ LabelLine \/ PushLine \/ PopLine \/ JumpLine \/ DroppedLine \/ LongLine
    \/ EndProgram \/ AssignTargets \/ Loaded

Spec == Init /\ [][Next]_vars

-----------------------------------------------------------------------------
(* The instructions of a list that is not finished: no jump has a target   *)
(* yet.                                                                    *)
Instruction(variables) ==
    [op : {"PUSH_const"}, value : Word]
    \cup [op : {"PUSH_var", "POP_var"}, var : variables]
    \cup [op : {"BINARY"}, alu : BinaryOps] \cup [op : {"UNARY"}, alu : UnaryOps]
    \cup [op : {"PUSH_special", "POP_discard", "DUP", "ATANXY", "LABEL"}]
    \cup [op : Jumps, target : {0}]

Constant == [d_type : ConstTypes, init : SUBSET Word]
Variable(memories) ==
    [mem : memories, data_type : DataTypes, cell : Word, index : Word \cup {0},
     init : SUBSET Word]

(* Types: the sections hold lines of the file, a variable lies in a        *)
(* declared memory, an instruction has an operand of its class, a label is *)
(* the index of an instruction.                                            *)
LoaderTypeOK ==
    /\ stage \in {"read", "targets"} \cup SectionNames \cup Ends
    /\ at \in Nat
    /\ cur_section \in SectionNames \cup {"none"}
    /\ section \in [SectionNames -> Seq(Seq(Text))]
    /\ cycle_time_ms \in Word \cup {1000} /\ cycles \in Word \cup {0}
    /\ const_map \in [DOMAIN const_map -> Constant]
    /\ var_map \in [DOMAIN var_map -> Variable(DOMAIN mem_map)]
    /\ stage # "done" => instructions \in Seq(Instruction(DOMAIN var_map))
    /\ \A n \in DOMAIN label_pos : label_pos[n] \in 0..Len(instructions) - 1

(* A file that is accepted is a program run() can execute: every operand   *)
(* is declared, every jump leads to a label, END stands last.  This is     *)
(* what module Machine assumes of its programs and initial values.         *)
LoadedIsWellFormed ==
    stage = "done" =>
        /\ WellFormedOver(instructions, Word, BinaryOps, UnaryOps, DOMAIN var_map)
        /\ \A v \in DOMAIN var_map : var_map[v].init \subseteq Word

(* The lines of a sequence at the positions P, in their order.             *)
Rank(P, i) == Cardinality({j \in P : j <= i})
Selected(s, P) ==
    [r \in 1..Cardinality(P) |-> s[CHOOSE i \in {j \in P : Rank(P, j) = r} : TRUE]]

(* The first n lines of the file: the headers of a section, and what       *)
(* follows a header up to the next one.                                    *)
Headers(s, n) == {i \in 1..n : file[i] = <<s>>}
Behind(h, n) ==
    {i \in h + 1..n : file[i] # <<>> /\ \A k \in h + 1..i : ~IsHeader(file[k])}

(* No line precedes all headers, and a section holds the lines behind one  *)
(* header of it: an earlier header of it has none.                         *)
BlocksOf(n) ==
    /\ \A i \in 1..n : file[i] # <<>> => \E h \in 1..i : IsHeader(file[h])
    /\ \A s \in SectionNames :
          \/ Headers(s, n) = {} /\ section[s] = <<>>
          \/ \E h \in Headers(s, n) :
                /\ section[s] = Selected(file, Behind(h, n))
                /\ \A g \in Headers(s, n) \ {h} : g < h /\ Behind(g, n) = {}

(* What is parsed as a section are the lines behind one header of it.  An  *)
(* earlier header may only have had no lines, and no line precedes all     *)
(* headers.                                                                *)
SectionsAreBlocks == stage \notin {"read", "failed"} => BlocksOf(Len(file))

(* The settings in force: the last CYCLES counts, the only CYCLE_MS does.  *)
(* Loading leaves the defined behaviour at one of two lines only, and the  *)
(* second comes when the settings are in force: a CYCLES without a value,  *)
(* and a variable of a free name in a declared memory whose cell is empty. *)
SettingLines(key) == {i \in 1..Len(section["__SETTINGS"]) : section["__SETTINGS"][i][1] = key}
InForce(lines, value, default) ==
    \/ lines = {} /\ value = default
    \/ \E i \in lines :
          (\A j \in lines : j <= i) /\ Numeral("u", section["__SETTINGS"][i][2]) = {value}
SettingsInForce ==
    /\ InForce(SettingLines("CYCLE_MS"), cycle_time_ms, 1000)
    /\ \A i, j \in SettingLines("CYCLE_MS") : i = j
    /\ InForce(SettingLines("CYCLES"), cycles, 0)
CellIsEmpty(l) ==
    /\ Len(l) = 3 /\ NameFree(l[3])
    /\ Len(AtParts(l[1])) = 2 /\ AtParts(l[1])[1] \in DOMAIN mem_map
    /\ DotParts(AtParts(l[1])[2]) = <<>>
SettingsApplied ==
    /\ stage \in (SectionNames \cup {"targets", "done"}) \ {"__SETTINGS"} => SettingsInForce
    /\ stage = "undefined" =>
          \/ at < Len(section["__SETTINGS"]) /\ section["__SETTINGS"][at + 1] = <<"CYCLES">>
          \/ /\ at < Len(section["__VAR"]) /\ CellIsEmpty(section["__VAR"][at + 1])
             /\ SettingsInForce

(* A name is that of one constant, of one variable or of a special one;    *)
(* one that a program both pushes and pops is a variable.  NULL is the     *)
(* exception: it is not reserved, so a constant of that name is pushed     *)
(* with its value and popped into nothing.                                 *)
NamesUnambiguous ==
    /\ DOMAIN const_map \cap DOMAIN var_map = {}
    /\ (DOMAIN const_map \cup DOMAIN var_map) \cap RESERVED = {}
    /\ stage = "done" =>
          LET lines == {section["__PROGRAM"][i] : i \in 1..Len(section["__PROGRAM"])}
              Names(first) == {l[2] : l \in {m \in lines : Len(m) = 2 /\ m[1] \in first}}
          IN  Names(Pushes) \cap Names(Pops) \subseteq DOMAIN var_map \cup {"NULL"}

(* When the program is parsed every constant has the value of its only     *)
(* line in __INIT; a variable has that of its last line, or none.          *)
InitLines(n) == {i \in 1..Len(section["__INIT"]) : section["__INIT"][i][1] = n}
ConstantsGivenOnce ==
    stage \in {"__PROGRAM", "targets", "done"} =>
        /\ \A c \in DOMAIN const_map : \E i \in InitLines(c) :
              /\ InitLines(c) = {i}
              /\ const_map[c].init = Numeral(const_map[c].d_type, section["__INIT"][i][2])
        /\ \A v \in DOMAIN var_map :
              \/ InitLines(v) = {} /\ var_map[v].init = {}
              \/ \E i \in InitLines(v) :
                    /\ \A j \in InitLines(v) : j <= i
                    /\ var_map[v].init = Values(section["__INIT"][i][2])

(* The instruction a line stands for; a jump leads to the line with its    *)
(* label.                                                                  *)
StandsFor(lines, i) ==
    LET l == lines[i]
        ins == instructions[i]
    IN  CASE Len(l) = 1 /\ Label(l[1]) # {} -> ins.op = "LABEL"
          [] Len(l) = 1 /\ Label(l[1]) = {} ->
                \/ ins \in [op : {"BINARY", "UNARY"}, alu : {l[1]}]
                \/ l[1] = "DUP" /\ ins = [op |-> "DUP"]
                \/ l[1] \in ArcTangents /\ ins = [op |-> "ATANXY"]
          [] Len(l) = 2 /\ l[1] \in Jumps ->
                /\ ins.op = l[1]
                /\ Len(lines[ins.target + 1]) = 1 /\ Label(lines[ins.target + 1][1]) = {l[2]}
          [] Len(l) = 2 /\ l[1] \in Pushes ->
                \/ ins = [op |-> "PUSH_var", var |-> l[2]]
                \/ ins.op = "PUSH_const" /\ const_map[l[2]].init = {ins.value}
                \/ ins.op = "PUSH_special" /\ l[2] \in RESERVED
          [] Len(l) = 2 /\ l[1] \in Pops ->
                \/ ins = [op |-> "POP_var", var |-> l[2]]
                \/ ins.op = "POP_discard" /\ l[2] \in RESERVED \cup {"NULL"}

(* The first n lines of __PROGRAM, without those of two words that are     *)
(* ignored.                                                                *)
KnownLines(n) ==
    {i \in 1..n : LET l == section["__PROGRAM"][i]
                  IN  Len(l) = 2 => l[1] \in Pushes \cup Pops \cup Jumps}

(* The machine executes the lines of __PROGRAM in their order, each as     *)
(* what it says, with one exception: lines of two words of which the first *)
(* is unknown are missing, and labels and jumps are counted without them.  *)
OnlyUnknownLinesMissing ==
    stage = "done" =>
        LET lines == Selected(section["__PROGRAM"], KnownLines(Len(section["__PROGRAM"])))
        IN  /\ Len(instructions) = Len(lines) + 1
            /\ \A i \in 1..Len(lines) : StandsFor(lines, i)

=============================================================================
