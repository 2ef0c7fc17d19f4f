---------------------------- MODULE LoaderProofs ----------------------------
(***************************************************************************)
(* Theorems about Loader, for all files and for every meaning of their     *)
(* words.                                                                  *)
(***************************************************************************)
EXTENDS Loader, FiniteSetTheorems, TLAPS

Stages == {"read", "targets"} \cup SectionNames \cup Ends
Sequences_ == Seq(Seq(Text))

ReaderOK ==
    /\ file \in Sequences_
    /\ cur_section \in SectionNames \cup {"none"}
    /\ section \in [SectionNames -> Sequences_]

SettingsOK == cycle_time_ms \in Word \cup {1000} /\ cycles \in Word \cup {0}

NamesOK(consts, variables) ==
    consts \cap variables = {} /\ (consts \cup variables) \cap RESERVED = {}
DeclaredOK ==
    /\ const_map \in [DOMAIN const_map -> Constant]
    /\ var_map \in [DOMAIN var_map -> Variable(DOMAIN mem_map)]
    /\ NamesOK(DOMAIN const_map, DOMAIN var_map)

(* The list under construction: jump_targets knows exactly the jumps,      *)
(* label_pos only labels.                                                  *)
ListOK(list, jumps, labels, variables) ==
    /\ list \in Seq(Instruction(variables))
    /\ \A i \in DOMAIN jumps : i \in 0..Len(list) - 1
    /\ \A i \in 1..Len(list) : list[i].op \in Jumps <=> i - 1 \in DOMAIN jumps
    /\ \A n \in DOMAIN labels :
          labels[n] \in 0..Len(list) - 1 /\ list[labels[n] + 1].op = "LABEL"

ProgramOK ==
    IF stage = "done"
    THEN /\ WellFormedOver(instructions, Word, BinaryOps, UnaryOps, DOMAIN var_map)
         /\ \A n \in DOMAIN label_pos : label_pos[n] \in 0..Len(instructions) - 1
    ELSE ListOK(instructions, jump_targets, label_pos, DOMAIN var_map)

(* The inductive invariant.                                                *)
IInv == stage \in Stages /\ at \in Nat /\ ReaderOK /\ SettingsOK /\ DeclaredOK /\ ProgramOK

-----------------------------------------------------------------------------
(* More variables leave an instruction what it is.                         *)
LEMMA InstructionsGrow ==
    ASSUME NEW v1, NEW v2, v1 \subseteq v2
    PROVE  Instruction(v1) \subseteq Instruction(v2)
BY DEF Instruction

LEMMA ListsGrow ==
    ASSUME NEW v1, NEW v2, v1 \subseteq v2, NEW l, NEW j, NEW n, ListOK(l, j, n, v1)
    PROVE  ListOK(l, j, n, v2)
<1>1. \A s \in Seq(Instruction(v1)) : s \in Seq(Instruction(v2))
  BY InstructionsGrow
<1> QED
  BY <1>1 DEF ListOK

(* A list is continued by an instruction that is no jump, ...              *)
LEMMA AppendPlain ==
    ASSUME NEW v, NEW l, NEW j, NEW n, ListOK(l, j, n, v),
           NEW i \in Instruction(v), i.op \notin Jumps
    PROVE  ListOK(Append(l, i), j, n, v)
<1> DEFINE m == Append(l, i)
<1>1. l \in Seq(Instruction(v)) /\ Len(l) \in Nat
  BY DEF ListOK
<1>2. /\ m \in Seq(Instruction(v)) /\ Len(m) = Len(l) + 1
      /\ m[Len(l) + 1] = i /\ \A k \in 1..Len(l) : m[k] = l[k]
  BY <1>1
<1> HIDE DEF m
<1>3. \A k \in DOMAIN j : k \in 0..Len(m) - 1
  BY <1>1, <1>2 DEF ListOK
<1>4. ASSUME NEW k \in 1..Len(m)
      PROVE  m[k].op \in Jumps <=> k - 1 \in DOMAIN j
  <2>1. CASE k = Len(l) + 1
    <3>1. k - 1 \notin DOMAIN j
      BY <1>1, <2>1 DEF ListOK
    <3> QED
      BY <1>2, <2>1, <3>1
  <2>2. CASE k # Len(l) + 1
    <3>1. k \in 1..Len(l)
      BY <1>1, <1>2, <2>2
    <3> QED
      BY <1>2, <3>1 DEF ListOK
  <2> QED
    BY <2>1, <2>2
<1>5. ASSUME NEW x \in DOMAIN n
      PROVE  n[x] \in 0..Len(m) - 1 /\ m[n[x] + 1].op = "LABEL"
  <2>1. n[x] \in 0..Len(l) - 1 /\ l[n[x] + 1].op = "LABEL"
    BY DEF ListOK
  <2>2. n[x] + 1 \in 1..Len(l)
    BY <1>1, <2>1
  <2> QED
    BY <1>1, <1>2, <2>1, <2>2
<1> QED
  BY <1>2, <1>3, <1>4, <1>5 DEF ListOK, m

(* ... by a label that is recorded, ...                                    *)
LEMMA AppendLabel ==
    ASSUME NEW v, NEW l, NEW j, NEW n, ListOK(l, j, n, v), NEW name
    PROVE  ListOK(Append(l, [op |-> "LABEL"]), j, With(n, name, Len(l)), v)
<1> DEFINE m == Append(l, [op |-> "LABEL"])
<1> DEFINE w == With(n, name, Len(l))
<1>1. ListOK(m, j, n, v)
  <2>1. [op |-> "LABEL"] \in Instruction(v)
    BY DEF Instruction
  <2>2. [op |-> "LABEL"].op \notin Jumps
    BY DEF Jumps, ConditionalJumps
  <2> QED
    BY <2>1, <2>2, AppendPlain
<1>2. /\ Len(l) \in Nat /\ Len(m) = Len(l) + 1 /\ m[Len(l) + 1] = [op |-> "LABEL"]
  <2> DEFINE i == [op |-> "LABEL"]
  <2>1. i \in Instruction(v) /\ l \in Seq(Instruction(v))
    BY DEF Instruction, ListOK
  <2> HIDE DEF i
  <2>2. Len(l) \in Nat /\ Len(Append(l, i)) = Len(l) + 1 /\ Append(l, i)[Len(l) + 1] = i
    BY <2>1
  <2> QED
    BY <2>2 DEF i
<1> HIDE DEF m
<1>3. /\ DOMAIN w = DOMAIN n \cup {name} /\ w[name] = Len(l)
      /\ \A x \in DOMAIN n : x # name => w[x] = n[x]
  BY DEF With
<1> HIDE DEF w
<1>4. ASSUME NEW x \in DOMAIN w
      PROVE  w[x] \in 0..Len(m) - 1 /\ m[w[x] + 1].op = "LABEL"
  <2>1. CASE x = name
    BY <1>2, <1>3, <2>1
  <2>2. CASE x # name
    BY <1>1, <1>3, <2>2 DEF ListOK
  <2> QED
    BY <2>1, <2>2
<1> QED
  BY <1>1, <1>4 DEF ListOK, m, w

(* ... or by a jump that is recorded.                                      *)
LEMMA AppendJump ==
    ASSUME NEW v, NEW l, NEW j, NEW n, ListOK(l, j, n, v), NEW op \in Jumps, NEW name
    PROVE  ListOK(Append(l, [op |-> op, target |-> 0]), With(j, Len(l), name), n, v)
<1> DEFINE i == [op |-> op, target |-> 0]
<1> DEFINE m == Append(l, i)
<1> DEFINE w == With(j, Len(l), name)
<1>1. l \in Seq(Instruction(v)) /\ Len(l) \in Nat
  BY DEF ListOK
<1>2. i \in Instruction(v) /\ i.op = op
  BY DEF Instruction
<1> HIDE DEF i
<1>3. /\ m \in Seq(Instruction(v)) /\ Len(m) = Len(l) + 1
      /\ m[Len(l) + 1] = i /\ \A k \in 1..Len(l) : m[k] = l[k]
  BY <1>1, <1>2
<1>4. DOMAIN w = DOMAIN j \cup {Len(l)}
  BY DEF With
<1> HIDE DEF m, w
<1>5. \A k \in DOMAIN w : k \in 0..Len(m) - 1
  BY <1>1, <1>3, <1>4 DEF ListOK
<1>6. ASSUME NEW k \in 1..Len(m)
      PROVE  m[k].op \in Jumps <=> k - 1 \in DOMAIN w
  <2>1. CASE k = Len(l) + 1
    BY <1>1, <1>2, <1>3, <1>4, <2>1
  <2>2. CASE k # Len(l) + 1
    <3>1. k \in 1..Len(l) /\ k - 1 # Len(l)
      BY <1>1, <1>3, <2>2
    <3> QED
      BY <1>3, <1>4, <3>1 DEF ListOK
  <2> QED
    BY <2>1, <2>2
<1>7. ASSUME NEW x \in DOMAIN n
      PROVE  n[x] \in 0..Len(m) - 1 /\ m[n[x] + 1].op = "LABEL"
  <2>1. n[x] \in 0..Len(l) - 1 /\ l[n[x] + 1].op = "LABEL"
    BY DEF ListOK
  <2>2. n[x] + 1 \in 1..Len(l)
    BY <1>1, <2>1
  <2> QED
    BY <1>1, <1>3, <2>1, <2>2
<1> QED
  BY <1>3, <1>5, <1>6, <1>7 DEF ListOK, m, w, i

(* The targets become known: a finished list is well formed.               *)
LEMMA TargetsAssigned ==
    ASSUME NEW v, NEW l, NEW j, NEW n, ListOK(l, j, n, v),
           \A k \in DOMAIN j : j[k] \in DOMAIN n,
           NEW p,
           p = Append([i \in 1..Len(l) |->
                          IF i - 1 \in DOMAIN j
                          THEN [op |-> l[i].op, target |-> n[j[i - 1]]] ELSE l[i]],
                      [op |-> "END"])
    PROVE  /\ WellFormedOver(p, Word, BinaryOps, UnaryOps, v)
           /\ \A x \in DOMAIN n : n[x] \in 0..Len(p) - 1
<1> DEFINE end == [op |-> "END"]
<1> DEFINE jump(i) == [op |-> l[i].op, target |-> n[j[i - 1]]]
<1> DEFINE q == [i \in 1..Len(l) |-> IF i - 1 \in DOMAIN j THEN jump(i) ELSE l[i]]
<1>1. l \in Seq(Instruction(v)) /\ Len(l) \in Nat
  BY DEF ListOK
<1>2. \A i \in 1..Len(l) : jump(i).op = l[i].op /\ jump(i).target = n[j[i - 1]]
  OBVIOUS
<1>3. end.op = "END"
  OBVIOUS
<1>4. p = Append(q, end)
  OBVIOUS
<1> HIDE DEF end, jump
<1>5. /\ Len(p) = Len(l) + 1 /\ p[Len(p)] = end
      /\ \A i \in 1..Len(l) : p[i] = IF i - 1 \in DOMAIN j THEN jump(i) ELSE l[i]
  <2>1. q \in Seq({q[i] : i \in 1..Len(l)} \cup {end}) /\ Len(q) = Len(l)
    BY <1>1
  <2>2. \A i \in 1..Len(l) : q[i] = IF i - 1 \in DOMAIN j THEN jump(i) ELSE l[i]
    OBVIOUS
  <2> HIDE DEF q
  <2>3. /\ Len(Append(q, end)) = Len(l) + 1 /\ Append(q, end)[Len(l) + 1] = end
        /\ \A i \in 1..Len(l) : Append(q, end)[i] = q[i]
    BY <1>1, <2>1
  <2> QED
    BY <1>4, <2>2, <2>3
<1> HIDE DEF q
<1>6. ASSUME NEW i \in 1..Len(l)
      PROVE  p[i].op = l[i].op /\ (l[i].op \notin Jumps => p[i] = l[i])
  BY <1>2, <1>5 DEF ListOK
<1>7. ASSUME NEW i \in 1..Len(l), l[i].op \in Jumps
      PROVE  p[i].target \in 0..Len(l) - 1 /\ p[p[i].target + 1].op = "LABEL"
  <2>1. i - 1 \in DOMAIN j
    BY <1>7 DEF ListOK
  <2>2. p[i].target = n[j[i - 1]] /\ j[i - 1] \in DOMAIN n
    BY <1>2, <1>5, <2>1
  <2>3. /\ p[i].target \in 0..Len(l) - 1
        /\ l[p[i].target + 1].op = "LABEL"
    BY <2>2 DEF ListOK
  <2>4. p[i].target + 1 \in 1..Len(l)
    BY <1>1, <2>3
  <2> QED
    BY <1>6, <2>3, <2>4
<1>8. ASSUME NEW i \in 1..Len(l)
      PROVE  /\ l[i].op \in PlainOps \cup ConditionalJumps
             /\ l[i].op = "PUSH_const" => l[i].value \in Word
             /\ l[i].op \in {"PUSH_var", "POP_var"} => l[i].var \in v
             /\ l[i].op = "BINARY" => l[i].alu \in BinaryOps
             /\ l[i].op = "UNARY" => l[i].alu \in UnaryOps
  <2>1. l[i] \in Instruction(v)
    BY <1>1
  <2> QED
    BY <2>1 DEF Instruction, PlainOps, Jumps, ConditionalJumps
<1>9. Jumps = ConditionalJumps \cup {"J"}
      /\ Jumps \cap {"PUSH_const", "PUSH_var", "POP_var", "BINARY", "UNARY"} = {}
  BY DEF Jumps, ConditionalJumps
<1>10. ASSUME NEW i \in 1..Len(p) - 1
       PROVE  /\ p[i].op \in PlainOps \cup ConditionalJumps
              /\ p[i].op = "PUSH_const" => p[i].value \in Word
              /\ p[i].op \in {"PUSH_var", "POP_var"} => p[i].var \in v
              /\ p[i].op = "BINARY" => p[i].alu \in BinaryOps
              /\ p[i].op = "UNARY" => p[i].alu \in UnaryOps
              /\ p[i].op \in ConditionalJumps \cup {"J"} =>
                    p[i].target \in 0..Len(p) - 2 /\ p[p[i].target + 1].op = "LABEL"
  <2>1. i \in 1..Len(l) /\ Len(p) - 2 = Len(l) - 1
    BY <1>1, <1>5
  <2>2. CASE l[i].op \in Jumps
    BY <1>6, <1>7, <1>8, <1>9, <2>1, <2>2
  <2>3. CASE l[i].op \notin Jumps
    BY <1>6, <1>8, <1>9, <2>1, <2>3
  <2> QED
    BY <2>2, <2>3
<1>11. Len(p) \in Nat \ {0} /\ p[Len(p)].op = "END"
  BY <1>1, <1>3, <1>5
<1>12. \A x \in DOMAIN n : n[x] \in 0..Len(p) - 1
  BY <1>1, <1>5 DEF ListOK
<1> QED
  BY <1>10, <1>11, <1>12 DEF WellFormedOver

-----------------------------------------------------------------------------
(* A line that is parsed is a sequence of words.                           *)
LEMMA LineTyped ==
    ASSUME ReaderOK, at \in Nat, NEW s \in SectionNames, InSection(s)
    PROVE  stage = s /\ Line \in Seq(Text) /\ at + 1 \in Nat
<1>1. section[s] \in Seq(Seq(Text)) /\ at + 1 \in 1..Len(section[s])
  BY DEF ReaderOK, Sequences_, InSection
<1> QED
  BY <1>1 DEF InSection, Line

(* The sections are no ends, and all of them are stages.                   *)
LEMMA StageNames ==
    /\ SectionNames \subseteq Stages \ {"done"}
    /\ {"read", "targets", "failed", "undefined"} \subseteq Stages \ {"done"}
    /\ SectionNames \cap {"read", "targets", "done"} = {}
BY DEF Stages, SectionNames, Ends

(* A step that leaves settings, declarations and program alone.            *)
LEMMA OnlyStage ==
    ASSUME IInv, stage # "done", stage' \in Stages \ {"done"}, at' \in Nat,
           ReaderOK', UNCHANGED <<settings, declared, program>>
    PROVE  IInv'
<1>1. SettingsOK'
  BY DEF IInv, SettingsOK, settings
<1>2. DeclaredOK'
  BY DEF IInv, DeclaredOK, declared
<1>3. ProgramOK'
  BY DEF IInv, ProgramOK, declared, program
<1> QED
  BY <1>1, <1>2, <1>3 DEF IInv

LEMMA ThrowInv ==
    ASSUME IInv, stage # "done", Throw
    PROVE  IInv'
<1>1. ReaderOK' /\ at' \in Nat /\ stage' \in Stages \ {"done"}
  BY StageNames DEF IInv, Throw, ReaderOK, reader
<1> QED
  BY <1>1, OnlyStage DEF Throw

LEMMA EnterInv ==
    ASSUME IInv, stage # "done", NEW s \in Stages \ {"done"}, Enter(s)
    PROVE  IInv'
<1>1. ReaderOK' /\ at' \in Nat
  BY DEF IInv, Enter, ReaderOK, reader
<1> QED
  BY <1>1, OnlyStage DEF Enter

(* The loop that reads the file.                                           *)
LEMMA ReadingInv ==
    ASSUME IInv, Blank \/ Opens \/ Collects \/ EndOfFile
    PROVE  IInv'
<1>1. CASE EndOfFile
  BY <1>1, EnterInv, StageNames DEF EndOfFile, SectionNames
<1>2. CASE stage # "done" /\ Throw
  BY <1>2, ThrowInv
<1>3. CASE stage = "read" /\ ReadOn /\ ReaderOK'
  <2>1. at' \in Nat /\ stage' \in Stages \ {"done"} /\ stage # "done"
    BY <1>3, StageNames DEF IInv, ReadOn
  <2> QED
    BY <1>3, <2>1, OnlyStage DEF ReadOn
<1>4. ASSUME Blank
      PROVE  stage = "read" /\ ReadOn /\ ReaderOK'
  BY <1>4 DEF IInv, Blank, Reading, ReadOn, ReaderOK
<1>5. ASSUME Opens
      PROVE  stage = "read" /\ (Throw \/ (ReadOn /\ ReaderOK'))
  BY <1>5 DEF IInv, Opens, Reading, IsHeader, ReadOn, ReaderOK
<1>6. ASSUME Collects
      PROVE  stage = "read" /\ (Throw \/ (ReadOn /\ ReaderOK'))
  <2>1. stage = "read" /\ file[at + 1] \in Seq(Text)
    <3>1. at + 1 \in 1..Len(file) /\ file \in Seq(Seq(Text)) /\ stage = "read"
      BY <1>6 DEF IInv, Collects, Reading, ReaderOK, Sequences_
    <3> QED
      BY <3>1
  <2>2. CASE cur_section = "none"
    BY <1>6, <2>1, <2>2 DEF Collects
  <2>3. CASE cur_section # "none"
    <3>1. /\ cur_section \in SectionNames
          /\ section' = [section EXCEPT ![cur_section] = Append(@, file[at + 1])]
          /\ ReadOn /\ UNCHANGED cur_section
      BY <1>6, <2>3 DEF Collects, IInv, ReaderOK
    <3>2. Append(section[cur_section], file[at + 1]) \in Sequences_
      BY <2>1, <3>1 DEF IInv, ReaderOK, Sequences_
    <3>3. section' \in [SectionNames -> Sequences_]
      BY <3>1, <3>2 DEF IInv, ReaderOK
    <3> QED
      BY <2>1, <3>1, <3>3 DEF IInv, ReaderOK, ReadOn
  <2> QED
    BY <2>2, <2>3
<1> QED
  BY <1>1, <1>2, <1>3, <1>4, <1>5, <1>6

(* A step to the next line of a section.                                   *)
LEMMA ParsedInv ==
    ASSUME IInv, stage # "done", Parsed, SettingsOK', DeclaredOK', ProgramOK'
    PROVE  IInv'
<1>1. ReaderOK' /\ at' \in Nat /\ stage' \in Stages
  BY DEF IInv, Parsed, ReaderOK, reader
<1> QED
  BY <1>1 DEF IInv

LEMMA SameSettings ==
    ASSUME IInv, UNCHANGED settings
    PROVE  SettingsOK'
BY DEF IInv, SettingsOK, settings

LEMMA SameDeclared ==
    ASSUME IInv, UNCHANGED declared
    PROVE  DeclaredOK'
BY DEF IInv, DeclaredOK, declared

LEMMA SameProgram ==
    ASSUME IInv, stage # "done", stage' # "done", UNCHANGED program,
           DOMAIN var_map \subseteq DOMAIN var_map'
    PROVE  ProgramOK'
<1>1. ListOK(instructions, jump_targets, label_pos, DOMAIN var_map)
  BY DEF IInv, ProgramOK
<1>2. ListOK(instructions, jump_targets, label_pos, DOMAIN var_map')
  BY <1>1, ListsGrow
<1> QED
  BY <1>2 DEF ProgramOK, program

LEMMA NumeralWord ==
    ASSUME NEW l \in Seq(Text), NEW k \in 1..Len(l), NEW t \in ConstTypes
    PROVE  Numeral(t, l[k]) \subseteq Word
<1>1. l[k] \in Text
  OBVIOUS
<1> QED
  BY <1>1, NumeralAssumption

(* The settings.                                                           *)
LEMMA SettingsInv ==
    ASSUME IInv, SetsCycleTime \/ SetsCycles \/ UnknownSetting \/ EndSettings
    PROVE  IInv'
<1> DEFINE S == "__SETTINGS"
<1>0. S \in SectionNames /\ "u" \in ConstTypes
  BY DEF SectionNames, ConstTypes
<1>1. CASE stage # "done" /\ Throw
  BY <1>1, ThrowInv
<1>2. CASE /\ InSection(S) /\ Parsed /\ SettingsOK' /\ UNCHANGED <<declared, program>>
  <2>1. stage # "done" /\ stage' # "done"
    BY <1>2, <1>0, StageNames DEF InSection, Parsed
  <2>2. DeclaredOK' /\ ProgramOK'
    BY <1>2, <2>1, SameDeclared, SameProgram DEF declared
  <2> QED
    BY <1>2, <2>1, <2>2, ParsedInv
<1>3. ASSUME InSection(S)
      PROVE  stage = S /\ stage # "done" /\ Line \in Seq(Text) /\ Len(Line) \in Nat
  BY <1>0, <1>3, LineTyped, StageNames DEF IInv
<1>4. CASE SetsCycleTime
  <2>1. InSection(S)
    BY <1>4 DEF SetsCycleTime
  <2>2. CycleTimes \subseteq Word
    BY <1>0, <1>3, <2>1, NumeralWord DEF CycleTimes
  <2>3. CASE cycle_time_ms' \in CycleTimes /\ Parsed /\ UNCHANGED <<cycles, declared, program>>
    <3>1. SettingsOK'
      BY <2>2, <2>3 DEF IInv, SettingsOK
    <3> QED
      BY <1>2, <2>1, <2>3, <3>1
  <2> QED
    BY <1>1, <1>3, <1>4, <2>1, <2>3 DEF SetsCycleTime
<1>5. CASE SetsCycles
  <2>1. InSection(S)
    BY <1>5 DEF SetsCycles
  <2>2. CASE /\ Len(Line) > 1 /\ cycles' \in Numeral("u", Line[2])
             /\ Parsed /\ UNCHANGED <<cycle_time_ms, applied_settings, declared, program>>
    <3>1. Numeral("u", Line[2]) \subseteq Word
      BY <1>0, <1>3, <2>1, <2>2, NumeralWord
    <3>2. SettingsOK'
      BY <2>2, <3>1 DEF IInv, SettingsOK
    <3> QED
      BY <1>2, <2>1, <2>2, <3>2
  <2>3. CASE /\ stage' = "undefined" /\ UNCHANGED <<at, reader, settings, declared, program>>
    <3>1. ReaderOK' /\ at' \in Nat /\ stage' \in Stages \ {"done"}
      BY <2>3, StageNames DEF IInv, ReaderOK, reader
    <3> QED
      BY <1>3, <2>1, <2>3, <3>1, OnlyStage
  <2> QED
    BY <1>1, <1>3, <1>5, <2>1, <2>2, <2>3 DEF SetsCycles, Undefined
<1>6. CASE UnknownSetting
  BY <1>1, <1>3, <1>6 DEF UnknownSetting
<1>7. CASE EndSettings
  <2>1. stage # "done" /\ "__MEM" \in Stages \ {"done"}
    BY <1>7, StageNames DEF EndSettings, AtEndOf, SectionNames
  <2> QED
    BY <1>7, <2>1, EnterInv DEF EndSettings
<1> QED
  BY <1>4, <1>5, <1>6, <1>7

(* The memories.                                                           *)
LEMMA MemInv ==
    ASSUME IInv, parse_mem \/ EndMem
    PROVE  IInv'
<1> DEFINE S == "__MEM"
<1>0. S \in SectionNames /\ stage = S /\ stage # "done"
  BY StageNames DEF SectionNames, parse_mem, EndMem, InSection, AtEndOf
<1>1. CASE Throw
  BY <1>0, <1>1, ThrowInv
<1>2. ASSUME NEW m, mem_map' = With(mem_map, MemName, m), Parsed,
             UNCHANGED <<settings, var_map, const_map, program>>
      PROVE  IInv'
  <2>1. DOMAIN mem_map \subseteq DOMAIN mem_map'
    BY <1>2 DEF With
  <2>2. Variable(DOMAIN mem_map) \subseteq Variable(DOMAIN mem_map')
    BY <2>1 DEF Variable
  <2>3. var_map \in [DOMAIN var_map -> Variable(DOMAIN mem_map')]
    BY <2>2 DEF IInv, DeclaredOK
  <2>4. DeclaredOK'
    BY <1>2, <2>3 DEF IInv, DeclaredOK
  <2>5. SettingsOK'
    BY <1>2, SameSettings
  <2>6. ProgramOK'
    BY <1>0, <1>2, SameProgram DEF Parsed
  <2> QED
    BY <1>0, <1>2, <2>4, <2>5, <2>6, ParsedInv
<1>3. CASE EndMem
  <2>1. "__VAR" \in Stages \ {"done"}
    BY StageNames DEF SectionNames
  <2> QED
    BY <1>0, <1>3, <2>1, EnterInv DEF EndMem
<1> QED
  BY <1>1, <1>2, <1>3 DEF parse_mem

(* A variable that is accepted has a free name and lies in a memory.       *)
LEMMA EntryOK ==
    ASSUME Line \in Seq(Text), NEW c \in VarCells, NEW i \in VarIndices
    PROVE  VarEntry(c, i) \in Variable(DOMAIN mem_map) /\ NameFree(Line[3])
<1>1. VarAccepted /\ "u" \in ConstTypes
  BY DEF VarCells, ConstTypes
<1>2. VarCell \in Seq(Text)
  <2>1. Line[1] \in Text
    BY <1>1 DEF VarAccepted, VarHasMemory
  <2>2. AtParts(Line[1]) \in Seq(Text)
    BY <2>1, NumeralAssumption
  <2>3. AtParts(Line[1])[2] \in Text
    BY <1>1, <2>2 DEF VarAccepted, VarHasMemory
  <2> QED
    BY <2>3, NumeralAssumption DEF VarCell
<1>3. VarType \in DataTypes
  <2>1. {"le64", "le1"} \subseteq DataTypes
    BY DEF DataTypes, BitTypes
  <2> QED
    BY <1>1, <2>1 DEF VarAccepted, VarType
<1>4. c \in Word
  <2>1. 1 \in 1..Len(VarCell)
    BY <1>1 DEF VarAccepted, VarHasMemory
  <2> QED
    BY <1>1, <1>2, <2>1, NumeralWord DEF VarCells
<1>5. i \in Word \cup {0}
  <2>1. CASE IsBit
    <3>1. 2 \in 1..Len(VarCell)
      BY <1>1, <2>1 DEF VarAccepted, VarHasMemory
    <3> QED
      BY <1>1, <1>2, <2>1, <3>1, NumeralWord DEF VarIndices
  <2>2. CASE ~IsBit
    BY <2>2 DEF VarIndices
  <2> QED
    BY <2>1, <2>2
<1> QED
  BY <1>1, <1>3, <1>4, <1>5 DEF Variable, VarEntry, VarAccepted, VarHasMemory

(* The declarations.                                                       *)
LEMMA VarInv ==
    ASSUME IInv, parse_var \/ EndVar
    PROVE  IInv'
<1> DEFINE S == "__VAR"
<1>0. S \in SectionNames /\ stage = S /\ stage # "done"
  BY StageNames DEF SectionNames, parse_var, EndVar, InSection, AtEndOf
<1>1. CASE Throw
  BY <1>0, <1>1, ThrowInv
<1>2. CASE /\ ConstAccepted
           /\ const_map' = With(const_map, Line[3], [d_type |-> Line[2], init |-> {}])
           /\ Parsed /\ UNCHANGED <<settings, mem_map, var_map, program>>
  <2> DEFINE c == [d_type |-> Line[2], init |-> {}]
  <2>1. Line[2] \in ConstTypes /\ NameFree(Line[3])
    BY <1>2 DEF ConstAccepted
  <2>2. c \in Constant
    BY <2>1 DEF Constant
  <2> HIDE DEF c
  <2>3. DOMAIN const_map' = DOMAIN const_map \cup {Line[3]}
    BY <1>2 DEF With
  <2>4. const_map' \in [DOMAIN const_map' -> Constant]
    BY <1>2, <2>2 DEF IInv, DeclaredOK, With, c
  <2>5. NamesOK(DOMAIN const_map', DOMAIN var_map')
    BY <1>2, <2>1, <2>3 DEF IInv, DeclaredOK, NamesOK, NameFree
  <2>6. DeclaredOK'
    BY <1>2, <2>4, <2>5 DEF IInv, DeclaredOK
  <2>7. SettingsOK'
    BY <1>2, SameSettings
  <2>8. ProgramOK'
    BY <1>0, <1>2, SameProgram DEF Parsed
  <2> QED
    BY <1>0, <1>2, <2>6, <2>7, <2>8, ParsedInv
<1>3. ASSUME InSection(S), NEW c \in VarCells, NEW i \in VarIndices,
             var_map' = With(var_map, Line[3], VarEntry(c, i)), Parsed,
             UNCHANGED <<settings, mem_map, const_map, program>>
      PROVE  IInv'
  <2>1. VarEntry(c, i) \in Variable(DOMAIN mem_map) /\ NameFree(Line[3])
    BY <1>0, <1>3, LineTyped, EntryOK DEF IInv
  <2>2. DOMAIN var_map' = DOMAIN var_map \cup {Line[3]}
    BY <1>3 DEF With
  <2>3. var_map' \in [DOMAIN var_map' -> Variable(DOMAIN mem_map')]
    BY <1>3, <2>1 DEF IInv, DeclaredOK, With
  <2>4. NamesOK(DOMAIN const_map', DOMAIN var_map')
    BY <1>3, <2>1, <2>2 DEF IInv, DeclaredOK, NamesOK, NameFree
  <2>5. DeclaredOK'
    BY <1>3, <2>3, <2>4 DEF IInv, DeclaredOK
  <2>6. SettingsOK'
    BY <1>3, SameSettings
  <2>7. ProgramOK'
    BY <1>0, <1>3, <2>2, SameProgram DEF Parsed
  <2> QED
    BY <1>0, <1>3, <2>5, <2>6, <2>7, ParsedInv
<1>4. CASE EndVar
  <2>1. "__INIT" \in Stages \ {"done"}
    BY StageNames DEF SectionNames
  <2> QED
    BY <1>0, <1>4, <2>1, EnterInv DEF EndVar
<1>5. CASE InSection(S) /\ Undefined
  <2>1. ReaderOK' /\ at' \in Nat /\ stage' \in Stages \ {"done"}
    BY <1>5, StageNames DEF IInv, ReaderOK, reader, Undefined
  <2> QED
    BY <1>0, <1>5, <2>1, OnlyStage DEF Undefined
<1> QED
  BY <1>1, <1>2, <1>3, <1>4, <1>5 DEF parse_var

(* The initial values.                                                     *)
LEMMA InitInv ==
    ASSUME IInv, InitConst \/ InitVar \/ InitUnknown \/ EndInit
    PROVE  IInv'
<1> DEFINE S == "__INIT"
<1>0. S \in SectionNames /\ stage = S /\ stage # "done"
  BY StageNames DEF SectionNames, InitConst, InitVar, InitUnknown, EndInit, InSection, AtEndOf
<1>1. CASE Throw
  BY <1>0, <1>1, ThrowInv
<1>2. ASSUME InSection(S), Len(Line) = 2, NEW t \in ConstTypes
      PROVE  Numeral(t, Line[2]) \subseteq Word
  <2>1. Line \in Seq(Text)
    BY <1>0, <1>2, LineTyped DEF IInv
  <2>2. 2 \in 1..Len(Line)
    BY <1>2
  <2> QED
    BY <1>2, <2>1, <2>2, NumeralWord
<1>3. CASE InitConst
  <2> DEFINE n == Line[1]
  <2> HIDE DEF n
  <2>1. InSection(S) /\ Len(Line) = 2 /\ n \in DOMAIN const_map
    BY <1>3 DEF InitConst, n
  <2>2. ConstValues \subseteq Word
    <3>1. const_map[n].d_type \in ConstTypes
      BY <2>1 DEF IInv, DeclaredOK, Constant
    <3> QED
      BY <1>2, <2>1, <3>1 DEF ConstValues, n
  <2>3. ASSUME NEW x \in ConstValues,
               const_map' = [const_map EXCEPT ![n].init = {x}],
               Parsed, UNCHANGED <<settings, mem_map, var_map, program>>
        PROVE  IInv'
    <3>1. DOMAIN const_map' = DOMAIN const_map
      BY <2>3
    <3>2. const_map' \in [DOMAIN const_map -> Constant]
      BY <2>1, <2>2, <2>3 DEF IInv, DeclaredOK, Constant
    <3>3. DeclaredOK'
      BY <2>3, <3>1, <3>2 DEF IInv, DeclaredOK
    <3>4. SettingsOK'
      BY <2>3, SameSettings
    <3>5. ProgramOK'
      BY <1>0, <2>3, SameProgram DEF Parsed
    <3> QED
      BY <1>0, <2>3, <3>3, <3>4, <3>5, ParsedInv
  <2> QED
    BY <1>1, <1>3, <2>3 DEF InitConst, n
<1>4. CASE InitVar
  <2> DEFINE n == Line[1]
  <2> HIDE DEF n
  <2>1. InSection(S) /\ Len(Line) = 2 /\ n \in DOMAIN var_map
    BY <1>4 DEF InitVar, n
  <2>2. Values(Line[2]) \subseteq Word
    <3>1. {"i", "u", "f"} \subseteq ConstTypes
      BY DEF ConstTypes
    <3> QED
      BY <1>2, <2>1, <3>1 DEF Values
  <2>3. ASSUME NEW x \in Values(Line[2]),
               var_map' = [var_map EXCEPT ![n].init = {x}],
               Parsed, UNCHANGED <<settings, mem_map, const_map, program>>
        PROVE  IInv'
    <3>1. DOMAIN var_map' = DOMAIN var_map
      BY <2>3
    <3>2. var_map' \in [DOMAIN var_map -> Variable(DOMAIN mem_map)]
      BY <2>1, <2>2, <2>3 DEF IInv, DeclaredOK, Variable
    <3>3. DeclaredOK'
      BY <2>3, <3>1, <3>2 DEF IInv, DeclaredOK
    <3>4. SettingsOK'
      BY <2>3, SameSettings
    <3>5. ProgramOK'
      BY <1>0, <2>3, <3>1, SameProgram DEF Parsed
    <3> QED
      BY <1>0, <2>3, <3>3, <3>4, <3>5, ParsedInv
  <2> QED
    BY <1>1, <1>4, <2>3 DEF InitVar, n
<1>5. CASE InitUnknown
  BY <1>1, <1>5 DEF InitUnknown
<1>6. CASE EndInit
  <2>1. "__PROGRAM" \in Stages \ {"done"}
    BY StageNames DEF SectionNames
  <2> QED
    BY <1>0, <1>1, <1>6, <2>1, EnterInv DEF EndInit
<1> QED
  BY <1>3, <1>4, <1>5, <1>6

(* A line of the program that yields a list again.                         *)
LEMMA ListInv ==
    ASSUME IInv, stage # "done", Parsed, UNCHANGED <<settings, declared>>,
           ListOK(instructions', jump_targets', label_pos', DOMAIN var_map)
    PROVE  IInv'
<1>1. SettingsOK' /\ DeclaredOK'
  BY SameSettings, SameDeclared
<1>2. ProgramOK'
  BY DEF ProgramOK, Parsed, declared
<1> QED
  BY <1>1, <1>2, ParsedInv

LEMMA EmitInv ==
    ASSUME IInv, stage # "done", NEW i \in Instruction(DOMAIN var_map), i.op \notin Jumps,
           Emit(i), UNCHANGED <<label_pos, jump_targets>>
    PROVE  IInv'
<1>1. ListOK(instructions, jump_targets, label_pos, DOMAIN var_map)
  BY DEF IInv, ProgramOK
<1>2. ListOK(Append(instructions, i), jump_targets, label_pos, DOMAIN var_map)
  BY <1>1, AppendPlain
<1> QED
  BY <1>2, ListInv DEF Emit

(* The instructions without a jump target.                                 *)
LEMMA PlainInstructions ==
    ASSUME NEW v
    PROVE  /\ \A a \in BinaryOps :
                 LET i == [op |-> "BINARY", alu |-> a] IN i \in Instruction(v) /\ i.op \notin Jumps
           /\ \A a \in UnaryOps :
                 LET i == [op |-> "UNARY", alu |-> a] IN i \in Instruction(v) /\ i.op \notin Jumps
           /\ \A x \in Word :
                 LET i == [op |-> "PUSH_const", value |-> x] IN i \in Instruction(v) /\ i.op \notin Jumps
           /\ \A o \in {"PUSH_var", "POP_var"}, x \in v :
                 LET i == [op |-> o, var |-> x] IN i \in Instruction(v) /\ i.op \notin Jumps
           /\ \A o \in {"PUSH_special", "POP_discard", "DUP", "ATANXY", "LABEL"} :
                 LET i == [op |-> o] IN i \in Instruction(v) /\ i.op \notin Jumps
BY DEF Instruction, Jumps, ConditionalJumps

LEMMA MnemonicInv ==
    ASSUME IInv, Mnemonic
    PROVE  IInv'
<1>0. stage # "done"
  BY DEF Mnemonic, InProgram, InSection
<1>1. \/ Line[1] \in BinaryOps /\ Emit([op |-> "BINARY", alu |-> Line[1]])
      \/ Line[1] \in UnaryOps /\ Emit([op |-> "UNARY", alu |-> Line[1]])
      \/ Emit([op |-> "DUP"])
      \/ Emit([op |-> "ATANXY"])
  BY DEF Mnemonic
<1>2. UNCHANGED <<label_pos, jump_targets>>
  BY DEF Mnemonic
<1> QED
  BY <1>0, <1>1, <1>2, EmitInv, PlainInstructions

LEMMA PushInv ==
    ASSUME IInv, PushLine
    PROVE  IInv'
<1>0. stage # "done"
  BY DEF PushLine, TwoWords, InProgram, InSection
<1> DEFINE name == Line[2]
<1>1. CASE Throw
  BY <1>0, <1>1, ThrowInv
<1>2. CASE UNCHANGED <<label_pos, jump_targets>> /\ name \in DOMAIN const_map
           /\ \E x \in const_map[name].init : Emit([op |-> "PUSH_const", value |-> x])
  <2>1. const_map[name].init \subseteq Word
    BY <1>2 DEF IInv, DeclaredOK, Constant
  <2> QED
    BY <1>0, <1>2, <2>1, EmitInv, PlainInstructions
<1>3. CASE UNCHANGED <<label_pos, jump_targets>> /\ name \in DOMAIN var_map
           /\ Emit([op |-> "PUSH_var", var |-> name])
  BY <1>0, <1>3, EmitInv, PlainInstructions
<1>4. CASE UNCHANGED <<label_pos, jump_targets>> /\ Emit([op |-> "PUSH_special"])
  BY <1>0, <1>4, EmitInv, PlainInstructions
<1> QED
  BY <1>1, <1>2, <1>3, <1>4, Zenon DEF PushLine

LEMMA PopInv ==
    ASSUME IInv, PopLine
    PROVE  IInv'
<1>0. stage # "done"
  BY DEF PopLine, TwoWords, InProgram, InSection
<1> DEFINE name == Line[2]
<1>1. CASE Throw
  BY <1>0, <1>1, ThrowInv
<1>2. CASE UNCHANGED <<label_pos, jump_targets>> /\ name \in DOMAIN var_map
           /\ Emit([op |-> "POP_var", var |-> name])
  BY <1>0, <1>2, EmitInv, PlainInstructions
<1>3. CASE UNCHANGED <<label_pos, jump_targets>> /\ Emit([op |-> "POP_discard"])
  BY <1>0, <1>3, EmitInv, PlainInstructions
<1> QED
  BY <1>1, <1>2, <1>3, Zenon DEF PopLine

LEMMA LabelAndJumpInv ==
    ASSUME IInv, LabelLine \/ JumpLine \/ DroppedLine
    PROVE  IInv'
<1>0. stage # "done" /\ ListOK(instructions, jump_targets, label_pos, DOMAIN var_map)
  BY DEF IInv, ProgramOK, LabelLine, JumpLine, DroppedLine, TwoWords, InProgram, InSection
<1>1. CASE Throw
  BY <1>0, <1>1, ThrowInv
<1>2. ASSUME NEW n, label_pos' = With(label_pos, n, Len(instructions)),
             Emit([op |-> "LABEL"]), UNCHANGED jump_targets
      PROVE  IInv'
  <2>1. ListOK(instructions', jump_targets', label_pos', DOMAIN var_map)
    BY <1>0, <1>2, AppendLabel DEF Emit
  <2> QED
    BY <1>0, <1>2, <2>1, ListInv DEF Emit
<1>3. CASE JumpLine
  <2> DEFINE op == Line[1]
  <2> HIDE DEF op
  <2>1. /\ op \in Jumps /\ Emit([op |-> op, target |-> 0])
        /\ jump_targets' = With(jump_targets, Len(instructions), Line[2])
        /\ UNCHANGED label_pos
    BY <1>3 DEF JumpLine, TwoWords, op
  <2>2. ListOK(instructions', jump_targets', label_pos', DOMAIN var_map)
    BY <1>0, <2>1, AppendJump DEF Emit
  <2> QED
    BY <1>0, <2>1, <2>2, ListInv DEF Emit
<1>4. CASE DroppedLine
  BY <1>0, <1>4, ListInv DEF DroppedLine, program
<1> QED
  BY <1>1, <1>2, <1>3, <1>4 DEF LabelLine

LEMMA EndProgramInv ==
    ASSUME IInv, LongLine \/ EndProgram \/ AssignTargets
    PROVE  IInv'
<1>0. stage # "done"
  BY StageNames DEF LongLine, EndProgram, AssignTargets, InProgram, InSection, AtEndOf
<1>1. CASE Throw
  BY <1>0, <1>1, ThrowInv
<1>2. CASE EndProgram
  BY <1>0, <1>2, EnterInv, StageNames DEF EndProgram
<1>3. CASE /\ \A j \in DOMAIN jump_targets : jump_targets[j] \in DOMAIN label_pos
           /\ instructions' =
                 Append([i \in 1..Len(instructions) |->
                             IF i - 1 \in DOMAIN jump_targets
                             THEN [op |-> instructions[i].op,
                                   target |-> label_pos[jump_targets[i - 1]]]
                             ELSE instructions[i]],
                        [op |-> "END"])
           /\ stage' = "done"
           /\ UNCHANGED <<at, reader, settings, declared, label_pos, jump_targets>>
  <2>1. ListOK(instructions, jump_targets, label_pos, DOMAIN var_map)
    BY <1>0 DEF IInv, ProgramOK
  <2>2. ProgramOK'
    <3>1. /\ WellFormedOver(instructions', Word, BinaryOps, UnaryOps, DOMAIN var_map)
          /\ \A n \in DOMAIN label_pos : label_pos[n] \in 0..Len(instructions') - 1
      <4> DEFINE p == instructions'
      <4>1. /\ \A k \in DOMAIN jump_targets : jump_targets[k] \in DOMAIN label_pos
            /\ p = Append([i \in 1..Len(instructions) |->
                              IF i - 1 \in DOMAIN jump_targets
                              THEN [op |-> instructions[i].op,
                                    target |-> label_pos[jump_targets[i - 1]]]
                              ELSE instructions[i]],
                          [op |-> "END"])
        BY <1>3
      <4> HIDE DEF p
      <4> QED
        BY <2>1, <4>1, TargetsAssigned, ZenonT(30) DEF p
    <3> QED
      BY <1>3, <3>1 DEF ProgramOK, declared
  <2>3. stage' \in Stages /\ at' \in Nat /\ ReaderOK'
    BY <1>3 DEF IInv, ReaderOK, reader, Stages, Ends
  <2> QED
    BY <1>3, <2>2, <2>3, SameSettings, SameDeclared DEF IInv
<1> QED
  BY <1>1, <1>2, <1>3 DEF LongLine, AssignTargets

-----------------------------------------------------------------------------
LEMMA Initially == Init => IInv
<1> SUFFICES ASSUME Init PROVE IInv
  OBVIOUS
<1>1. stage \in Stages /\ at \in Nat
  BY DEF Init, Stages
<1>2. ReaderOK
  BY FilesAssumption DEF Init, ReaderOK, Sequences_
<1>3. SettingsOK
  BY DEF Init, SettingsOK
<1>4. DeclaredOK
  BY DEF Init, DeclaredOK, NoNames, NamesOK
<1>5. ProgramOK
  BY DEF Init, ProgramOK, ListOK, NoNames
<1> QED
  BY <1>1, <1>2, <1>3, <1>4, <1>5 DEF IInv

LEMMA Inductive == IInv /\ [Next]_vars => IInv'
<1> SUFFICES ASSUME IInv, [Next]_vars PROVE IInv'
  OBVIOUS
<1>1. CASE UNCHANGED vars
  BY <1>1 DEF vars, reader, settings, declared, program, IInv, ReaderOK, SettingsOK,
              DeclaredOK, ProgramOK
<1>2. CASE Blank \/ Opens \/ Collects \/ EndOfFile
  BY <1>2, ReadingInv
<1>3. CASE SetsCycleTime \/ SetsCycles \/ UnknownSetting \/ EndSettings
  BY <1>3, SettingsInv
<1>4. CASE parse_mem \/ EndMem
  BY <1>4, MemInv
<1>5. CASE parse_var \/ EndVar
  BY <1>5, VarInv
<1>6. CASE InitConst \/ InitVar \/ InitUnknown \/ EndInit
  BY <1>6, InitInv
<1>7. CASE Mnemonic \/ PushLine \/ PopLine
  BY <1>7, MnemonicInv, PushInv, PopInv
<1>8. CASE LabelLine \/ JumpLine \/ DroppedLine
  BY <1>8, LabelAndJumpInv
<1>9. CASE LongLine \/ EndProgram \/ AssignTargets
  BY <1>9, EndProgramInv
<1>10. CASE Loaded
  BY <1>1, <1>10 DEF Loaded
<1> QED
  BY <1>1, <1>2, <1>3, <1>4, <1>5, <1>6, <1>7, <1>8, <1>9, <1>10 DEF Next

LEMMA Invariance == Spec => []IInv
BY Initially, Inductive, PTL DEF Spec

(* Types: what load_file has read and parsed so far is well typed at every *)
(* line of every file, whatever the file says.                             *)
THEOREM LoaderTypeCorrect == Spec => []LoaderTypeOK
<1>1. IInv => LoaderTypeOK
  <2> SUFFICES ASSUME IInv PROVE LoaderTypeOK
    OBVIOUS
  <2>1. stage # "done" => instructions \in Seq(Instruction(DOMAIN var_map))
    BY DEF IInv, ProgramOK, ListOK
  <2>2. \A n \in DOMAIN label_pos : label_pos[n] \in 0..Len(instructions) - 1
    BY DEF IInv, ProgramOK, ListOK
  <2> QED
    BY <2>1, <2>2 DEF IInv, ReaderOK, SettingsOK, DeclaredOK, LoaderTypeOK, Stages, Sequences_
<1> QED
  BY <1>1, Invariance, PTL

(* Every file parse_program accepts is a program run() can execute: END is *)
(* last, operands are declared, jumps lead to labels.  This is what module *)
(* Machine assumes.                                                        *)
THEOREM LoadedIsWellFormedTheorem == Spec => []LoadedIsWellFormed
<1>1. IInv => LoadedIsWellFormed
  <2> SUFFICES ASSUME IInv, stage = "done" PROVE LoadedIsWellFormed
    BY DEF LoadedIsWellFormed
  <2>1. WellFormedOver(instructions, Word, BinaryOps, UnaryOps, DOMAIN var_map)
    BY DEF IInv, ProgramOK
  <2>2. \A v \in DOMAIN var_map : var_map[v].init \subseteq Word
    BY DEF IInv, DeclaredOK, Variable
  <2> QED
    BY <2>1, <2>2 DEF LoadedIsWellFormed
<1> QED
  BY <1>1, Invariance, PTL

-----------------------------------------------------------------------------
(* The lines of the program that have been accepted.                       *)
Code == section["__PROGRAM"]
Accepted == IF stage = "__PROGRAM" THEN at ELSE Len(Code)
KnownToPush == DOMAIN const_map \cup DOMAIN var_map \cup PushSpecial
KnownToPop == DOMAIN var_map \cup PopSpecial \cup {"NULL"}

(* The operands of accepted lines were found.                              *)
LinesOK ==
    stage \in {"__PROGRAM", "targets", "done"} =>
        /\ \A i \in 1..Accepted :
              Len(Code[i]) = 2 =>
                  /\ Code[i][1] \in Pushes => Code[i][2] \in KnownToPush
                  /\ Code[i][1] \in Pops => Code[i][2] \in KnownToPop

LEMMA LinesInductive == IInv /\ LinesOK /\ [Next]_vars => LinesOK'
<1> SUFFICES ASSUME IInv, LinesOK, [Next]_vars, stage' \in {"__PROGRAM", "targets", "done"}
             PROVE  LinesOK'
  BY DEF LinesOK
<1>0. Code \in Seq(Seq(Text)) /\ at \in Nat
  BY DEF IInv, ReaderOK, Code, Sequences_, SectionNames
<1>1. CASE stage \notin {"__PROGRAM", "targets", "done"}
  <2>1. stage' = "__PROGRAM" /\ at' = 0
    BY <1>1 DEF Next, Blank, Opens, Collects, ReadOn, Reading, EndOfFile, Enter, Throw, Undefined,
                SetsCycleTime, SetsCycles, UnknownSetting, EndSettings, Parsed,
                parse_mem, EndMem, parse_var, EndVar, InitConst, InitVar, InitUnknown, EndInit,
                Mnemonic, LabelLine, PushLine, PopLine, JumpLine, DroppedLine, LongLine,
                TwoWords, InProgram, InSection, AtEndOf, EndProgram, AssignTargets,
                Loaded, vars
  <2> QED
    BY <2>1 DEF LinesOK, Accepted
<1>2. CASE stage \in {"__PROGRAM", "targets", "done"}
  <2> DEFINE l == Code[at + 1]
  <2> DEFINE good ==
        Len(l) = 2 => /\ l[1] \in Pushes => l[2] \in KnownToPush
                      /\ l[1] \in Pops => l[2] \in KnownToPop
  <2>1. \/ stage = "__PROGRAM" /\ at < Len(Code) /\ stage' = stage /\ at' = at + 1 /\ good
        \/ stage = "__PROGRAM" /\ at = Len(Code) /\ stage' = "targets"
        \/ stage = "targets" /\ stage' = "done"
        \/ stage' = stage /\ at' = at
    <3>1. CASE UNCHANGED vars \/ Loaded
      BY <3>1 DEF Loaded, vars
    <3>2. CASE Mnemonic \/ LabelLine \/ LongLine
      BY <3>2 DEF Mnemonic, LabelLine, LongLine, InProgram, InSection, Line, Emit, Parsed,
                  Throw, Code
    <3>3. CASE PushLine
      <4>1. stage = "__PROGRAM" /\ at < Len(Code) /\ l[1] \in Pushes
        BY <3>3 DEF PushLine, TwoWords, InProgram, InSection, Line, Code
      <4>2. stage' = stage /\ at' = at + 1 /\ l[2] \in KnownToPush
        BY <3>3, <4>1 DEF PushLine, Emit, Parsed, Throw, Line, Code, KnownToPush
      <4>3. l[1] \notin Pops
        BY <4>1 DEF Pushes, Pops
      <4> QED
        BY <4>1, <4>2, <4>3
    <3>4. CASE PopLine
      <4>1. stage = "__PROGRAM" /\ at < Len(Code) /\ l[1] \in Pops
        BY <3>4 DEF PopLine, TwoWords, InProgram, InSection, Line, Code
      <4>2. stage' = stage /\ at' = at + 1 /\ l[2] \in KnownToPop
        BY <3>4, <4>1 DEF PopLine, Emit, Parsed, Throw, Line, Code, KnownToPop
      <4>3. l[1] \notin Pushes
        BY <4>1 DEF Pushes, Pops
      <4> QED
        BY <4>1, <4>2, <4>3
    <3>5. CASE JumpLine \/ DroppedLine
      <4>1. stage = "__PROGRAM" /\ at < Len(Code) /\ l[1] \notin Pushes \cup Pops
        BY <3>5 DEF JumpLine, DroppedLine, TwoWords, InProgram, InSection, Line, Code,
                    Jumps, ConditionalJumps, Pushes, Pops
      <4>2. stage' = stage /\ at' = at + 1
        BY <3>5 DEF JumpLine, DroppedLine, Emit, Parsed
      <4> QED
        BY <4>1, <4>2
    <3>6. CASE EndProgram \/ AssignTargets
      BY <3>6 DEF EndProgram, AtEndOf, Enter, AssignTargets, Throw, Code
    <3>7. CASE Blank \/ Opens \/ Collects \/ EndOfFile
               \/ SetsCycleTime \/ SetsCycles \/ UnknownSetting \/ EndSettings
               \/ parse_mem \/ EndMem \/ parse_var \/ EndVar
               \/ InitConst \/ InitVar \/ InitUnknown \/ EndInit
      BY <1>2, <3>7 DEF Blank, Opens, Collects, Reading, EndOfFile,
                SetsCycleTime, SetsCycles, UnknownSetting, EndSettings,
                parse_mem, EndMem, parse_var, EndVar, InitConst, InitVar, InitUnknown, EndInit,
                InSection, AtEndOf
    <3> QED
      BY <3>1, <3>2, <3>3, <3>4, <3>5, <3>6, <3>7 DEF Next
  <2>2. UNCHANGED <<section, const_map, var_map>>
    BY <1>2 DEF Next, Blank, Opens, Collects, Reading, EndOfFile,
                SetsCycleTime, SetsCycles, UnknownSetting, EndSettings,
                parse_mem, EndMem, parse_var, EndVar, InitConst, InitVar, InitUnknown, EndInit,
                Mnemonic, LabelLine, PushLine, PopLine, JumpLine, DroppedLine, LongLine,
                InSection, AtEndOf, EndProgram, AssignTargets, Throw, Undefined, Emit, Parsed,
                Enter,
                Loaded, vars, reader, declared
  <2>3. Code' = Code /\ KnownToPush' = KnownToPush /\ KnownToPop' = KnownToPop
    BY <2>2 DEF Code, KnownToPush, KnownToPop
  <2> HIDE DEF good, l
  <2>4. Accepted' = Accepted \/ (Accepted = at /\ Accepted' = at + 1 /\ good)
    BY <2>1, <2>3 DEF Accepted
  <2>5. ASSUME NEW i \in 1..Accepted', Len(Code[i]) = 2
        PROVE  /\ Code[i][1] \in Pushes => Code[i][2] \in KnownToPush
               /\ Code[i][1] \in Pops => Code[i][2] \in KnownToPop
    <3>1. CASE i \in 1..Accepted
      BY <1>2, <2>5, <3>1 DEF LinesOK
    <3>2. CASE i \notin 1..Accepted
      <4>1. good
        BY <2>4, <3>2
      <4>2. i = at + 1
        BY <1>0, <2>4, <3>2
      <4>3. l = Code[i]
        BY <4>2 DEF l
      <4> QED
        BY <2>5, <4>1, <4>3 DEF good
    <3> QED
      BY <3>1, <3>2
  <2> QED
    BY <2>3, <2>5 DEF LinesOK
<1> QED
  BY <1>1, <1>2

(* A name stands for one thing; one that a program both pushes and pops is *)
(* a variable, or NULL, which parse_var forgets to reserve.                *)
THEOREM NamesUnambiguousTheorem == Spec => []NamesUnambiguous
<1>1. Init => LinesOK
  BY DEF Init, LinesOK
<1>2. IInv /\ LinesOK => NamesUnambiguous
  <2> SUFFICES ASSUME IInv, LinesOK PROVE NamesUnambiguous
    OBVIOUS
  <2>1. NamesOK(DOMAIN const_map, DOMAIN var_map)
    BY DEF IInv, DeclaredOK
  <2>2. ASSUME stage = "done",
               NEW n, NEW i \in 1..Len(Code), NEW j \in 1..Len(Code),
               Len(Code[i]) = 2, Code[i][1] \in Pushes, Code[i][2] = n,
               Len(Code[j]) = 2, Code[j][1] \in Pops, Code[j][2] = n
        PROVE  n \in DOMAIN var_map \cup {"NULL"}
    <3>1. n \in KnownToPush /\ n \in KnownToPop
      BY <2>2 DEF LinesOK, Accepted
    <3>2. PushSpecial \cap (PopSpecial \cup {"NULL"}) = {}
      BY DEF PushSpecial, PopSpecial
    <3> QED
      BY <2>1, <3>1, <3>2 DEF KnownToPush, KnownToPop, NamesOK, RESERVED
  <2> QED
    BY <2>1, <2>2 DEF NamesUnambiguous, NamesOK, Code
<1> QED
  BY <1>1, <1>2, Invariance, LinesInductive, PTL DEF Spec

-----------------------------------------------------------------------------
(* Positions among the first n are counted from 1 on.                      *)
LEMMA RankBounds ==
    ASSUME NEW n \in Nat, NEW P \in SUBSET (1..n)
    PROVE  /\ IsFiniteSet(P) /\ Cardinality(P) \in Nat
           /\ \A i \in P : Rank(P, i) \in 1..Cardinality(P)
<1>1. IsFiniteSet(P) /\ Cardinality(P) \in Nat
  <2>1. IsFiniteSet(1..n)
    BY FS_Interval
  <2> QED
    BY <2>1, FS_Subset, FS_CardinalityType
<1>2. ASSUME NEW i \in P
      PROVE  Rank(P, i) \in 1..Cardinality(P)
  <2> DEFINE Q == {j \in P : j <= i}
  <2>1. Q \in SUBSET P /\ i \in Q
    OBVIOUS
  <2> HIDE DEF Q
  <2>2. IsFiniteSet(Q) /\ Cardinality(Q) <= Cardinality(P)
    BY <1>1, <2>1, FS_Subset
  <2>3. Cardinality(Q) \in Nat /\ Cardinality(Q) # 0
    BY <2>1, <2>2, FS_CardinalityType, FS_EmptySet
  <2>4. Rank(P, i) = Cardinality(Q)
    BY DEF Rank, Q
  <2> QED
    BY <1>1, <2>2, <2>3, <2>4
<1> QED
  BY <1>1, <1>2

(* The next position comes last and leaves the ranks of the others.        *)
LEMMA RankNext ==
    ASSUME NEW n \in Nat, NEW P \in SUBSET (1..n), NEW P2, P2 = P \cup {n + 1}
    PROVE  /\ Cardinality(P2) = Cardinality(P) + 1
           /\ Rank(P2, n + 1) = Cardinality(P) + 1
           /\ \A i \in P : Rank(P2, i) = Rank(P, i)
<1>0. /\ \A j \in P : j \in 1..n
      /\ \A j : j \in P2 <=> j \in P \/ j = n + 1
  OBVIOUS
<1>1. IsFiniteSet(P) /\ n + 1 \notin P
  <2>1. IsFiniteSet(P)
    BY RankBounds
  <2>2. n + 1 \notin 1..n
    OBVIOUS
  <2> QED
    BY <1>0, <2>1, <2>2
<1>2. Cardinality(P2) = Cardinality(P) + 1
  BY <1>1, FS_AddElement
<1>3. \A j \in P2 : j <= n + 1
  <2>1. \A j \in 1..n : j <= n + 1
    OBVIOUS
  <2>2. n + 1 <= n + 1
    OBVIOUS
  <2> QED
    BY <1>0, <2>1, <2>2, Zenon
<1>4. {j \in P2 : j <= n + 1} = P2
  BY <1>3
<1>5. Rank(P2, n + 1) = Cardinality(P) + 1
  BY <1>2, <1>4 DEF Rank
<1>6. ASSUME NEW i \in P
      PROVE  Rank(P2, i) = Rank(P, i)
  <2>1. i \in 1..n /\ ~(n + 1 <= i)
    BY <1>0
  <2>2. {j \in P2 : j <= i} = {j \in P : j <= i}
    BY <1>0, <2>1
  <2> QED
    BY <2>2 DEF Rank
<1> QED
  BY <1>2, <1>5, <1>6

LEMMA RankAdded ==
    ASSUME NEW n \in Nat, NEW P \in SUBSET (1..n)
    PROVE  /\ Cardinality(P \cup {n + 1}) = Cardinality(P) + 1
           /\ Rank(P \cup {n + 1}, n + 1) = Cardinality(P) + 1
           /\ \A i \in P : Rank(P \cup {n + 1}, i) = Rank(P, i)
BY RankNext

(* Selecting the next position, too, appends its line.                     *)
LEMMA SelectedNext ==
    ASSUME NEW S, NEW s \in Seq(S), NEW n \in Nat, n + 1 \in 1..Len(s),
           NEW P \in SUBSET (1..n), Selected(s, P) \in Seq(S)
    PROVE  Selected(s, P \cup {n + 1}) = Append(Selected(s, P), s[n + 1])
<1>01. Cardinality(P) \in Nat /\ \A i \in P : Rank(P, i) \in 1..Cardinality(P)
  BY RankBounds
<1> DEFINE P2 == P \cup {n + 1}
<1>02. /\ Cardinality(P2) = Cardinality(P) + 1
       /\ Rank(P2, n + 1) = Cardinality(P) + 1
       /\ \A i \in P : Rank(P2, i) = Rank(P, i)
  BY RankAdded, Zenon
<1> DEFINE At(Q, r) == {j \in Q : Rank(Q, j) = r}
<1> DEFINE c == Cardinality(P)
<1>0. P2 = P \cup {n + 1}
  OBVIOUS
<1> HIDE DEF P2
<1>1. /\ c \in Nat /\ \A i \in P : Rank(P, i) \in 1..c
      /\ Cardinality(P2) = c + 1 /\ Rank(P2, n + 1) = c + 1
      /\ \A i \in P : Rank(P2, i) = Rank(P, i)
  BY <1>01, <1>02
<1>2. At(P2, c + 1) = {n + 1}
  <2>1. \A j \in P : Rank(P2, j) # c + 1
    BY <1>1
  <2> HIDE DEF c
  <2> QED
    BY <1>0, <1>1, <2>1
<1>3. ASSUME NEW r \in 1..c
      PROVE  At(P2, r) = At(P, r)
  <2>1. r # c + 1
    BY <1>1
  <2> HIDE DEF c
  <2> QED
    BY <1>0, <1>1, <2>1
<1> DEFINE a == Selected(s, P)
<1> DEFINE b == Selected(s, P2)
<1>4. /\ a = [r \in 1..c |-> s[CHOOSE i \in At(P, r) : TRUE]]
      /\ b = [r \in 1..Cardinality(P2) |-> s[CHOOSE i \in At(P2, r) : TRUE]]
  BY DEF Selected
<1>5. (CHOOSE i \in At(P2, c + 1) : TRUE) = n + 1
  BY <1>2
<1> HIDE DEF At
<1>6. ASSUME NEW r \in 1..c
      PROVE  b[r] = a[r]
  BY <1>1, <1>3, <1>4
<1>7. b[c + 1] = s[n + 1] /\ DOMAIN a = 1..c /\ DOMAIN b = 1..c + 1
  <2>1. DOMAIN a = 1..c /\ DOMAIN b = 1..c + 1 /\ c + 1 \in 1..Cardinality(P2)
    BY <1>1, <1>4
  <2> HIDE DEF c
  <2>2. b[c + 1] = s[CHOOSE i \in At(P2, c + 1) : TRUE]
    BY <1>4, <2>1
  <2> QED
    BY <1>5, <2>1, <2>2
<1> HIDE DEF c
<1>8. Len(a) = c
  <2>1. a \in Seq(S) /\ DOMAIN a = 1..c /\ c \in Nat
    BY <1>1, <1>7
  <2> HIDE DEF a
  <2>2. DOMAIN a = 1..Len(a) /\ Len(a) \in Nat
    BY <2>1
  <2> QED
    BY <2>1, <2>2
<1>9. b = [r \in 1..c + 1 |-> b[r]]
  BY <1>1, <1>4
<1> HIDE DEF a, b
<1>10. Append(a, s[n + 1]) = [r \in 1..c + 1 |-> IF r = c + 1 THEN s[n + 1] ELSE a[r]]
  <2>1. s[n + 1] \in S /\ a \in Seq(S)
    BY DEF a
  <2> DEFINE d == Append(a, s[n + 1])
  <2>2. /\ d \in Seq(S) /\ Len(d) = c + 1 /\ d[c + 1] = s[n + 1]
        /\ \A r \in 1..c : d[r] = a[r]
    BY <1>1, <1>8, <2>1
  <2> HIDE DEF d
  <2>3. d = [r \in 1..c + 1 |-> d[r]]
    BY <2>2
  <2> QED
    BY <1>1, <2>2, <2>3 DEF d
<1>11. \A r \in 1..c + 1 : b[r] = IF r = c + 1 THEN s[n + 1] ELSE a[r]
  BY <1>1, <1>6, <1>7
<1>12. Append(a, s[n + 1]) = b
  BY <1>9, <1>10, <1>11
<1> QED
  BY <1>12 DEF a, b, P2

LEMMA SelectedLine ==
    ASSUME NEW f \in Seq(Seq(Text)), NEW n \in Nat, n + 1 \in 1..Len(f),
           NEW P \in SUBSET (1..n), NEW x \in Seq(Seq(Text)), x = Selected(f, P)
    PROVE  /\ Selected(f, P \cup {n + 1}) = Append(x, f[n + 1])
           /\ Append(x, f[n + 1]) \in Seq(Seq(Text))
<1> DEFINE S == Seq(Text)
<1>1. f \in Seq(S) /\ x \in Seq(S)
  OBVIOUS
<1> HIDE DEF S
<1>2. Selected(f, P \cup {n + 1}) = Append(x, f[n + 1])
  <2>1. Selected(f, P) \in Seq(S)
    BY <1>1
  <2>2. \A s \in Seq(S) :
           n + 1 \in 1..Len(s) /\ Selected(s, P) \in Seq(S) =>
              Selected(s, P \cup {n + 1}) = Append(Selected(s, P), s[n + 1])
    BY SelectedNext
  <2> QED
    BY <1>1, <2>1, <2>2, Zenon
<1>3. Append(x, f[n + 1]) \in Seq(S)
  <2>1. f[n + 1] \in S
    BY <1>1
  <2> QED
    BY <1>1, <2>1
<1> QED
  BY <1>2, <1>3 DEF S

LEMMA SelectedNone == \A s : Selected(s, {}) = <<>>
<1>1. Cardinality({}) = 0
  BY FS_EmptySet
<1>2. 1..0 = {}
  OBVIOUS
<1> QED
  BY <1>1, <1>2 DEF Selected

LEMMA NoneSelected ==
    ASSUME NEW s, NEW n \in Nat, NEW P \in SUBSET (1..n), Selected(s, P) = <<>>
    PROVE  P = {}
<1>1. IsFiniteSet(P) /\ Cardinality(P) \in Nat
  BY RankBounds
<1>2. 1..Cardinality(P) = {}
  <2>1. DOMAIN Selected(s, P) = 1..Cardinality(P)
    BY DEF Selected
  <2>2. DOMAIN <<>> = {}
    OBVIOUS
  <2> QED
    BY <2>1, <2>2
<1>3. Cardinality(P) = 0
  BY <1>1, <1>2
<1> QED
  BY <1>1, <1>3, FS_EmptySet

-----------------------------------------------------------------------------
(* BlocksOf of any file.                                                   *)
HeadersIn(f, s, n) == {i \in 1..n : f[i] = <<s>>}
BehindIn(f, h, n) ==
    {i \in h + 1..n : f[i] # <<>> /\ \A k \in h + 1..i : ~IsHeader(f[k])}
SomeHeader(f, n) == \A i \in 1..n : f[i] # <<>> => \E h \in 1..i : IsHeader(f[h])
BlockIn(f, s, n, lines) ==
    \/ HeadersIn(f, s, n) = {} /\ lines = <<>>
    \/ \E h \in HeadersIn(f, s, n) :
          /\ lines = Selected(f, BehindIn(f, h, n))
          /\ \A g \in HeadersIn(f, s, n) \ {h} : g < h /\ BehindIn(f, g, n) = {}

(* The section whose lines are being read is that of the last header.      *)
OpenIn(f, n, c) ==
    IF c = "none" THEN \A i \in 1..n : ~IsHeader(f[i])
    ELSE \E h \in 1..n : f[h] = <<c>> /\ \A k \in h + 1..n : ~IsHeader(f[k])

(* One line more.                                                          *)
LEMMA HeadersNext ==
    ASSUME NEW f, NEW s, NEW n \in Nat
    PROVE  /\ f[n + 1] = <<s>> => HeadersIn(f, s, n + 1) = HeadersIn(f, s, n) \cup {n + 1}
           /\ f[n + 1] # <<s>> => HeadersIn(f, s, n + 1) = HeadersIn(f, s, n)
<1>1. \A i : i \in 1..n + 1 <=> i \in 1..n \/ i = n + 1
  OBVIOUS
<1> QED
  BY <1>1 DEF HeadersIn

LEMMA BehindNext ==
    ASSUME NEW f, NEW n \in Nat, NEW h \in 1..n
    PROVE  /\ BehindIn(f, h, n) \in SUBSET (1..n)
           /\ f[n + 1] = <<>> \/ (\E k \in h + 1..n + 1 : IsHeader(f[k])) =>
                 BehindIn(f, h, n + 1) = BehindIn(f, h, n)
           /\ f[n + 1] # <<>> /\ (\A k \in h + 1..n + 1 : ~IsHeader(f[k])) =>
                 BehindIn(f, h, n + 1) = BehindIn(f, h, n) \cup {n + 1}
<1>1. \A i : i \in h + 1..n + 1 <=> i \in h + 1..n \/ i = n + 1
  OBVIOUS
<1>2. \A i \in h + 1..n : i \in 1..n
  OBVIOUS
<1>3. BehindIn(f, h, n) \in SUBSET (1..n)
  BY <1>2 DEF BehindIn
<1>4. ASSUME f[n + 1] = <<>> \/ (\E k \in h + 1..n + 1 : IsHeader(f[k]))
      PROVE  BehindIn(f, h, n + 1) = BehindIn(f, h, n)
  BY <1>1, <1>4 DEF BehindIn
<1>5. ASSUME f[n + 1] # <<>>, \A k \in h + 1..n + 1 : ~IsHeader(f[k])
      PROVE  BehindIn(f, h, n + 1) = BehindIn(f, h, n) \cup {n + 1}
  BY <1>1, <1>5 DEF BehindIn
<1> QED
  BY <1>3, <1>4, <1>5

(* A block does not grow when nothing behind its headers is collected.     *)
LEMMA BlockStays ==
    ASSUME NEW f, NEW n \in Nat, NEW s, NEW x, BlockIn(f, s, n, x),
           f[n + 1] # <<s>>,
           \A h \in HeadersIn(f, s, n) :
              f[n + 1] = <<>> \/ (\E k \in h + 1..n + 1 : IsHeader(f[k]))
    PROVE  BlockIn(f, s, n + 1, x)
<1>1. HeadersIn(f, s, n + 1) = HeadersIn(f, s, n)
  <2>1. f[n + 1] # <<s>> => HeadersIn(f, s, n + 1) = HeadersIn(f, s, n)
    BY HeadersNext
  <2> QED
    BY <2>1
<1>2. \A h \in HeadersIn(f, s, n) : h \in 1..n
  BY DEF HeadersIn
<1>3. \A h \in HeadersIn(f, s, n) : BehindIn(f, h, n + 1) = BehindIn(f, h, n)
  BY <1>2, BehindNext
<1> QED
  BY <1>1, <1>3 DEF BlockIn

(* A header opens an empty block; what its section already had was empty.  *)
LEMMA BlockOpens ==
    ASSUME NEW f, NEW n \in Nat, NEW s \in SectionNames, f[n + 1] = <<s>>,
           BlockIn(f, s, n, <<>>)
    PROVE  BlockIn(f, s, n + 1, <<>>)
<1> DEFINE H == HeadersIn(f, s, n)
<1> DEFINE G == HeadersIn(f, s, n + 1)
<1>1. G = H \cup {n + 1} /\ \A h \in H : h \in 1..n
  <2>1. G = H \cup {n + 1}
    BY HeadersNext
  <2>2. \A h \in H : h \in 1..n
    BY DEF HeadersIn
  <2> QED
    BY <2>1, <2>2
<1>2. BehindIn(f, n + 1, n + 1) = {}
  BY DEF BehindIn
<1>3. IsHeader(f[n + 1])
  BY DEF IsHeader
<1>4. ASSUME NEW g \in H
      PROVE  g < n + 1 /\ BehindIn(f, g, n + 1) = {}
  <2>1. g \in 1..n /\ n + 1 \in g + 1..n + 1
    BY <1>1
  <2>2. BehindIn(f, g, n + 1) = BehindIn(f, g, n) /\ BehindIn(f, g, n) \in SUBSET (1..n)
    BY <1>3, <2>1, BehindNext
  <2>3. PICK h \in H : /\ <<>> = Selected(f, BehindIn(f, h, n))
                       /\ \A k \in H \ {h} : k < h /\ BehindIn(f, k, n) = {}
    BY DEF BlockIn
  <2>4. h = g \/ BehindIn(f, g, n) = {}
    BY <2>3
  <2>5. CASE h = g
    <3>1. BehindIn(f, g, n) = {}
      BY <2>2, <2>3, <2>5, NoneSelected
    <3> QED
      BY <2>1, <2>2, <3>1
  <2> QED
    BY <2>1, <2>2, <2>4, <2>5
<1>5. <<>> = Selected(f, BehindIn(f, n + 1, n + 1))
  BY <1>2, SelectedNone
<1>6. n + 1 \in G /\ \A g \in G \ {n + 1} : g \in H
  BY <1>1
<1> QED
  BY <1>4, <1>5, <1>6 DEF BlockIn

(* A line is added to the block of the last header, and to no other.       *)
LEMMA BlockGrows ==
    ASSUME NEW f \in Seq(Seq(Text)), NEW n \in Nat, n + 1 \in 1..Len(f),
           f[n + 1] # <<>>, ~IsHeader(f[n + 1]),
           NEW c \in SectionNames, OpenIn(f, n, c),
           NEW x \in Seq(Seq(Text)), BlockIn(f, c, n, x)
    PROVE  BlockIn(f, c, n + 1, Append(x, f[n + 1]))
<1> DEFINE H == HeadersIn(f, c, n)
<1>0. IsHeader(<<c>>) /\ c # "none"
  BY DEF SectionNames, IsHeader
<1>1. f[n + 1] # <<c>>
  BY <1>0, Zenon
<1>2. PICK h \in 1..n : f[h] = <<c>> /\ \A k \in h + 1..n : ~IsHeader(f[k])
  BY <1>0 DEF OpenIn
<1>3. h \in H /\ \A g \in H : g \in 1..n /\ IsHeader(f[g])
  BY <1>0, <1>2 DEF HeadersIn
<1>4. /\ x = Selected(f, BehindIn(f, h, n))
      /\ \A g \in H \ {h} : g < h /\ BehindIn(f, g, n) = {}
  <2>1. PICK m \in H : /\ x = Selected(f, BehindIn(f, m, n))
                       /\ \A g \in H \ {m} : g < m /\ BehindIn(f, g, n) = {}
    BY <1>3 DEF BlockIn
  <2>2. m = h
    <3>1. SUFFICES ASSUME m # h PROVE FALSE
      OBVIOUS
    <3>2. h < m /\ m \in 1..n /\ IsHeader(f[m])
      BY <1>3, <2>1, <3>1
    <3>3. m \in h + 1..n
      BY <3>2
    <3> QED
      BY <1>2, <3>2, <3>3
  <2> QED
    BY <2>1, <2>2
<1>5. \A k \in h + 1..n + 1 : ~IsHeader(f[k])
  <2>1. \A k \in h + 1..n + 1 : k \in h + 1..n \/ k = n + 1
    OBVIOUS
  <2> QED
    BY <1>2, <2>1
<1>6. /\ BehindIn(f, h, n) \in SUBSET (1..n)
      /\ BehindIn(f, h, n + 1) = BehindIn(f, h, n) \cup {n + 1}
  BY <1>5, BehindNext
<1>7. Selected(f, BehindIn(f, h, n + 1)) = Append(x, f[n + 1])
  <2> DEFINE P == BehindIn(f, h, n)
  <2>1. x = Selected(f, P) /\ P \in SUBSET (1..n)
    BY <1>4, <1>6
  <2> HIDE DEF P
  <2>2. Selected(f, P \cup {n + 1}) = Append(x, f[n + 1])
    BY <2>1, SelectedLine
  <2> QED
    BY <1>4, <1>6, <2>2 DEF P
<1>8. ASSUME NEW g \in H \ {h}
      PROVE  g < h /\ BehindIn(f, g, n + 1) = {}
  <2>1. g \in 1..n /\ g < h /\ BehindIn(f, g, n) = {} /\ h \in g + 1..n + 1 /\ IsHeader(f[h])
    <3>1. g \in 1..n /\ g < h /\ BehindIn(f, g, n) = {} /\ IsHeader(f[h])
      BY <1>3, <1>4
    <3>2. h \in g + 1..n + 1
      BY <3>1
    <3> QED
      BY <3>1, <3>2
  <2> QED
    BY <2>1, BehindNext
<1>9. HeadersIn(f, c, n + 1) = H
  <2>1. \A s : f[n + 1] # <<s>> => HeadersIn(f, s, n + 1) = HeadersIn(f, s, n)
    BY HeadersNext
  <2> QED
    BY <1>1, <2>1, Zenon
<1> DEFINE y == Append(x, f[n + 1])
<1>10. y = Selected(f, BehindIn(f, h, n + 1))
  BY <1>7
<1> HIDE DEF H, y
<1>11. BlockIn(f, c, n + 1, y)
  BY <1>3, <1>8, <1>9, <1>10 DEF BlockIn
<1> QED
  BY <1>11 DEF y

(* What SectionsAreBlocks says, of the lines of the file dealt with so     *)
(* far; the open section is that of the last header.                       *)
Seen == IF stage = "read" THEN at ELSE Len(file)
BlocksRead ==
    stage # "failed" =>
        /\ stage = "read" => at \in 0..Len(file) /\ OpenIn(file, at, cur_section)
        /\ SomeHeader(file, Seen)
        /\ \A s \in SectionNames : BlockIn(file, s, Seen, section[s])

(* A line that opens no section.                                           *)
LEMMA OpenStays ==
    ASSUME NEW f, NEW n \in Nat, NEW c, OpenIn(f, n, c), ~IsHeader(f[n + 1])
    PROVE  OpenIn(f, n + 1, c)
<1>1. \A i : i \in 1..n + 1 <=> i \in 1..n \/ i = n + 1
  OBVIOUS
<1>2. CASE c = "none"
  BY <1>1, <1>2 DEF OpenIn
<1>3. CASE c # "none"
  <2>1. PICK h \in 1..n : f[h] = <<c>> /\ \A k \in h + 1..n : ~IsHeader(f[k])
    BY <1>3 DEF OpenIn
  <2>2. \A k \in h + 1..n + 1 : k \in h + 1..n \/ k = n + 1
    OBVIOUS
  <2>3. h \in 1..n + 1 /\ \A k \in h + 1..n + 1 : ~IsHeader(f[k])
    BY <2>1, <2>2
  <2> QED
    BY <1>3, <2>1, <2>3 DEF OpenIn
<1> QED
  BY <1>2, <1>3

(* A line below some header.                                               *)
LEMMA HeaderStays ==
    ASSUME NEW f, NEW n \in Nat, SomeHeader(f, n),
           f[n + 1] # <<>> => \E h \in 1..n + 1 : IsHeader(f[h])
    PROVE  SomeHeader(f, n + 1)
<1>1. \A i : i \in 1..n + 1 <=> i \in 1..n \/ i = n + 1
  OBVIOUS
<1> QED
  BY <1>1 DEF SomeHeader

(* The three lines load_file tells apart.                                  *)
LEMMA BlankRead ==
    ASSUME IInv, BlocksRead, Blank
    PROVE  BlocksRead'
<1> DEFINE n == at
<1>1. /\ n \in Nat /\ n + 1 \in 1..Len(file) /\ file[n + 1] = <<>> /\ stage = "read"
      /\ stage' = "read" /\ at' = n + 1 /\ UNCHANGED <<file, cur_section, section>>
  BY DEF Blank, Reading, ReadOn, IInv, ReaderOK, Sequences_
<1>2. /\ OpenIn(file, n, cur_section) /\ SomeHeader(file, n)
      /\ \A s \in SectionNames : BlockIn(file, s, n, section[s])
  BY <1>1 DEF BlocksRead, Seen
<1> HIDE DEF n
<1>3. ~IsHeader(file[n + 1]) /\ \A s : file[n + 1] # <<s>>
  BY <1>1 DEF IsHeader
<1>4. OpenIn(file, n + 1, cur_section)
  BY <1>1, <1>2, <1>3, OpenStays
<1>5. SomeHeader(file, n + 1)
  BY <1>1, <1>2, HeaderStays
<1>6. \A s \in SectionNames : BlockIn(file, s, n + 1, section[s])
  BY <1>1, <1>2, <1>3, BlockStays
<1> QED
  BY <1>1, <1>4, <1>5, <1>6 DEF BlocksRead, Seen

LEMMA HeaderRead ==
    ASSUME IInv, BlocksRead, Opens, stage' # "failed"
    PROVE  BlocksRead'
<1> DEFINE n == at
<1> DEFINE c == file[n + 1][1]
<1>1. /\ n \in Nat /\ n + 1 \in 1..Len(file) /\ IsHeader(file[n + 1]) /\ stage = "read"
      /\ section[c] = <<>> /\ cur_section' = c
      /\ stage' = "read" /\ at' = n + 1 /\ UNCHANGED <<file, section>>
  BY DEF Opens, Throw, Reading, ReadOn, IInv, ReaderOK, Sequences_
<1>2. /\ SomeHeader(file, n)
      /\ \A s \in SectionNames : BlockIn(file, s, n, section[s])
  BY <1>1 DEF BlocksRead, Seen
<1>3. file[n + 1] \in Seq(Text)
  BY <1>1 DEF IInv, ReaderOK, Sequences_
<1>4. c \in SectionNames /\ file[n + 1] = <<c>>
  BY <1>1, <1>3 DEF IsHeader
<1> HIDE DEF n, c
<1>5. OpenIn(file, n + 1, c)
  <2>1. n + 1 \in 1..n + 1 /\ \A k \in n + 1 + 1..n + 1 : FALSE
    BY <1>1
  <2>2. c # "none"
    BY <1>4 DEF SectionNames
  <2> QED
    BY <1>4, <2>1, <2>2 DEF OpenIn
<1>6. SomeHeader(file, n + 1)
  <2>1. n + 1 \in 1..n + 1
    BY <1>1
  <2> QED
    BY <1>1, <1>2, <2>1, HeaderStays
<1>7. ASSUME NEW s \in SectionNames
      PROVE  BlockIn(file, s, n + 1, section[s])
  <2>1. BlockIn(file, s, n, section[s])
    BY <1>2
  <2>2. CASE s = c
    <3>1. BlockIn(file, c, n, <<>>)
      BY <1>1, <2>1, <2>2
    <3>2. BlockIn(file, c, n + 1, <<>>)
      BY <1>1, <1>4, <3>1, BlockOpens
    <3> QED
      BY <1>1, <2>2, <3>2
  <2>3. CASE s # c
    <3>1. file[n + 1] # <<s>>
      BY <1>4, <2>3
    <3>2. \A h \in HeadersIn(file, s, n) : n + 1 \in h + 1..n + 1
      BY <1>1 DEF HeadersIn
    <3> QED
      BY <1>1, <2>1, <3>1, <3>2, BlockStays
  <2> QED
    BY <2>2, <2>3
<1> QED
  BY <1>1, <1>5, <1>6, <1>7 DEF BlocksRead, Seen

LEMMA LineRead ==
    ASSUME IInv, BlocksRead, Collects, stage' # "failed"
    PROVE  BlocksRead'
<1> DEFINE n == at
<1> DEFINE c == cur_section
<1> DEFINE l == file[n + 1]
<1>1. /\ n \in Nat /\ n + 1 \in 1..Len(file) /\ l # <<>> /\ ~IsHeader(l) /\ stage = "read"
      /\ c \in SectionNames /\ section' = [section EXCEPT ![c] = Append(@, l)]
      /\ stage' = "read" /\ at' = n + 1 /\ UNCHANGED <<file, cur_section>>
  BY DEF Collects, Throw, Reading, ReadOn, IInv, ReaderOK, Sequences_
<1>2. /\ OpenIn(file, n, c) /\ SomeHeader(file, n)
      /\ \A s \in SectionNames : BlockIn(file, s, n, section[s])
  BY <1>1 DEF BlocksRead, Seen
<1>3. /\ file \in Seq(Seq(Text)) /\ section[c] \in Seq(Seq(Text))
      /\ section'[c] = Append(section[c], l)
      /\ \A s \in SectionNames : s # c => section'[s] = section[s]
  BY <1>1 DEF IInv, ReaderOK, Sequences_
<1>4. OpenIn(file, n + 1, c)
  BY <1>1, <1>2, OpenStays
<1>5. PICK h \in 1..n : file[h] = <<c>> /\ \A k \in h + 1..n : ~IsHeader(file[k])
  <2>1. c # "none"
    BY <1>1 DEF SectionNames
  <2> QED
    BY <1>2, <2>1 DEF OpenIn
<1>6. IsHeader(file[h])
  BY <1>1, <1>5 DEF IsHeader
<1> HIDE DEF n, c, l
<1>7. SomeHeader(file, n + 1)
  <2>1. h \in 1..n + 1
    BY <1>1
  <2> QED
    BY <1>1, <1>2, <1>6, <2>1, HeaderStays
<1>8. BlockIn(file, c, n + 1, section'[c])
  <2>1. BlockIn(file, c, n, section[c])
    BY <1>1, <1>2
  <2>2. file[n + 1] # <<>> /\ ~IsHeader(file[n + 1]) /\ l = file[n + 1]
    BY <1>1 DEF l
  <2> DEFINE x == section[c]
  <2>3. x \in Seq(Seq(Text)) /\ BlockIn(file, c, n, x)
    BY <1>3, <2>1
  <2> HIDE DEF x
  <2>4. BlockIn(file, c, n + 1, Append(x, file[n + 1]))
    BY <1>1, <1>2, <1>3, <2>2, <2>3, BlockGrows
  <2> QED
    BY <1>3, <2>2, <2>4 DEF x
<1>9. ASSUME NEW s \in SectionNames, s # c
      PROVE  BlockIn(file, s, n + 1, section'[s])
  <2>1. BlockIn(file, s, n, section[s]) /\ section'[s] = section[s]
    BY <1>2, <1>3, <1>9
  <2>2. file[n + 1] # <<s>>
    <3>1. IsHeader(<<s>>)
      BY DEF IsHeader
    <3> QED
      BY <1>1, <3>1 DEF l
  <2>3. ASSUME NEW g \in HeadersIn(file, s, n)
        PROVE  \E k \in g + 1..n + 1 : IsHeader(file[k])
    <3>1. g \in 1..n /\ file[g] = <<s>> /\ IsHeader(file[g])
      BY DEF HeadersIn, IsHeader
    <3>2. g # h /\ <<s>> # <<c>>
      BY <1>5, <1>9, <3>1
    <3>3. g \notin h + 1..n
      BY <1>5, <3>1
    <3>4. h \in g + 1..n + 1
      BY <1>1, <3>1, <3>2, <3>3
    <3> QED
      BY <1>6, <3>4
  <2> QED
    BY <1>1, <2>1, <2>2, <2>3, BlockStays
<1>10. \A s \in SectionNames : BlockIn(file, s, n + 1, section'[s])
  BY <1>8, <1>9
<1> QED
  BY <1>1, <1>4, <1>7, <1>10 DEF BlocksRead, Seen, n, c

(* All other steps leave the file and the sections alone.                  *)
LEMMA ReaderSteps ==
    ASSUME [Next]_vars, stage' # "failed"
    PROVE  \/ Blank \/ Opens \/ Collects
           \/ /\ stage = "read" /\ at = Len(file) /\ stage' \notin {"read", "failed"}
              /\ UNCHANGED reader
           \/ /\ stage \notin {"read", "failed"} /\ stage' \notin {"read", "failed"}
              /\ UNCHANGED reader
           \/ stage' = stage /\ at' = at /\ UNCHANGED reader
<1>1. CASE UNCHANGED vars \/ Loaded
  BY <1>1 DEF Loaded, vars
<1>2. CASE EndOfFile
  BY <1>2 DEF EndOfFile, Enter
<1>3. CASE SetsCycleTime \/ SetsCycles \/ UnknownSetting \/ EndSettings
  BY <1>3 DEF SetsCycleTime, SetsCycles, UnknownSetting, EndSettings, InSection, AtEndOf, Enter,
              Throw, Undefined, Parsed
<1>4. CASE parse_mem \/ EndMem \/ parse_var \/ EndVar
  BY <1>4 DEF parse_mem, EndMem, parse_var, EndVar, InSection, AtEndOf, Enter, Throw, Undefined,
              Parsed
<1>5. CASE InitConst \/ InitVar \/ InitUnknown \/ EndInit
  BY <1>5 DEF InitConst, InitVar, InitUnknown, EndInit, InSection, AtEndOf, Enter, Throw, Parsed
<1>6. CASE Mnemonic \/ LabelLine \/ PushLine \/ PopLine \/ JumpLine \/ DroppedLine \/ LongLine
  BY <1>6 DEF Mnemonic, LabelLine, PushLine, PopLine, JumpLine, DroppedLine, LongLine, TwoWords,
              InProgram, InSection, Emit, Throw, Parsed
<1>7. CASE EndProgram \/ AssignTargets
  BY <1>7 DEF EndProgram, AssignTargets, AtEndOf, Enter, Throw
<1> QED
  BY <1>1, <1>2, <1>3, <1>4, <1>5, <1>6, <1>7 DEF Next

LEMMA BlocksInductive == IInv /\ BlocksRead /\ [Next]_vars => BlocksRead'
<1> SUFFICES ASSUME IInv, BlocksRead, [Next]_vars, stage' # "failed" PROVE BlocksRead'
  BY DEF BlocksRead
<1>1. CASE Blank \/ Opens \/ Collects
  BY <1>1, BlankRead, HeaderRead, LineRead
<1>2. CASE UNCHANGED reader /\ Seen' = Seen /\ stage # "failed" /\ (stage' = "read" => stage = "read" /\ at' = at)
  BY <1>2 DEF BlocksRead, reader
<1>3. CASE /\ stage = "read" /\ at = Len(file) /\ stage' \notin {"read", "failed"}
           /\ UNCHANGED reader
  BY <1>2, <1>3 DEF Seen, reader
<1>4. CASE \/ /\ stage \notin {"read", "failed"} /\ stage' \notin {"read", "failed"}
              /\ UNCHANGED reader
           \/ stage' = stage /\ at' = at /\ UNCHANGED reader
  BY <1>2, <1>4 DEF Seen, reader
<1> QED
  BY <1>1, <1>3, <1>4, ReaderSteps

(* What is parsed as a section is what the file has between one header of  *)
(* it and the next header, line by line: a section that is opened again    *)
(* never mixes two blocks, and no line is lost.                            *)
THEOREM SectionsAreBlocksTheorem == Spec => []SectionsAreBlocks
<1>1. Init => BlocksRead
  <2> SUFFICES ASSUME Init PROVE BlocksRead
    OBVIOUS
  <2>1. stage = "read" /\ at = 0 /\ file \in Seq(Seq(Text)) /\ \A i : i \notin 1..0
    BY FilesAssumption DEF Init
  <2>2. \A s : HeadersIn(file, s, 0) = {}
    BY <2>1 DEF HeadersIn
  <2> QED
    BY <2>1, <2>2 DEF Init, BlocksRead, Seen, OpenIn, SomeHeader, BlockIn
<1>2. BlocksRead => SectionsAreBlocks
  <2> SUFFICES ASSUME BlocksRead, stage \notin {"read", "failed"} PROVE SectionsAreBlocks
    BY DEF SectionsAreBlocks
  <2> DEFINE n == Len(file)
  <2>1. /\ \A s : Headers(s, n) = HeadersIn(file, s, n)
        /\ \A h : Behind(h, n) = BehindIn(file, h, n)
    BY DEF Headers, HeadersIn, Behind, BehindIn
  <2>2. SomeHeader(file, n) /\ \A s \in SectionNames : BlockIn(file, s, n, section[s])
    BY DEF BlocksRead, Seen
  <2> HIDE DEF n
  <2>3. BlocksOf(n)
    BY <2>1, <2>2 DEF BlocksOf, SomeHeader, BlockIn
  <2> QED
    BY <2>3 DEF SectionsAreBlocks, n
<1> QED
  BY <1>1, <1>2, Invariance, BlocksInductive, PTL DEF Spec

=============================================================================
