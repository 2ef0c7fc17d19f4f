------------------------------ MODULE MCLoader ------------------------------
(***************************************************************************)
(* Loader for TLC.  Each family of files varies one section through every  *)
(* sequence of a few lines and keeps the others fixed; the last one varies *)
(* the headers.                                                            *)
(***************************************************************************)
EXTENDS Loader, SequencesExt

MCWord == 0..8
MCBinaryOps == {"ADD"}
MCUnaryOps == {"NOT"}

(* What the words mean.  stoull accepts a minus sign and wraps.            *)
Digits == [x \in {"0", "1", "2", "3"} |->
              CASE x = "0" -> 0 [] x = "1" -> 1 [] x = "2" -> 2 [] x = "3" -> 3]
MCNumeral(type, w) ==
    IF w \in DOMAIN Digits THEN {IF type = "f" THEN Digits[w] + 4 ELSE Digits[w]}
    ELSE IF w = "-1" THEN {IF type = "f" THEN 4 ELSE 8}
    ELSE IF w = "0.5" THEN IF type = "f" THEN {7} ELSE {}
    ELSE {}
MCNegative(w) == w = "-1"
Parts == [w \in {"l@0", "m@1.0", "m@2", "m@2.1.0", "n@0", "l@0.0", "m@x", "m@@", "l@@", "n@@"} |->
             CASE w = "l@0" -> <<"l", "0">> [] w = "m@1.0" -> <<"m", "1.0">>
               [] w = "m@2" -> <<"m", "2">> [] w = "m@2.1.0" -> <<"m", "2.1.0">>
               [] w = "n@0" -> <<"n", "0">> [] w = "l@0.0" -> <<"l", "0.0">>
               [] w = "m@x" -> <<"m", "x">> [] w = "m@@" -> <<"m", "">>
               [] w = "l@@" -> <<"l", "">> [] w = "n@@" -> <<"n", "">>]
MCAtParts(w) == IF w \in DOMAIN Parts THEN Parts[w] ELSE <<w>>
Dots == [w \in {"1.0", "2.1.0", "0.0", "0.5", ""} |->
            CASE w = "1.0" -> <<"1", "0">> [] w = "2.1.0" -> <<"2", "1", "0">>
              [] w = "0.0" -> <<"0", "0">> [] w = "0.5" -> <<"0", "5">>
              [] w = "" -> <<>>]
MCDotParts(w) == IF w \in DOMAIN Dots THEN Dots[w] ELSE <<w>>
MCLabel(w) == CASE w = "$a" -> {"a"} [] w = "$b" -> {"b"} [] w = "$" -> {""} [] OTHER -> {}

-----------------------------------------------------------------------------
Mem == << <<"local", "l", "1">>, <<"shm", "x", "m", "1">> >>
Vars == << <<"l@0", "-", "v">>, <<"const", "u", "c">> >>
Inits == << <<"c", "1">> >>
Lines == << <<"PUSH", "c">>, <<"POP", "v">> >>

File(settings_, mem, var, init, prog) ==
    << <<>>, <<"__MEM">> >> \o mem \o << <<"__SETTINGS">> >> \o settings_
    \o << <<"__PROGRAM">> >> \o prog \o << <<"__INIT">> >> \o init
    \o << <<"__VAR">> >> \o var

SettingTexts ==
    {<<"CYCLE_MS", "2">>, <<"CYCLE_MS", "x">>, <<"CYCLE_MS", "1", "2">>, <<"CYCLES", "2">>,
     <<"CYCLES", "3", "x">>, <<"CYCLES", "x">>, <<"CYCLES">>, <<"x", "1">>}
MemTexts ==
    {<<"local", "l", "1">>, <<"local", "l">>, <<"local", "l", "x">>, <<"shm", "x", "m", "2">>,
     <<"shm", "x", "m", "3">>, <<"shm", "x", "l", "1">>, <<"x", "l", "1">>}
VarTexts ==
    {<<"l@0", "-", "v">>, <<"const", "u", "c">>, <<"const", "x", "c">>, <<"const", "f", "v">>,
     <<"const", "u", "PID">>, <<"m@1.0", "le1", "v">>, <<"m@1.0", "be1", "c">>,
     <<"m@2", "le1", "v">>, <<"m@2", "be16", "v">>, <<"m@1.0", "le16", "v">>,
     <<"m@2", "x", "v">>, <<"n@0", "le16", "v">>, <<"l@0.0", "-", "v">>,
     <<"m@x", "le16", "v">>, <<"m", "le16", "v">>, <<"m@@", "le1", "v">>, <<"m@@", "x", "c">>,
     <<"l@@", "-", "w">>, <<"n@@", "le16", "w">>, <<"m@2", "le16", "RAND">>, <<"m@2", "le16">>}
InitTexts ==
    {<<"c", "1">>, <<"c", "-1">>, <<"c", "0.5">>, <<"k", "-1">>, <<"k", "0.5">>,
     <<"v", "2">>, <<"v", "-1">>, <<"v", "0.5">>, <<"v", "x">>, <<"x", "1">>, <<"v">>}
ProgramTexts ==
    {<<"ADD">>, <<"DUP">>, <<"NOT">>, <<"ATAN2">>, <<"$a">>, <<"$b">>, <<"$">>, <<"J">>,
     <<"PUSH", "v">>, <<"L", "c">>, <<"PUSH", "PID">>, <<"PUSH", "x">>, <<"L", "NULL">>,
     <<"POP", "v">>, <<"S", "c">>, <<"POP", "STDOUT">>, <<"S", "NULL">>,
     <<"J", "a">>, <<"JZ", "b">>, <<"JNZ", "a">>, <<"$a", "x">>, <<"x", "a">>,
     <<"PUSH", "v", "x">>}
FlowTexts ==
    {<<"DUP">>, <<"$a">>, <<"$b">>, <<"L", "c">>, <<"J", "a">>, <<"JZ", "b">>, <<"x", "a">>}
ReaderTexts == {<<>>, <<"__PROGRAM">>, <<"__SETTINGS">>, <<"CYCLES", "2">>, <<"DUP">>}

MCFiles ==
    {File(s, Mem, Vars, Inits, Lines) : s \in BoundedSeq(SettingTexts, 3)}
    \cup {File(<<>>, m, Vars, Inits, Lines) : m \in BoundedSeq(MemTexts, 2)}
    \cup {File(<<>>, Mem, v, Inits, Lines) : v \in BoundedSeq(VarTexts, 2)}
    \cup {File(<<>>, Mem, Append(Vars, <<"const", type, "k">>), i, Append(Lines, <<"L", "k">>)) :
                type \in {"i", "f"}, i \in BoundedSeq(InitTexts, 3)}
    \cup {File(<<>>, Mem, Append(Vars, <<"const", "u", "NULL">>), Append(Inits, <<"NULL", "2">>), p) :
                p \in BoundedSeq(ProgramTexts, 2) \cup BoundedSeq(FlowTexts, 4)}
    \cup BoundedSeq(ReaderTexts, 5)

WordsOf(lines) == UNION {{l[k] : k \in 1..Len(l)} : l \in lines}
MCText ==
    WordsOf(SettingTexts \cup MemTexts \cup VarTexts \cup InitTexts \cup ProgramTexts
            \cup ReaderTexts \cup {<<"NULL", "2">>, <<"const", "i", "k">>, <<"L", "k">>}
            \cup {<<s>> : s \in SectionNames})
    \cup WordsOf({Parts[w] : w \in DOMAIN Parts} \cup {Dots[w] : w \in DOMAIN Dots})

=============================================================================
