------------------------------ MODULE MCToggle ------------------------------
(***************************************************************************)
(* examples/toggle_ff.stackm on the machine, while another process changes *)
(* the trigger at any moment.                                              *)
(***************************************************************************)
EXTENDS Machine, Words, Memory

VARIABLES
    sampled,    \* history: the trigger as the last cycle loaded it
    edges       \* history: rising edges among the samples, modulo 2

toggleVars == <<vars, sampled, edges>>

(* __VAR, __INIT and __PROGRAM of the example; its label END is index 12.  *)
Place == [trigger |-> SharedBit(1, 0), q |-> SharedBit(2, 0),
          nq |-> SharedBit(3, 0), old_trigger |-> LocalCell(0)]
ToggleVar == DOMAIN Place
ToggleInitValue == [old_trigger |-> 0, q |-> 0, nq |-> 1]

Toggle ==
    LET Push_(v) == [op |-> "PUSH_var", var |-> v]
        Pop_(v) == [op |-> "POP_var", var |-> v]
        JzEnd == [op |-> "JZ", target |-> 12]
        Plain(op) == [op |-> op]
    IN  << Push_("trigger"), Plain("DUP"), JzEnd,
           Plain("DUP"), Push_("old_trigger"), [op |-> "BINARY", alu |-> "NE"], JzEnd,
           Push_("q"), Plain("DUP"), [op |-> "UNARY", alu |-> "NOT"],
           Pop_("q"), Pop_("nq"),
           Plain("LABEL"), Pop_("old_trigger"), Plain("END") >>
TogglePrograms == {Toggle}

ToggleShm == [cell_size : {1}, size : {4}, bytes : [0..3 -> Byte]]
ToggleMemories == [local : [{0} -> Words], shm : ToggleShm]
ToggleInitialMemories == {m \in ToggleMemories : m.local[0] = 0}
ToggleLoad(m, v) == load(m, Place[v])
ToggleStore(m, v, x) == store(m, Place[v], x)
ToggleOutside(m) == {[m EXCEPT !.shm.bytes[1] = bits] : bits \in {{}, {0}}}

-----------------------------------------------------------------------------
(* The value a variable has in memory.                                     *)
Value(v) == CHOOSE x \in load(mem, Place[v]) : TRUE

ToggleInit == Init /\ sampled = 0 /\ edges = 0

(* The first instruction of a cycle samples the trigger.                   *)
Sample == phase = "running" /\ ip = 0 /\ ip' = 1

ToggleNext ==
    /\ Next
    /\ IF Sample
       THEN /\ sampled' = Value("trigger")
            /\ edges' = IF sampled = 0 /\ Value("trigger") = 1 THEN 1 - edges ELSE edges
       ELSE UNCHANGED <<sampled, edges>>

ToggleSpec == ToggleInit /\ [][ToggleNext]_toggleVars

(* Between two cycles q has toggled once for every rising edge among the   *)
(* samples of the trigger and nq is its complement, at whatever moments    *)
(* the other process changed the trigger, and no cycle fails.              *)
TogglesOnRisingEdge ==
    /\ phase \notin {"failed", "dead"}
    /\ phase = "ready" =>
          /\ Value("q") = edges
          /\ Value("nq") = 1 - edges
          /\ Value("old_trigger") = sampled

=============================================================================
