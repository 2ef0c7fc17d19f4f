CONSTANT WordBits = 4
SPECIFICATION Spec
INVARIANTS TypeOK DivisionLaws PowerLaws BitwiseLaws OrderLaws
