CONSTANT WordBits = 4
SPECIFICATION Spec
INVARIANT PowsIsSignedExponentiation
