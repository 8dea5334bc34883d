SPECIFICATION ChainSpec
CONSTANTS
  Blocks = {b1, b2, b3, b4}
  NoBlock = NoBlock
INVARIANTS ChainTypeOK Reciprocal NoDangling
