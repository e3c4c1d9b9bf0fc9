SPECIFICATION SpecOfAll
CONSTANTS
  MaxHeld = 1
  MaxText = 1
  Sizes <- FourBytes
  Trees <- SmallTrees
  Damages <- Damaged
  SExps <- HeldSExps
  Values <- HeldValues
  Hex <- HeldHex
  Parsed <- HeldParsed
  EmptyValue <- HeldEmpty
  IsPair <- HeldIsPair
  LeftOf <- HeldLeftOf
  RightOf <- HeldRightOf
  PairOf <- HeldPairOf
  cache_length = 1
  Half = 3
  MaxIds = 4
  MaxObjects = 3
INVARIANTS SizeReadsBack
CHECK_DEADLOCK FALSE
