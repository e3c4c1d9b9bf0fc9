SPECIFICATION SpecOfAll
CONSTANTS
  MaxHeld = 5
  MaxText = 10
  Sizes <- NoSizes
  Trees <- SmallTrees
  Damages <- Damaged
  SExps <- HeldSExps
  Values <- HeldValues
  Hex <- HeldHex
  Parsed <- HeldParsed
  EmptyValue <- HeldEmpty
  IsPair <- HeldIsPair
  LeftOf <- HeldLeftOf
  RightOf <- HeldRightOf
  PairOf <- HeldPairOf
  cache_length = 1
  Half = 3
  MaxIds = 4
  MaxObjects = 3
INVARIANTS TypesOK TypeOK ReadsWhatItPrints  NothingIsMadeUp WhatIsWrittenIsRead FindsTheContent
CHECK_DEADLOCK FALSE
