\* A few hundred trees, two runs, one edit, any write failing.
SPECIFICATION Spec
CONSTANTS
  Paths <- SmallPaths
  MaxOpen = 4
  Kilo = 4
  MaxInt = 32767
  Capital <- SmallCaps
  Lower <- SmallLower
  Main <- SmallMain
  Sources <- SomeSources
  Edits <- SomeEdits
  Stems <- SmallStems
  Names <- SmallNames
  Safe <- SmallSafe
  Quoted = {"a-quote"}
  MaxRuns = 2
  MaxEdits = 1
INVARIANTS
  MergeIsReadingOrder
  OrderIsIrrelevant
  ConversionKeepsMeaning
  NothingDroppedSilently
CHECK_DEADLOCK FALSE
