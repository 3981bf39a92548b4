SPECIFICATION Spec
CONSTANTS
  Contents <- ThreeContents
  Unwritable <- NotWritten
  Unreadable <- NotRead
  Keys <- OneKey
  Values <- OldOrNew
  Words <- TwoWords
  Prefixes <- TwoPrefixes
  Runners <- TwoRunners
  MaxTokens = 2
  MaxServed = 2
  MaxOptions = 3
INVARIANTS
  Delivered
  SpansChained
  CallFaithful
  CallTraced
  RoutedRight
  RunnersOwned
