SPECIFICATION Spec
CONSTANTS
  Array <- Two
  Length <- Equal3
  Key <- FourKeys
  Value <- OneOrTwo
  DefaultValue = 1
  Gone = 0
  MoveCopies = FALSE
  Binary = TRUE
  ValuesThrow = TRUE
VIEW arrays
CONSTRAINT UpToFour
INVARIANTS TypeOK LookupsExact
PROPERTY ImplementsMaps
