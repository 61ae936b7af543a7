SPECIFICATION RequestSpec
CONSTANTS
  Summers <- MCSummers
  MaxRangeDays = 4
  FormDays = 4
  HourlyDays = 1
  PresetDays = {1, 3}
  CustomDays = 2
  Clock <- MCClock
  Instants <- MCInstants
  Dates = {1, 2, 4, 5}
  PageDefault = 2
  MaxPage = 3
  MapDefault = 2
  MaxMap = 3
  TypesDefault = 2
  MaxTypes = 3
  UnsizedList = 2
  MaxDepth = 2
  MaxCost = 24
  Documents <- MCDocuments
INVARIANTS AskedWholeDays AskedIsServed EveryCallHasABar AcceptedIsBounded
