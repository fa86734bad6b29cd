SPECIFICATION BootstrapSpec
CONSTANTS
  shop = shop  desk = desk
  mdm = mdm  monitor = monitor  crm = crm  sales = sales  tickets = tickets
  App = {shop, desk}
  Master = Master
  Module = {mdm, monitor, crm, sales, tickets}
  Owner <- OwnerOf
  Rank <- RankOf
  Prefixed <- Prefixes
  Shadowed <- Shadows
  Release <- Releases
  HasSeeds = {sales}
  Log = Log
  NoTable = NoTable
  NoRow = NoRow
  MaxVersion = 2
  MaxRuns = 3
  MaxFailures = 1
INVARIANTS StateIsTrue
PROPERTIES  PublishedSchema
CHECK_DEADLOCK FALSE
