SPECIFICATION FairSpec
CONSTANTS
  Tour = {tourA}
  File = {f1, f2, f3}
  NewTour = NewTour
  MaxImages = 2
  Admin = {a1, a2}
  MaxAccidents = 1
CHECK_DEADLOCK FALSE
INVARIANTS
  TypeOK
  RowsHaveFiles
  FilesAreKnown
  SortOrdersAreDense
PROPERTIES
  FilesSettle
