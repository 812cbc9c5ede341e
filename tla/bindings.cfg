SPECIFICATION Spec
CONSTANTS
    None = None
    MinDay <- MCMinDay
    MaxDay <- MCMaxDay
    Firsts <- MCFirsts
    Schemas <- MCSchemas
    Bindings <- MCBindings
    Windows <- MCWindows
    Zones <- MCZones
    FirstDay <- MCFirstDay
    LastDay <- MCLastDay
    Minutes = {240, 1320}
    Cadences = {1, 2}
INVARIANTS
    TypeOK
    SavedFits
    SavedResolves
    RunIsOfItsDate
    WindowIsCalendar
PROPERTIES
    WindowsTile
