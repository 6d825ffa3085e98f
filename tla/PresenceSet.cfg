SPECIFICATION Spec
CONSTANTS
    Requests = {r1, r2}
    Statuses = {away, coding}
    Unset = Unset
    Debounce = 2
    MaxTime = 4
    MaxStoreErrors = 2
SYMMETRY Symmetry
INVARIANTS ShownIsStored
PROPERTIES AnswersAccounted
