SPECIFICATION RegSpec
CONSTANTS
    MaxRegistrations = 2
    MaxCancels = 2
    MaxShows = 1
    Captures = 2
    Users = {1, 2}
    Racks = {1}
    MaxSaves = 2
    MaxCrashes = 1
INVARIANTS CancelledIsNotSaved SavedUsersPersist NothingLeftBehind
PROPERTIES RegistrationEnds
CHECK_DEADLOCK FALSE
