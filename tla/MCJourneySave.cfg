SPECIFICATION Spec
CONSTANTS
    here = here
    there = there
    None = None
    Locations = {here, there}
INVARIANT
    SaveNeverRefused
