SPECIFICATION BootSpec
CONSTANTS
    People = {h1, h2}
    NoPerson = NoPerson
    Runs = {b1, b2}
    NoRun = NoRun
    MaxGeneration = 2
INVARIANT SingleFlight
