CONSTANTS
    Services = {a}
    Pages = {{a}, {}}
    MaxJobs = 2
    MaxPs = 1
SPECIFICATION Spec
INVARIANTS InFlightHonest
PROPERTIES InFlightEnds CardSettles
