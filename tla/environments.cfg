CONSTANTS
    p1 = p1  p2 = p2  dev = dev  qa = qa  prod = prod  app = app  main = main  feature = feature  red = red  blue = blue
    Requests = {1, 2}
    Branches = {main, feature}
    Teams = {red, blue}
    Faults = TRUE
    Absent = Absent
    ProjectOrder <- MCProjectOrder
    NameOrder <- MCNameOrder
    AppOrder <- MCAppOrder
    Home <- MCHome
    Starts <- MCStarts
SPECIFICATION SpecEnvironments
INVARIANTS EnvsUnique
PROPERTIES EditsKept LabelsFollow
CHECK_DEADLOCK FALSE
