SPECIFICATION Spec
CONSTANTS
    libA = libA  libB = libB  cpeA = cpeA  cpeB = cpeB
    Junk = Junk  BlankCpe = BlankCpe  NoCpe = NoCpe  NoPattern = NoPattern
    Word = 4
    Long = 16
    Window = 5
    MaxPlaces = 2
    MaxPre = 1
    MaxLines = 4
    MaxCalls = 3
    MaxId = 2
    MaxMet = 3
    Ecosystem = {"pypi", "nuget", "npm", "cargo"}
    Letters = {libA, libB}
    Mapped = {"pypi", "npm"}
    Cpe = {cpeA, cpeB, BlankCpe}
    Spelling <- MCSpelling
    Dependency <- MCDependency
    Product <- MCProduct
INVARIANTS
    CompareIsAnOrder
    RangesAsNumbers
    CargoFollowsToml
    TagOfOwnDeclaration
    
    MappingFound
CHECK_DEADLOCK FALSE
