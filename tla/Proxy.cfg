SPECIFICATION FairSpec
CONSTANTS
    Dests <- EveryDest
    Tables <- FourRows
    Countries = {"CN", "US"}
    Local = {9}
    Whitelist = {"CN"}
    Addrs <- SomeAddrs
    Pieces <- EveryPieces
    Cap = 1
    Faults <- EveryFaults
INVARIANTS
    TypeOK
    Faithful
    CutForACause
    LocalStaysLocal
    RoutedRight
    CountryIsRight
PROPERTIES
    AllEndsClose
CHECK_DEADLOCK FALSE
