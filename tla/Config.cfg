SPECIFICATION Spec
CONSTANTS
    RawConfigs <- MCRawConfigs
    Asked <- MCAsked
    Lower <- MCLower
    DefaultSize = 5
    LineLengths = {1, 2, 4}
    MaxFile = 8
    Unset = Unset
    Bad = Bad
INVARIANTS
    RoutedToOwn
    CertificateFits
    LogBounded
CHECK_DEADLOCK FALSE
