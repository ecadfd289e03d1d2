CONSTANTS
    Lines <- MCLines
    Letters <- MCLetters
    Digits <- MCDigits
    Hexadecimal <- MCHexadecimal
    TypeNames <- MCTypeNames
    Numbers <- MCNumbers
    Addresses4 <- MCAddresses4
    Addresses6 <- MCAddresses6
    Keys <- MCKeys
    Calendar <- MCCalendar
    Digest <- MCDigest
    Opinion <- MCOpinion

SPECIFICATION Spec

INVARIANTS
    ReadAsMeant
    OthersReadable
    FormsAgree

\* A line has been dealt with.
CHECK_DEADLOCK FALSE
