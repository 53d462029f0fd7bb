SPECIFICATION FairSpec
CONSTANTS
    a = a
    b = b
    Envelopes <- MCEnvelopes
    Quantities <- MCQuantities
    Amounts <- MCAmounts
    BoardSize = 3
    MaxCalls = 3
INVARIANTS
    RefusedForAmount
    GuardSlips
PROPERTIES
    ButtonsComeBack
    GroupsKeepOrder
