CONSTANTS
    Delays <- MCDelays
    MaxRTOCount <- MCMaxRTOCount
SPECIFICATION Spec
PROPERTY
    BackoffNeverShrinks
