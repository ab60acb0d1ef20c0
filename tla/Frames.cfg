SPECIFICATION Spec
CONSTANTS
    Modules <- MCModules
    Objects <- MCObjects
    Plain <- MCPlain
    MaxFrames = 3
    MaxDepth = 3
    MaxQuantum = 2
INVARIANTS CallInOrder Polled
PROPERTY ImplementsMachine
