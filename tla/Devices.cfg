SPECIFICATION Spec
INVARIANTS
    OwnCompletion
    
    DevicesServed
    HostObjects
    
CHECK_DEADLOCK FALSE
