SPECIFICATION Spec
CONSTANT Total = 5
INVARIANT FailHandlerReturns
