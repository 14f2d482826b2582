SPECIFICATION Spec
CONSTANT Total = 3
INVARIANT StopsAfterSendError
