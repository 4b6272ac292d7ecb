SPECIFICATION SessionSpec
CONSTANT Buffers = 2
INVARIANT SuccessCleansUp
