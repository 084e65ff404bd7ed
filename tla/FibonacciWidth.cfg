SPECIFICATION FibonacciSpec
CHECK_DEADLOCK FALSE
INVARIANT BoundIsExact
