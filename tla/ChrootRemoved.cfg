CONSTANTS
    Sessions = {s1, s2}
SPECIFICATION Spec
INVARIANT RemovedAfterTheLast
