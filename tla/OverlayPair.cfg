SPECIFICATION Spec
CONSTANT MaxFingers = 1
INVARIANT OneAtATime
