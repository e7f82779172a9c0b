SPECIFICATION Spec
CONSTANT MaxFingers = 2
INVARIANTS ModalsExclude OverlayFollows
