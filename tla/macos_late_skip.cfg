SPECIFICATION Spec
INVARIANT SkipTouchesNothing
