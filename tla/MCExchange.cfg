SPECIFICATION Spec
CONSTANT Messages <- MCMessages
INVARIANT WholeViewsAreRead
