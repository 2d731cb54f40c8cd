SPECIFICATION CtxSpec
CONSTANTS
  Threads = {1, 2}
  Size = 3
  Values = {1}
INVARIANTS CtxTypeOK WaitingResumable NoAssertion
PROPERTY ImplementsCoroutines
