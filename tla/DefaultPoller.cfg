CONSTANTS
  Fds = {0, 1, 2}
  ReadySets = {{}, {"in"}, {"out", "hup"}}
  kInitEventListSize = 1
SPECIFICATION Spec
INVARIANT IndicesAgree
PROPERTIES FullListGrows ImplementsPoller
