SPECIFICATION Spec
CONSTANTS
  head = head
  refs = refs
  objects = objects
  src = src
  Child = {head, refs, objects, src}
  Directory = {refs, objects, src}
  Excluded = {objects}
  Present = {head, refs, objects}
  RootOf <- MCRootOf
  NameOf <- MCNameOf
  MaxTouches = 2
  MaxLosses = 1
INVARIANT NewChildrenAreWatched
CHECK_DEADLOCK FALSE
