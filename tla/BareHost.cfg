CONSTANTS
  p = p
  q = q
  sp = sp
  spb = spb
  w = w
  wcr = wcr
  lookcr = lookcr
  none = none
  Path <- MCPath
  Spaced <- MCSpaced
  Splitting <- MCSplitting
  Word <- MCWord
  Decoded <- MCDecoded
  NoPath = none
  Subject <- MCSubject
  Script <- MCScript
  PipeSize = 3
  NoUpdate = noupdate
  Detail = {c1, c2, c3}
  Unchanged = {c3}
  NoText = notext
  Anchor <- MCAnchor
  Span = 800
  Second = {0, 45296, 86399}
  Offset <- MCOffset
  NoClock = noclock
  Repository <- MCRepository
  Fallback <- MCFallback
  HeadBranch <- MCHeadBranch
  NoBranch = nobranch
  NoReference = noreference
  Pasted <- MCPasted
  MaxSlug = 3
SPECIFICATION Spec
INVARIANT BareHostIsShown
CHECK_DEADLOCK FALSE
