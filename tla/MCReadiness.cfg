CONSTANTS
  doc = doc
  elem = elem
  tmp = tmp
  sib = sib
  Node <- MCNode
  Path <- MCPath
  Job = {j1, j2}
  Callback = {c1, c2}
SPECIFICATION FairSpec
INVARIANTS TypeOK CountsAgree NoLostWakeup NeverUnderflows InOnePlace
PROPERTIES WakeInOrder ChildrenWakeFirst WaitersRun
