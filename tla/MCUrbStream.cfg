SPECIFICATION Spec
CONSTANTS
  ep = ep  in = in  out = out  iso = iso  aux = aux  s1 = s1  s2 = s2
  None = None
  Workers = {in, out}
  Devices <- InterruptAndIsoOut
  Slots = {s1, s2}
  Packets = 1
  MaxSeq = 2
  MaxUnlinks = 1
  MaxResets = 1
  MaxRejects = 0
INVARIANTS UnlinkIsExact UnlinkFollowsResponse ResetIsABarrier
CHECK_DEADLOCK FALSE
