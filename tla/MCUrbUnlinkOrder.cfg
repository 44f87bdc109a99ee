SPECIFICATION Spec
CONSTANTS
  ep = ep  in = in  out = out  iso = iso  aux = aux  s1 = s1  s2 = s2
  None = None
  Workers = {ep}
  Devices <- IsoOutEither
  Slots = {s1, s2}
  Packets = 1
  MaxSeq = 1
  MaxUnlinks = 1
  MaxResets = 0
  MaxRejects = 0
INVARIANT RetUnlinkFollowsRetSubmit
CHECK_DEADLOCK FALSE
