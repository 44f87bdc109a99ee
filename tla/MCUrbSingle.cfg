SPECIFICATION FairSpec
CONSTANTS
  ep = ep  in = in  out = out  iso = iso  aux = aux  s1 = s1  s2 = s2
  None = None
  Workers = {ep}
  Devices <- SingleEndpoint
  Slots = {s1, s2}
  Packets = 1
  MaxSeq = 2
  MaxUnlinks = 1
  MaxResets = 1
  MaxRejects = 2
INVARIANTS TypeOK SlotsConserved ClaimsSettled ResetIsABarrier
PROPERTIES ResponsesInOrder UrbsAnswered StreamEnds
CHECK_DEADLOCK FALSE
