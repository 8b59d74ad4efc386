SPECIFICATION Spec
CONSTANTS
  Source = {s1, bad, garbled}
  s1 = s1
  bad = bad
  garbled = garbled
  payloadId = payloadId
  dataId = dataId
  now = now
  later = later
  link1 = link1
  link2 = link2
  id1 = id1
  centre1 = centre1
  centre2 = centre2
  None = None
  Undecodable = Undecodable
  DataId = {payloadId, dataId}
  Time = {now, later}
  AssertedId = {id1}
  Link = {link1, link2}
  Centre = {centre1, centre2}
  Worker = {w1, w2}
  Consumer = {wis2}
  Claimed <- MCClaimed
  Notification <- MCNotification
  Request <- MCRequest
  Topic <- MCTopic
  Served <- MCServed
  MaxArrivals = 3
  MaxLosses = 1
INVARIANT
  ObservationKeepsItsSource
CHECK_DEADLOCK FALSE
