SPECIFICATION ReliableSpec
CONSTANTS
  Fleet = {d1, d2}
  Deliveries = {o1, o2}
  Nobody = Nobody
  Refreshes = {r1}
  Builds = {b1, b2}
  MaxReassignments = 0
  MaxClicks = 1
PROPERTIES
  ChoiceStays
