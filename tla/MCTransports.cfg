\* Every kind of transport, two application tasks, two packets, two sends.
SPECIFICATION Spec
CONSTANTS
  t1 = t1
  t2 = t2
  Tasks = {t1, t2}
  Commander = t1
  Kinds = {"concentrator", "usb", "skill"}
  Interfaces = {1, 2, 3, 4, 5}
  MAX_ANNOUNCED = 2
  BUFFER = 1
  ATTEMPTS = 2
  MAX_HEARD = 2
  MAX_CALLS = 2
INVARIANTS
  OwnAnswer
  ConnectedIsServed
  PortNotLeaked
PROPERTIES
  ImplementsService
  SendReturns
