\* Two clients and two instances, on both platforms, with and without the
\* care the documents ask for.
SPECIFICATION FairSpec
CONSTANTS
  Platform = {"lambda", "functions"}
  Instance = {i1, i2}
  Client = {c1, c2}
  Key = {"old", "new"}
  Values <- Rotation
  None = None
  Faults = {"fetch"}
INVARIANTS TypeOK AcceptedKeyWasValid NeverRejectsLasting ZeroDowntime
PROPERTY LastValuePrevails
