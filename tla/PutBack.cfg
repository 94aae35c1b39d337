SPECIFICATION FairSpec
CONSTANTS
  a1 = a1
  a2 = a2
  Containers = {a1, a2}
  Addresses = {a1, a2}
  Checked = {a1}
  Tunings <- MCOneTuning
  DockerSays = {TRUE}
  MaxProbes = 1
  MaxChecks = 1
  MaxCount = 2
  MaxFails = 3
PROPERTY PutBack
