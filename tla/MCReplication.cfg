CONSTANTS
  s1 = s1
  s2 = s2
  s3 = s3
  Servers <- TheServers
  Rack <- TheRacks
  Util <- TheUtil
  NumChunks = 2
  OldChunks = {1}
  Goal = 2
  Goals = {1, 3}
  MAX_CONCURRENT_WRITE_REPLICATIONS_PER_NODE = 1
  MAX_CONCURRENT_READ_REPLICATIONS_PER_NODE = 2
  Events = {"retire", "goal", "plan", "delete", "corrupt", "read", "alloc", "break", "toggle"}
  MaxEvents = 3
  MaxWrites = 1
SPECIFICATION Spec
SYMMETRY Symmetry
INVARIANTS
  CopiesAccounted
  CopiesGoElsewhere
  ShortageTracked
  
