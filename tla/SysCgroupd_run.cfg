SPECIFICATION FairSpec
CONSTANTS
  Workers = {"t"}
  MaxEvents = 2
INVARIANT CgroupSound
 
