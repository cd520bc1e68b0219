SPECIFICATION Spec
CONSTANTS
  p1 = p1
  p2 = p2
  p3 = p3
  n1 = n1
  n2 = n2
  n3 = n3
  n4 = n4
  Nobody = Nobody
  NoInode = NoInode
  Programs <- ThreePrograms
  Purgers <- OneProgram
  Inodes <- FourInodes
INVARIANTS
  NeverInterleave
CHECK_DEADLOCK TRUE
