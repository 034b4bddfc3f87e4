\* This node and two others, room for three datagrams.
SPECIFICATION Spec
CONSTANTS
  Node = {n1, n2, n3}
  Self = n1
  Junk = Junk
  MaxSocket = 3
INVARIANT
  TypeOK
PROPERTY
  NodesFound
