SPECIFICATION Spec
CONSTANTS
  n1 = n1
  n2 = n2
  l1 = l1
  l2 = l2
  l3 = l3
  eth0 = eth0
  eth1 = eth1
  r = r
  d1 = d1
  a1 = a1
  Node = {n1, n2}
  Link = {l1, l2, l3}
  Name = {eth0, eth1}
  Char = {r, d1}
  NodeName <- MCNodeName
  Address = {a1}
  NULL = NULL
  POINTER = POINTER
  MAXIMUM_INTERFACE_PER_NODE = 2
  NETWORK_NODE_NAME_SIZE = 2
  NAME_BYTES_BEFORE_POINTER = 1
  L3_ROUTER = L3_ROUTER
  L2_SWITCH = L2_SWITCH
  HUB = HUB
  ACCESS = ACCESS
  TRUNK = TRUNK
  LAYER_2_MODE_UNKNOWN = LAYER_2_MODE_UNKNOWN
  MaxSettings = 0
INVARIANT EveryInterfaceHasSlot
CHECK_DEADLOCK FALSE
