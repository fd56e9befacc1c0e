SPECIFICATION Spec
CONSTANTS
  NULL = NULL
  BROADCAST_MAC_ADDRESS = BROADCAST_MAC_ADDRESS
  ACCESS = ACCESS
  TRUNK = TRUNK
  LAYER_2_MODE_UNKNOWN = LAYER_2_MODE_UNKNOWN
  MAXIMUM_INTERFACE_PER_NODE = 10
  Topology <- build_linear_topo
  CollidingMacs <- NoCollision
  Commands <- LinearCommands
  MaxCommands = 5
  SocketBuffer = 2
  Unbound = {}
  SendMayFail = TRUE
  Node <- TNode
  Interface <- TInterface
  Name <- TName
  MAC <- TMAC
  IPAddress <- TIPAddress
  node_list <- TNodeList
  interface <- TSlots
  other_interface <- TOther
  attached_node <- TAttached
  interface_name <- TInterfaceName
  mac_address <- TMacAddress
  mac_string <- TMacString
  ip_address <- TIp
  mask <- TMask
  InitialMode <- TMode
INVARIANTS OneLayer ArpEntriesAreAnswers MacEntriesPointHome
CHECK_DEADLOCK FALSE
