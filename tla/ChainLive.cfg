SPECIFICATION FairSpec
CONSTANTS
  NULL = NULL
  BROADCAST_MAC_ADDRESS = BROADCAST_MAC_ADDRESS
  ACCESS = ACCESS
  TRUNK = TRUNK
  LAYER_2_MODE_UNKNOWN = LAYER_2_MODE_UNKNOWN
  MAXIMUM_INTERFACE_PER_NODE = 10
  Topology <- ChainTopology
  CollidingMacs <- NoCollision
  Commands <- DeafCommands
  MaxCommands = 2
  SocketBuffer = 4
  Unbound = {"h4"}
  SendMayFail = FALSE
  Node <- TNode
  Interface <- TInterface
  Name <- TName
  MAC <- TMAC
  IPAddress <- TIPAddress
  node_list <- TNodeList
  interface <- TSlots
  other_interface <- TOther
  attached_node <- TAttached
  interface_name <- TInterfaceName
  mac_address <- TMacAddress
  mac_string <- TMacString
  ip_address <- TIp
  mask <- TMask
  InitialMode <- TMode
PROPERTIES NetworkDrains ResolutionCompletes
CHECK_DEADLOCK FALSE
