CONSTANTS
  Iface <- MCIface
  NoIface = NoIface
  Lan = {"cs1", "cs2", "cs3"}
  Ip <- MCIp
  Mac <- MCIface
  NoMac = NoMac
  Data = {"d1"}
  ip_addr <- MCipaddr
  mac_addr <- MCmacaddr
  lan_name <- MClanname
  NumPorts = 4
  ArpTime = 1
  Station <- MCStation
  ifaces <- MCifaces
  is_router <- MCisrouter
  route <- MCroute
  Direct <- MCDirect
  Hosts <- MCHosts
  MaxTime = 1
  Orders <- MCOrders
  MaxNow = 0
  MaxStops = 0
SPECIFICATION NetworkFairSpec
INVARIANTS
  OneCopy
PROPERTIES
  MessagesArrive
