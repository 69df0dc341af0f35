CONSTANTS
  Iface <- MCIface
  NoIface = NoIface
  Lan = {1, 2}
  Ip <- MCIpAndNowhere
  Mac <- MCIface
  NoMac = NoMac
  Data = {"d1", "d2"}
  ip_addr <- MCipaddr
  mac_addr <- MCmacaddr
  lan_name <- MClanname
  NumPorts = 2
  ArpTime = 1
  Station <- MCStation
  ifaces <- MCifaces
  is_router <- MCisrouter
  route <- MCroute
  Direct = "0.0.0.0"
  Hosts <- MCFarHosts
  MaxTime = 1
  Orders <- MCOneOrder
  MaxNow = 0
  MaxStops = 1
SPECIFICATION NetworkFairSpec
PROPERTIES
  StationsAreClients
  DeparturesNoticed
  BridgeLossEndsStations
\* All processes may have ended: then nothing happens any more.
CHECK_DEADLOCK FALSE
