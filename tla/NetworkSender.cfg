CONSTANTS
  Iface <- MCIface
  NoIface = NoIface
  Lan = {1, 2}
  Ip <- MCIface
  Mac <- MCIface
  NoMac = NoMac
  Data = {"d1", "d2"}
  ip_addr <- MCipaddr
  mac_addr <- MCmacaddr
  lan_name <- MClanname
  NumPorts = 2
  ArpTime = 1
  Station <- MCStation
  ifaces <- MCifaces
  is_router <- MCisrouter
  route <- MCroute
  Direct = "0.0.0.0"
  Hosts <- MCHosts
  MaxTime = 1
  Orders <- MCOneOrder
  MaxNow = 0
  MaxStops = 0
SPECIFICATION NetworkSpec
INVARIANTS
  SenderIsShown
