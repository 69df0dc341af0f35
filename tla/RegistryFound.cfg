CONSTANTS
  p1 = p1
  p2 = p2
  p3 = p3
  Card <- MCCard
  net <- MCnet
  Iface <- MCIface
  NoIface = NoIface
  Lan = {p1, p2, p3}
  Ip = {"ip"}
  Mac = {"mac"}
  NoMac = NoMac
  Data = {}
  ip_addr <- MCipaddr
  mac_addr <- MCmacaddr
  lan_name <- MClanname
  NumPorts = 2
  ArpTime = 0
  Proc = {p1, p2, p3}
  Name = {1, 2}
  argv1 <- MCargv1
  Blank = Blank
  MaxCleans = 1
  IfaceFile <- MCIfaceFile
  Stdin = Stdin
  Tries = 2
  MaxDown = 1
SPECIFICATION StartSpec
INVARIANTS
  ServingIsFound
CHECK_DEADLOCK FALSE
