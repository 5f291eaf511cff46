---------------------------- MODULE MCWebserver ----------------------------
(* Instances of Webserver for TLC: a server made by the Builder, with TCP    *)
(* clients and UDP off, or with UDP peers.                                   *)
EXTENDS Webserver

BuiltServer == acceptorOpen
TcpInit == WebserverInit /\ BuiltServer /\ ~m_isUdpOn
UdpInit == WebserverInit /\ BuiltServer /\ m_isUdpOn

TcpSpec == TcpInit /\ [][WebserverNext]_webserverVars
UdpSpec == UdpInit /\ [][WebserverNext]_webserverVars
FairTcpSpec == TcpSpec /\ WebserverFairness
FairUdpSpec == UdpSpec /\ WebserverFairness
=============================================================================
