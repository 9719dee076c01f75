----------------------------- MODULE OfpAliases -----------------------------
(***************************************************************************)
(* The alias tables of attack.c: the names of the message types of each    *)
(* OpenFlow version, by type number, as the compiler sees them.  In the    *)
(* tables of 1.3 and 1.4 a comma is missing behind "MultipartRes", so two  *)
(* names are one string and the tables are one entry shorter than their    *)
(* declared lengths.  "" stands for a NULL entry.                          *)
(*                                                                         *)
(* OFPT holds the numbers that the messages do have on the wire, from the  *)
(* identifiers of loci, which attack.c does not consult.                   *)
(***************************************************************************)
EXTENDS Integers, Sequences

Symmetric10 == <<"Hello", "Error", "EchoReq", "EchoRes">>

Switch10 ==
  << "FeatureReq", "FeatureRes", "GetConfigReq", "GetConfigRes", "SetConfig",
     "PacketIn", "FlowRemoved", "PortStatus", "PacketOut", "FlowMod" >>

Barrier == <<"BarrierReq", "BarrierRes">>
Queue   == <<"QueueGetConfigReq", "QueueGetConfigRes">>
Stats   == <<"StatsReq", "StatsRes">>
Mods11  == <<"GroupMod", "PortMod", "TableMod">>
Fused   == <<"MultipartReq", "MultipartResBarrierReq", "BarrierRes">>
Role    == <<"RoleReq", "RoleRes">>
Async13 == <<"GetAsyncReq", "GetAsyncRes", "SetAsync", "MeterMod">>
Status14 == << "RoleStatus", "TableStatus", "RequestForward", "BundleControl",
               "BundleAddMessage" >>
Null(n) == [i \in 1 .. n |-> ""]

OFP_V1_0_MSG_ALIAS ==
  Symmetric10 \o <<"Vendor">> \o Switch10 \o <<"PortMod">> \o Stats \o Barrier \o Queue

OFP_V1_1_MSG_ALIAS ==
  Symmetric10 \o <<"Experimenter">> \o Switch10 \o Mods11 \o Stats \o Barrier \o Queue

OFP_V1_2_MSG_ALIAS == OFP_V1_1_MSG_ALIAS \o Role

OFP_V1_3_MSG_ALIAS ==
  Symmetric10 \o <<"Experimenter">> \o Switch10 \o Mods11 \o Fused \o Queue
  \o Role \o Async13

OFP_V1_4_MSG_ALIAS ==
  Symmetric10 \o <<"Experimenter">> \o Switch10 \o Mods11 \o Fused \o Null(2)
  \o Role \o Async13 \o Status14

OFP_COMMON_MSG_ALIAS ==
  Symmetric10 \o Null(1) \o Switch10 \o Null(9) \o Role \o Async13 \o Status14

OFP_MSG_ALIAS_LEN == <<35, 22, 24, 26, 30, 35>>

OFP_MSG_ALIASES ==
  << OFP_COMMON_MSG_ALIAS, OFP_V1_0_MSG_ALIAS, OFP_V1_1_MSG_ALIAS,
     OFP_V1_2_MSG_ALIAS, OFP_V1_3_MSG_ALIAS, OFP_V1_4_MSG_ALIAS >>

-----------------------------------------------------------------------------
(* The type number of a message by version, from OF_OBJ_TYPE_*_BY_VERSION  *)
(* and OF_OBJ_TYPE_*_SUPPORTED: No where a version does not have it, or    *)
(* has it under another name (Vendor and Experimenter, Stats and           *)
(* Multipart, which loci does not tell apart).                             *)
No == -1

Since(v, n)    == [w \in 1 .. 5 |-> IF w >= v THEN n ELSE No]
Upto(v, f)     == [w \in 1 .. 5 |-> IF w <= v THEN f[w] ELSE No]
Moved(old, by) == [w \in 1 .. 5 |-> IF w = 1 THEN old ELSE old + by]

OFPT == [
  Hello      |-> Since(1, 0),  Error       |-> Since(1, 1),
  EchoReq    |-> Since(1, 2),  EchoRes     |-> Since(1, 3),
  Vendor     |-> Upto(1, Since(1, 4)),  Experimenter |-> Since(2, 4),
  FeatureReq |-> Since(1, 5),  FeatureRes  |-> Since(1, 6),
  GetConfigReq |-> Since(1, 7),  GetConfigRes |-> Since(1, 8),
  SetConfig  |-> Since(1, 9),  PacketIn    |-> Since(1, 10),
  FlowRemoved |-> Since(1, 11), PortStatus |-> Since(1, 12),
  PacketOut  |-> Since(1, 13), FlowMod     |-> Since(1, 14),
  GroupMod   |-> Since(2, 15), PortMod     |-> Moved(15, 1),
  TableMod   |-> Since(2, 17),
  StatsReq   |-> Upto(3, Moved(16, 2)),  StatsRes |-> Upto(3, Moved(17, 2)),
  MultipartReq |-> Since(4, 18), MultipartRes |-> Since(4, 19),
  BarrierReq |-> Moved(18, 2), BarrierRes  |-> Moved(19, 2),
  QueueGetConfigReq |-> Upto(4, Moved(20, 2)),
  QueueGetConfigRes |-> Upto(4, Moved(21, 2)),
  RoleReq    |-> Since(3, 24), RoleRes     |-> Since(3, 25),
  GetAsyncReq |-> Since(4, 26), GetAsyncRes |-> Since(4, 27),
  SetAsync   |-> Since(4, 28), MeterMod    |-> Since(4, 29),
  RoleStatus |-> Since(5, 30), TableStatus |-> Since(5, 31),
  RequestForward |-> Since(5, 32), BundleControl |-> Since(5, 33),
  BundleAddMessage |-> Since(5, 34) ]
=============================================================================
