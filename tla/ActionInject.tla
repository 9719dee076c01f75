---------------------------- MODULE ActionInject ----------------------------
(***************************************************************************)
(* action.c: what becomes of one OpenFlow message.                         *)
(*                                                                         *)
(* The rule tables are filled by main() before the proxy is started and    *)
(* never written again, so they are constants here; AttackRules models     *)
(* how they are filled.  A message is a record with the two header bytes   *)
(* ver and type, and valid, which says whether loci accepts it.            *)
(***************************************************************************)
EXTENDS Integers

CONSTANTS
  OFP_VER_MAX,            \* highest OpenFlow version the tables cover
  OFP_MSG_TYPE_MAX,       \* highest message type the tables cover
  atk_drop_action_table,  \* drop probability in percent, per version and type
  atk_dup_action_table,   \* how many more times to send, per version and type
  StrayBytes              \* the bytes that may lie just before the tables

Versions == 1 .. OFP_VER_MAX
Types    == 0 .. OFP_MSG_TYPE_MAX
Percent  == 0 .. 100
Counter  == 0 .. 255      \* counter_t, an unsigned char

ASSUME TableAssumption ==
  /\ OFP_VER_MAX \in Nat \ {0}
  /\ OFP_MSG_TYPE_MAX \in Nat
  /\ atk_drop_action_table \in [Versions -> [Types -> Percent]]
  /\ atk_dup_action_table  \in [Versions -> [Types -> Counter]]
  /\ StrayBytes \in SUBSET Counter

(* ver and type are unsigned chars and only their upper bounds are tested: *)
(* version 0 passes.                                                       *)
is_valid_ofp_header(v, t) == v <= OFP_VER_MAX /\ t <= OFP_MSG_TYPE_MAX

(* table[v - 1][t]: for version 0 the read is out of bounds and yields     *)
(* whatever byte lies there.                                               *)
Cell(table, v, t) == IF v \in Versions THEN {table[v][t]} ELSE StrayBytes

should_drop_msg(v, t) == Cell(atk_drop_action_table, v, t)
should_dup_msg(v, t)  == Cell(atk_dup_action_table, v, t)

(* For probability p some value of rand() % 100 drops the message, or      *)
(* lets it through.                                                        *)
MayDrop(p) == p # 0
MayKeep(p) == p < 100

(* The number of copies on_flow_read writes: 0 when action_inject returns  *)
(* NULL, otherwise one plus *dup_count.                                    *)
Copies(m) ==
  IF ~is_valid_ofp_header(m.ver, m.type) THEN {0}
  ELSE { 0 : p \in {q \in should_drop_msg(m.ver, m.type) : MayDrop(q)} }
       \cup
       { 1 + r : r \in {q \in should_dup_msg(m.ver, m.type) :
                          /\ \E p \in should_drop_msg(m.ver, m.type) : MayKeep(p)
                          /\ q # 0 \/ m.valid} }

(* action_inject dereferences the NULL that loci returns for a message its *)
(* validator refuses; a duplicated message is copied without asking loci.  *)
MayCrash(m) ==
  /\ is_valid_ofp_header(m.ver, m.type)
  /\ \E p \in should_drop_msg(m.ver, m.type) : MayKeep(p)
  /\ 0 \in should_dup_msg(m.ver, m.type)
  /\ ~m.valid
=============================================================================
