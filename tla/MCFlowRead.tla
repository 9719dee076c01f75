----------------------------- MODULE MCFlowRead -----------------------------
(* Instances of FlowRead: two versions and three message types, headers of *)
(* two bytes, a buffer that has to grow.                                   *)
EXTENDS FlowRead

Msg(l, v, t, ok) == [len |-> l, ver |-> v, type |-> t, valid |-> ok]

(* Type 0 passes, type 1 may be dropped and is sent twice otherwise, type  *)
(* 2 is always dropped; version 2 has no rules.                            *)
DropTable == << [t \in 0 .. 2 |-> <<0, 50, 100>>[t + 1]], [t \in 0 .. 2 |-> 0] >>
DupTable  == << [t \in 0 .. 2 |-> <<0, 1, 0>>[t + 1]],    [t \in 0 .. 2 |-> 0] >>

(* Well-formed messages that loci accepts. *)
GoodWire == { Msg(2, 1, 0, TRUE), Msg(3, 1, 1, TRUE), Msg(5, 1, 2, TRUE) }

(* A message that is dropped or sent twice, a length of 0, a length below  *)
(* that of a header in a version outside the tables, and version 0 in a    *)
(* message loci refuses.                                                   *)
AnyWire == { Msg(3, 1, 1, TRUE), Msg(0, 1, 0, TRUE), Msg(1, 3, 0, FALSE),
             Msg(2, 0, 1, FALSE) }

(* A pass-through message and a header of length 0. *)
ZeroWire == { Msg(2, 1, 0, TRUE), Msg(0, 1, 0, TRUE) }
=============================================================================
