---------------------------- MODULE AttackEffect ----------------------------
(***************************************************************************)
(* An attack list and its effect: main() reads the list into the tables    *)
(* (AttackRules), and action_inject looks each message up in them          *)
(* (ActionInject).  Here the second is applied to the tables of the first. *)
(***************************************************************************)
EXTENDS AttackRules

(* A table as action_inject indexes it: table[v - 1][t].                   *)
ByMessage(table) == [v \in Versions |-> [t \in Types |-> table[Pos(v, t)]]]

Inject == INSTANCE ActionInject WITH
  atk_drop_action_table <- ByMessage(atk_drop_action_table),
  atk_dup_action_table  <- ByMessage(atk_dup_action_table),
  StrayBytes            <- 0 .. 255

(* doc/attack_list.md: DROP is to "drop the message with a specified       *)
(* probability `p` (default value: `100`)", DUP to "repeatedly send the    *)
(* message `r` times".  For each message and each point in the list, what  *)
(* action_inject may do with the message is what the last accepted rule of *)
(* either kind about it asks for: it may be lost only if p is not 0, and   *)
(* must be if p is 100 or not given; if it is not lost, it is sent r times *)
(* in all, and once if no DUP rule is about it.  The counter of copies is  *)
(* one byte: only for r from 2 to 256 is it r, and an r of 0, which the    *)
(* same document says is ignored (attack_list.md:66), is 256 times.        *)
FateAsListed ==
  \A v \in Versions, t \in Types :
    LET drop   == LastAbout("DROP", v, t)
        dup    == LastAbout("DUP", v, t)
        p      == rows[drop].row.arg
        r      == rows[dup].row.arg
        copies == Inject!Copies([ver |-> v, type |-> t, valid |-> TRUE])
    IN  /\ copies # {}
        /\ drop = 0 => 0 \notin copies
        /\ drop # 0 /\ p.kind = "none" => copies = {0}
        /\ drop # 0 /\ p.kind = "int" /\ p.n \in 0 .. 100 =>
             /\ 0 \in copies <=> p.n # 0
             /\ copies = {0} <=> p.n = 100
        /\ dup = 0 => copies \subseteq {0, 1}
        /\ dup # 0 => r.kind = "int" /\ copies \subseteq {0, 1 + ((r.n - 1) % 256)}
=============================================================================
