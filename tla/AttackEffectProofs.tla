------------------------- MODULE AttackEffectProofs -------------------------
(***************************************************************************)
(* Proofs about AttackEffect: what an attack list of any length does to a  *)
(* message.                                                                *)
(***************************************************************************)
EXTENDS AttackEffect, AttackRulesProofs

(* The tables that attack.c fills are such as ActionInject, and with it    *)
(* FlowRead, takes for granted: percentages and bytes for every version    *)
(* and type.                                                               *)
THEOREM TablesReady ==
  Spec => [](/\ ByMessage(atk_drop_action_table)
                  \in [Inject!Versions -> [Inject!Types -> Inject!Percent]]
             /\ ByMessage(atk_dup_action_table)
                  \in [Inject!Versions -> [Inject!Types -> Inject!Counter]])
<1> DEFINE Ready == /\ ByMessage(atk_drop_action_table)
                         \in [Inject!Versions -> [Inject!Types -> Inject!Percent]]
                    /\ ByMessage(atk_dup_action_table)
                         \in [Inject!Versions -> [Inject!Types -> Inject!Counter]]
<1>1. TypeOK => Ready
  <2> SUFFICES ASSUME TypeOK PROVE Ready
    OBVIOUS
  <2>1. \A v \in Versions, t \in Types : Pos(v, t) \in Cells
    BY PosInjective
  <2>2. /\ \A c \in Cells : atk_drop_action_table[c] \in 0 .. 100
        /\ \A c \in Cells : atk_dup_action_table[c] \in 0 .. 255
    BY DEF TypeOK
  <2>3. /\ Inject!Versions = Versions /\ Inject!Types = Types
        /\ Inject!Percent = 0 .. 100 /\ Inject!Counter = 0 .. 255
    BY DEF Inject!Versions, Inject!Types, Inject!Percent, Inject!Counter, Versions, Types
  <2> QED BY <2>1, <2>2, <2>3 DEF ByMessage
<1> QED BY <1>1, TypeAlways, PTL

-----------------------------------------------------------------------------
(* The last DUP rule about a message asks for more than one delivery: one  *)
(* that does not was rejected.  LastRuleWins alone does not say this.      *)
DupInv ==
  \A v \in Versions, t \in Types :
    LastAbout("DUP", v, t) # 0 => DupCount(rows[LastAbout("DUP", v, t)].row.arg) # 0

LEMMA DupInvStep == TypeOK /\ LastInv /\ DupInv /\ [Next]_vars => DupInv'
<1> SUFFICES ASSUME TypeOK, LastInv, DupInv, [Next]_vars PROVE DupInv'
  OBVIOUS
<1>1. ASSUME NEW r \in Rows, NEW ok \in BOOLEAN,
             rows' = Append(rows, [row |-> r, accepted |-> ok]),
             ok /\ r.action = "DUP" => DupCount(r.arg) # 0
      PROVE  DupInv'
  <2> SUFFICES ASSUME NEW v \in Versions, NEW t \in Types, LastAbout("DUP", v, t)' # 0
               PROVE  DupCount(rows'[LastAbout("DUP", v, t)'].row.arg) # 0
    BY DEF DupInv
  <2>1. "DUP" \in Kinds
    BY DEF Kinds
  <2>2. CASE ok /\ r.action = "DUP" /\ Covers(r, v, t)
    <3>1. LastAbout("DUP", v, t)' = Len(rows) + 1 /\ rows'[Len(rows) + 1].row = r
      BY <1>1, <2>1, <2>2, LastAfterRow
    <3> QED BY <1>1, <2>2, <3>1
  <2>3. CASE ~(ok /\ r.action = "DUP" /\ Covers(r, v, t))
    <3>1. LastAbout("DUP", v, t)' = LastAbout("DUP", v, t)
      BY <1>1, <2>1, <2>3, LastAfterRow
    <3>2. LastAbout("DUP", v, t) \in 0 .. Len(rows)
      BY <2>1 DEF LastInv
    <3>3. rows \in Seq(Entry) /\ [row |-> r, accepted |-> ok] \in Entry /\ Len(rows) \in Nat
      BY DEF TypeOK, Entry
    <3>4. \A i \in 1 .. Len(rows) : rows'[i] = rows[i]
      BY <1>1, <3>3, AppendProperties
    <3>5. rows'[LastAbout("DUP", v, t)'] = rows[LastAbout("DUP", v, t)]
      BY <3>1, <3>2, <3>3, <3>4
    <3> QED BY <3>1, <3>5 DEF DupInv
  <2> QED BY <2>2, <2>3
<1>2. ASSUME NEW r \in Rows, AddRule(r) PROVE DupInv'
  <2>1. PICK t : ~Rejects(r, t)
    BY <1>2, AddRuleEffect
  <2>2. r.action = "DUP" => DupCount(r.arg) # 0
    BY <2>1, ArgumentsFit DEF Rejects
  <2> QED BY <1>1, <1>2, <2>2 DEF AddRule
<1>3. ASSUME NEW r \in Rows, RejectRule(r) PROVE DupInv'
  BY <1>1, <1>3 DEF RejectRule
<1>4. CASE UNCHANGED vars
  BY <1>4 DEF vars, DupInv, LastAbout
<1> QED BY <1>2, <1>3, <1>4 DEF Next

(* What action_inject may do with a message that the tables cover.         *)
LEMMA CopiesFromTables ==
  ASSUME NEW v \in Versions, NEW t \in Types
  PROVE  LET drop == atk_drop_action_table[Pos(v, t)]
             dup  == atk_dup_action_table[Pos(v, t)]
         IN  Inject!Copies([ver |-> v, type |-> t, valid |-> TRUE])
               = (IF drop # 0 THEN {0} ELSE {}) \cup (IF drop < 100 THEN {1 + dup} ELSE {})
<1> DEFINE m == [ver |-> v, type |-> t, valid |-> TRUE]
           drop == atk_drop_action_table[Pos(v, t)]
           dup == atk_dup_action_table[Pos(v, t)]
<1>1. Inject!is_valid_ofp_header(v, t)
  BY DEF Inject!is_valid_ofp_header, Versions, Types
<1>2. v \in Inject!Versions
  BY DEF Inject!Versions, Versions
<1>3. Inject!should_drop_msg(v, t) = {drop} /\ Inject!should_dup_msg(v, t) = {dup}
  BY <1>2 DEF Inject!should_drop_msg, Inject!should_dup_msg, Inject!Cell, ByMessage
<1>4. m.ver = v /\ m.type = t /\ m.valid
  OBVIOUS
<1>5. Inject!Copies(m) =
        { 0 : p \in {q \in {drop} : q # 0} }
        \cup { 1 + r : r \in {q \in {dup} : \E p \in {drop} : p < 100} }
  BY <1>1, <1>3, <1>4 DEF Inject!Copies, Inject!MayDrop, Inject!MayKeep
<1> QED BY <1>5

LEMMA FateFromInvariants ==
  ASSUME TypeOK, LastInv, DupInv
  PROVE  FateAsListed
<1> SUFFICES ASSUME NEW v \in Versions, NEW t \in Types
             PROVE
    LET drop   == LastAbout("DROP", v, t)
        dup    == LastAbout("DUP", v, t)
        p      == rows[drop].row.arg
        r      == rows[dup].row.arg
        copies == Inject!Copies([ver |-> v, type |-> t, valid |-> TRUE])
    IN  /\ copies # {}
        /\ drop = 0 => 0 \notin copies
        /\ drop # 0 /\ p.kind = "none" => copies = {0}
        /\ drop # 0 /\ p.kind = "int" /\ p.n \in 0 .. 100 =>
             /\ 0 \in copies <=> p.n # 0
             /\ copies = {0} <=> p.n = 100
        /\ dup = 0 => copies \subseteq {0, 1}
        /\ dup # 0 => r.kind = "int" /\ copies \subseteq {0, 1 + ((r.n - 1) % 256)}
  BY DEF FateAsListed
<1> DEFINE drop   == LastAbout("DROP", v, t)
           dup    == LastAbout("DUP", v, t)
           p      == rows[drop].row.arg
           r      == rows[dup].row.arg
           copies == Inject!Copies([ver |-> v, type |-> t, valid |-> TRUE])
           x      == atk_drop_action_table[Pos(v, t)]
           y      == atk_dup_action_table[Pos(v, t)]
<1>1. copies = (IF x # 0 THEN {0} ELSE {}) \cup (IF x < 100 THEN {1 + y} ELSE {})
  BY CopiesFromTables
<1>2. x \in 0 .. 100 /\ y \in 0 .. 255
  BY PosInjective DEF TypeOK
<1>3. /\ x = IF drop = 0 THEN 0 ELSE Probability(p)
      /\ y = IF dup = 0 THEN 0 ELSE DupCount(r)
  BY DEF LastInv, LastRuleWins
<1>4. p.kind = "none" => Probability(p) = 100
  BY DEF Probability
<1>5. p.kind = "int" /\ p.n \in 0 .. 100 => Probability(p) = p.n
  BY DEF Probability
<1>6. dup # 0 => DupCount(r) # 0
  BY DEF DupInv
<1>7. DupCount(r) # 0 => r.kind = "int"
  BY DEF DupCount
<1>8. r.kind = "int" => DupCount(r) = (r.n - 1) % 256
  BY DEF DupCount
<1> HIDE DEF copies, x, y, p, r, drop, dup
<1>9. copies # {}
  BY <1>1, <1>2
<1>10. drop = 0 => 0 \notin copies
  BY <1>1, <1>2, <1>3
<1>11. drop # 0 /\ p.kind = "none" => copies = {0}
  BY <1>1, <1>3, <1>4
<1>12. ASSUME drop # 0, p.kind = "int", p.n \in 0 .. 100
       PROVE  /\ 0 \in copies <=> p.n # 0
              /\ copies = {0} <=> p.n = 100
  <2>1. x = p.n
    BY <1>3, <1>5, <1>12
  <2>2. 0 \in copies <=> x # 0
    BY <1>1, <1>2
  <2>3. copies = {0} <=> x = 100
    BY <1>1, <1>2
  <2> QED BY <2>1, <2>2, <2>3
<1>13. dup = 0 => copies \subseteq {0, 1}
  BY <1>1, <1>3
<1>14. dup # 0 => r.kind = "int" /\ copies \subseteq {0, 1 + ((r.n - 1) % 256)}
  BY <1>1, <1>3, <1>6, <1>7, <1>8
<1> QED BY <1>9, <1>10, <1>11, <1>12, <1>13, <1>14 DEF copies, p, r, drop, dup

(* With any list of plain rows, at each point of the list, action_inject   *)
(* does with each message what the last accepted rules about it ask for.   *)
THEOREM ListDecidesFate ==
  ASSUME \A r \in Rows : PlainRow(r)
  PROVE  Spec => []FateAsListed
<1>1. \A r \in Rows : Aimed(r)
  BY PlainIsAimed
<1>2. Spec => []LastInv
  BY <1>1, LastAlways
<1>3. Init => DupInv
  <2> SUFFICES ASSUME Init, NEW v \in Versions, NEW t \in Types
               PROVE  LastAbout("DUP", v, t) = 0
    BY DEF DupInv
  <2>1. About("DUP", v, t) = {}
    BY DEF Init, About
  <2>2. LastAbout("DUP", v, t) = Max({0} \cup About("DUP", v, t))
    BY DEF LastAbout, About
  <2> QED BY <2>1, <2>2, MaxIsLast
<1>4. TypeOK /\ LastInv /\ DupInv /\ [Next]_vars => DupInv'
  BY DupInvStep
<1>5. TypeOK /\ LastInv /\ DupInv => FateAsListed
  BY FateFromInvariants
<1> QED BY <1>2, <1>3, <1>4, <1>5, TypeAlways, PTL DEF Spec
=============================================================================
