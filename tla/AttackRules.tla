---------------------------- MODULE AttackRules -----------------------------
(***************************************************************************)
(* attack.c: the rows of an attack list are turned into the two tables     *)
(* that action_inject consults.                                            *)
(*                                                                         *)
(* A row is a record of its fields, each one abstracted to what the code   *)
(* distinguishes about it:                                                 *)
(*   ver    [kind, n, m]: "dotted" for what starts with 1.m, m from 0 to   *)
(*          4, "star", "int" for anything else, n what atoi makes of it    *)
(*   type   [kind, n, name]: "int", "star", "alias"                        *)
(*   action "DROP", "DUP", "DELAY", "LIE", or "?" for anything else        *)
(*   arg    [kind, n]: the value of p or r, "int", "float" (n its integer  *)
(*          part), "other" (a string or no value) or "none" (no argument)  *)
(*   fields the number of columns                                          *)
(*                                                                         *)
(* A definition marked "mutant" is a slip that one of the properties must  *)
(* notice; it stands before the definition it would replace and is not     *)
(* used by the specification.                                              *)
(***************************************************************************)
EXTENDS Integers, FiniteSetsExt, OfpAliases

CONSTANTS
  Rows,       \* the rows an attack list may have
  MaxRows     \* bound of the model: rows in the list

OFP_VER_ALL == 0
OFP_VER_MAX == 5
OFP_VER_ERR == -1
OFP_MSG_TYPE_ALL == -1
OFP_MSG_TYPE_ERR == -2
OFP_MSG_TYPE_MAX == 34
ATTACKER_ROW_NUM_FIELDS == 8

ASSUME RowsAssumption ==
  /\ MaxRows \in Nat
  /\ \A r \in Rows : r.arg.n \in Int

VARIABLES
  atk_drop_action_table,  \* drop probability, by cell
  atk_dup_action_table,   \* additional deliveries, by cell
  rows                    \* history: each row read and whether it was accepted

vars == <<atk_drop_action_table, atk_dup_action_table, rows>>

Versions == 1 .. OFP_VER_MAX
Types    == 0 .. OFP_MSG_TYPE_MAX

(* The tables are C arrays: table[v - 1][t] is the cell at this position,  *)
(* also when t is not below the width of a row.                            *)
Pos(v, t) == (v - 1) * (OFP_MSG_TYPE_MAX + 1) + t
Cells == 0 .. Pos(OFP_VER_MAX, OFP_MSG_TYPE_MAX)

Init ==
  /\ atk_drop_action_table = [c \in Cells |-> 0]
  /\ atk_dup_action_table = [c \in Cells |-> 0]
  /\ rows = <<>>

-----------------------------------------------------------------------------
normalize_ofp_ver_str(f) ==
  CASE f.kind = "dotted" -> f.m + 1
    [] f.kind = "star"   -> OFP_VER_ALL
    [] f.kind = "int"    -> IF f.n \in OFP_VER_ALL .. OFP_VER_MAX THEN f.n ELSE OFP_VER_ERR

(* What the i-th pointer of a version's alias table may be; behind the     *)
(* table lies another object, whose bytes may be a null pointer or not.    *)
AliasAt(ver, i) ==
  LET table == OFP_MSG_ALIASES[ver + 1]
  IN  IF i < Len(table) THEN {table[i + 1]} ELSE {"", "?"}

(* Whether the table of version ver has this name at position i.           *)
Lists(ver, name, i) ==
  LET table == OFP_MSG_ALIASES[ver + 1]
  IN  i < Len(table) /\ table[i + 1] = name

(* In the tables of 1.3 and 1.4 the name of MultipartRes is fused with the *)
(* next one, and the names behind it are one position too low.             *)
BehindComma(ver, name) == ver >= 4 /\ OFPT[name][ver] >= OFPT.MultipartRes[ver]

ASSUME TableSizes ==
  /\ \A ver \in Versions, name \in DOMAIN OFPT : OFPT[name][ver] \in {No} \cup Types
  /\ \A ver \in {OFP_VER_ALL} \cup Versions :
       Len(OFP_MSG_ALIASES[ver + 1]) \in 0 .. OFP_MSG_ALIAS_LEN[ver + 1]

(* Elsewhere a name is in the table of a version at its number, and only   *)
(* there.                                                                  *)
ASSUME AliasNumbers ==
  \A ver \in Versions, name \in DOMAIN OFPT, i \in Types :
    ~BehindComma(ver, name) => (Lists(ver, name, i) <=> OFPT[name][ver] = i)

(* Behind the comma a name is one below its number, but for the two names  *)
(* that are fused, which no table of 1.3 or 1.4 has.                       *)
ASSUME ShiftedNumbers ==
  \A ver \in Versions, name \in DOMAIN OFPT, i \in Types :
    BehindComma(ver, name) =>
      (Lists(ver, name, i) <=> /\ name \notin {"MultipartRes", "BarrierReq"}
                               /\ OFPT[name][ver] = i + 1)

(* The names that have the same number in every version; the common table, *)
(* which a row with the version * is looked up in, has them there.         *)
CommonNames == {name \in DOMAIN OFPT : \E i \in Types : OFPT[name] = Since(1, i)}

ASSUME OneNumber ==
  \A name \in CommonNames : \E k \in Types :
    /\ \A ver \in Versions : OFPT[name][ver] = k
    /\ \A i \in Types : Lists(OFP_VER_ALL, name, i) <=> i = k

(* The results normalize_ofp_msg_type may have.                            *)
normalize_ofp_msg_type(ver, f) ==
  LET len   == OFP_MSG_ALIAS_LEN[ver + 1]
      named == {i \in 0 .. len - 1 : AliasAt(ver, i) = {f.name}}
  IN  CASE f.kind = "star" -> {OFP_MSG_TYPE_ALL}
        [] f.kind = "int" ->
             IF f.n > len \/ f.n < 0 THEN {OFP_MSG_TYPE_ERR}
             ELSE {IF a = "" THEN OFP_MSG_TYPE_ERR ELSE f.n : a \in AliasAt(ver, f.n)}
        [] f.kind = "alias" -> {IF named = {} THEN OFP_MSG_TYPE_ERR ELSE Min(named)}

ProbabilityUnclamped(arg) ==                              \* mutant
  IF arg.kind \in {"int", "float"} THEN arg.n % 256 ELSE 100

(* int or float to char, clamped to a percentage.                          *)
Probability(arg) ==
  LET c == IF arg.kind \in {"int", "float"} THEN arg.n % 256 ELSE 100
  IN  IF c > 127 THEN 0 ELSE IF c > 100 THEN 100 ELSE c

DupCountTotal(arg) == (IF arg.kind = "int" THEN arg.n ELSE 0) % 256    \* mutant

(* int to unsigned char, less one.                                         *)
DupCount(arg) == ((IF arg.kind = "int" THEN arg.n ELSE 1) - 1) % 256

TargetShort(ver, t) ==                                    \* mutant
  LET vs == IF ver = OFP_VER_ALL THEN Versions ELSE {ver}
      ts == IF t = OFP_MSG_TYPE_ALL THEN 0 .. OFP_MSG_TYPE_MAX - 1 ELSE {t}
  IN  {Pos(v, u) : v \in vs, u \in ts}

(* The cells a rule for version ver and type t writes.                     *)
Target(ver, t) ==
  LET vs == IF ver = OFP_VER_ALL THEN Versions ELSE {ver}
      ts == IF t = OFP_MSG_TYPE_ALL THEN Types ELSE {t}
  IN  {Pos(v, u) : v \in vs, u \in ts}

Overwrite(table, where, value) ==
  [c \in Cells |-> IF c \in where THEN value ELSE table[c]]

Unreadable(r) ==
  r.fields # ATTACKER_ROW_NUM_FIELDS \/ normalize_ofp_ver_str(r.ver) = OFP_VER_ERR

RejectsNoUseless(r, t) ==                                 \* mutant
  Unreadable(r) \/ t = OFP_MSG_TYPE_ERR \/ r.action = "?"

(* attacker_add_rule(r), the type of r normalized to t.                    *)
Rejects(r, t) ==
  \/ Unreadable(r)
  \/ t = OFP_MSG_TYPE_ERR
  \/ r.action = "?"
  \/ r.action = "DUP" /\ DupCount(r.arg) < 1

AddRule(r) ==
  /\ Len(rows) < MaxRows
  /\ ~Unreadable(r)
  /\ \E t \in normalize_ofp_msg_type(normalize_ofp_ver_str(r.ver), r.type) :
       LET where == Target(normalize_ofp_ver_str(r.ver), t)
       IN  /\ ~Rejects(r, t)
           /\ atk_drop_action_table' =
                IF r.action = "DROP"
                THEN Overwrite(atk_drop_action_table, where, Probability(r.arg))
                ELSE atk_drop_action_table
           /\ atk_dup_action_table' =
                IF r.action = "DUP"
                THEN Overwrite(atk_dup_action_table, where, DupCount(r.arg))
                ELSE atk_dup_action_table
  /\ rows' = Append(rows, [row |-> r, accepted |-> TRUE])

RejectRule(r) ==
  /\ Len(rows) < MaxRows
  /\ \/ Unreadable(r)
     \/ /\ ~Unreadable(r)
        /\ \E t \in normalize_ofp_msg_type(normalize_ofp_ver_str(r.ver), r.type) :
             Rejects(r, t)
  /\ rows' = Append(rows, [row |-> r, accepted |-> FALSE])
  /\ UNCHANGED <<atk_drop_action_table, atk_dup_action_table>>

(* attacker_read_rows: one row after the other.                            *)
Next == \E r \in Rows : AddRule(r) \/ RejectRule(r)

Spec == Init /\ [][Next]_vars

-----------------------------------------------------------------------------
(* The tables hold values that action_inject can use.                      *)
TypeOK ==
  /\ atk_drop_action_table \in [Cells -> 0 .. 100]
  /\ atk_dup_action_table \in [Cells -> 0 .. 255]
  /\ rows \in Seq([row : Rows, accepted : BOOLEAN])

(***************************************************************************)
(* What an attack list means, row by row: a rule is about the messages of  *)
(* the version and of the type it names, or of all of them.  What type a   *)
(* name means is for the protocol to say (OFPT), not for the alias tables. *)
(***************************************************************************)
Covers(r, v, t) ==
  /\ \/ r.ver.kind = "star"
     \/ r.ver.kind = "int" /\ r.ver.n = v
     \/ r.ver.kind = "dotted" /\ r.ver.n = 1 /\ r.ver.m = v - 1
  /\ \/ r.type.kind = "star"
     \/ r.type.kind = "int" /\ r.type.n = t
     \/ /\ r.type.kind = "alias"
        /\ r.type.name \in DOMAIN OFPT
        /\ OFPT[r.type.name][v] = t

(* The last accepted rule of a kind about a message, 0 if there is none.   *)
LastAbout(action, v, t) ==
  Max({0} \cup {i \in DOMAIN rows : /\ rows[i].accepted
                                    /\ rows[i].row.action = action
                                    /\ Covers(rows[i].row, v, t)})

(* The tables say for each message what the last accepted DROP rule and    *)
(* the last accepted DUP rule about it ask for, and nothing if there is    *)
(* none; rules that overlap through wildcards, rows that are rejected and  *)
(* kinds of attack that are not implemented change nothing in that.        *)
LastRuleWins ==
  \A v \in Versions, t \in Types :
    LET drop == LastAbout("DROP", v, t)
        dup  == LastAbout("DUP", v, t)
    IN  /\ atk_drop_action_table[Pos(v, t)] =
             IF drop = 0 THEN 0 ELSE Probability(rows[drop].row.arg)
        /\ atk_dup_action_table[Pos(v, t)] =
             IF dup = 0 THEN 0 ELSE DupCount(rows[dup].row.arg)

(* No later row takes a duplication back: a DUP rule can be replaced by    *)
(* another one but never switched off.                                     *)
DupIsForGood ==
  [][\A c \in Cells : atk_dup_action_table[c] # 0 => atk_dup_action_table'[c] # 0]_vars
=============================================================================
