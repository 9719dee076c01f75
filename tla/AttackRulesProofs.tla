------------------------- MODULE AttackRulesProofs --------------------------
(***************************************************************************)
(* Proofs about AttackRules, for every set of rows and lists of any        *)
(* length.                                                                 *)
(***************************************************************************)
EXTENDS AttackRules, SequenceTheorems, TLAPS

Entry == [row : Rows, accepted : BOOLEAN]

(* What an accepted row does to the tables.                                *)
LEMMA AddRuleEffect ==
  ASSUME NEW r \in Rows, AddRule(r)
  PROVE  \E t \in normalize_ofp_msg_type(normalize_ofp_ver_str(r.ver), r.type) :
           LET where == Target(normalize_ofp_ver_str(r.ver), t)
           IN  /\ ~Rejects(r, t)
               /\ atk_drop_action_table' =
                    IF r.action = "DROP"
                    THEN Overwrite(atk_drop_action_table, where, Probability(r.arg))
                    ELSE atk_drop_action_table
               /\ atk_dup_action_table' =
                    IF r.action = "DUP"
                    THEN Overwrite(atk_dup_action_table, where, DupCount(r.arg))
                    ELSE atk_dup_action_table
  BY DEF AddRule

(* What is stored for an argument fits its table, whatever the number.     *)
LEMMA ArgumentsFit ==
  ASSUME NEW r \in Rows
  PROVE  Probability(r.arg) \in 0 .. 100 /\ DupCount(r.arg) \in 0 .. 255
  BY RowsAssumption DEF Probability, DupCount

LEMMA CellsOverwritten ==
  ASSUME NEW S, NEW table \in [Cells -> S], NEW where, NEW value \in S
  PROVE  Overwrite(table, where, value) \in [Cells -> S]
  BY DEF Overwrite

LEMMA TypeStep == TypeOK /\ [Next]_vars => TypeOK'
<1> SUFFICES ASSUME TypeOK, [Next]_vars PROVE TypeOK'
  OBVIOUS
<1>1. ASSUME NEW r \in Rows, AddRule(r) PROVE TypeOK'
  <2>1. Probability(r.arg) \in 0 .. 100 /\ DupCount(r.arg) \in 0 .. 255
    BY ArgumentsFit
  <2>a. PICK where :
          /\ \/ atk_drop_action_table' = atk_drop_action_table
             \/ atk_drop_action_table' =
                  Overwrite(atk_drop_action_table, where, Probability(r.arg))
          /\ \/ atk_dup_action_table' = atk_dup_action_table
             \/ atk_dup_action_table' =
                  Overwrite(atk_dup_action_table, where, DupCount(r.arg))
    BY <1>1, AddRuleEffect
  <2>b. /\ atk_drop_action_table \in [Cells -> 0 .. 100]
        /\ atk_dup_action_table \in [Cells -> 0 .. 255]
    BY DEF TypeOK
  <2>2. atk_drop_action_table' \in [Cells -> 0 .. 100]
    <3>1. Overwrite(atk_drop_action_table, where, Probability(r.arg)) \in [Cells -> 0 .. 100]
      BY <2>1, <2>b, CellsOverwritten
    <3> QED BY <2>a, <2>b, <3>1
  <2>3. atk_dup_action_table' \in [Cells -> 0 .. 255]
    <3>1. Overwrite(atk_dup_action_table, where, DupCount(r.arg)) \in [Cells -> 0 .. 255]
      BY <2>1, <2>b, CellsOverwritten
    <3> QED BY <2>a, <2>b, <3>1
  <2>4. rows' \in Seq(Entry)
    BY <1>1, AppendProperties DEF AddRule, TypeOK, Entry
  <2> QED BY <2>2, <2>3, <2>4 DEF TypeOK, Entry
<1>2. ASSUME NEW r \in Rows, RejectRule(r) PROVE TypeOK'
  BY <1>2, AppendProperties DEF RejectRule, TypeOK
<1>3. CASE UNCHANGED vars
  BY <1>3 DEF vars, TypeOK
<1> QED BY <1>1, <1>2, <1>3 DEF Next

LEMMA TypeAlways == Spec => []TypeOK
<1>1. Init => TypeOK
  BY DEF Init, TypeOK
<1> QED BY <1>1, TypeStep, PTL DEF Spec

(* attacker_add_rule puts only percentages into the drop table and bytes   *)
(* into the dup table, whatever numbers the arguments of the rows are.     *)
THEOREM TablesTyped == Spec => []TypeOK
  BY TypeAlways

-----------------------------------------------------------------------------
(* Once the dup table has an entry other than 0 for a message it keeps     *)
(* one: a row can replace it, none can take it back.                       *)
THEOREM DupNeverTakenBack == Spec => DupIsForGood
<1> DEFINE Kept == \A c \in Cells :
                     atk_dup_action_table[c] # 0 => atk_dup_action_table'[c] # 0
<1>1. TypeOK /\ [Next]_vars => [Kept]_vars
  <2> SUFFICES ASSUME TypeOK, NEW r \in Rows, AddRule(r) \/ RejectRule(r),
                      NEW c \in Cells, atk_dup_action_table[c] # 0
               PROVE  atk_dup_action_table'[c] # 0
    BY DEF Next
  <2>1. CASE RejectRule(r)
    BY <2>1 DEF RejectRule
  <2>2. CASE AddRule(r) /\ r.action # "DUP"
    BY <2>2 DEF AddRule
  <2>3. CASE AddRule(r) /\ r.action = "DUP"
    <3>1. PICK t : /\ ~Rejects(r, t)
                   /\ atk_dup_action_table' =
                        Overwrite(atk_dup_action_table,
                                  Target(normalize_ofp_ver_str(r.ver), t), DupCount(r.arg))
      BY <2>3 DEF AddRule
    <3>2. DupCount(r.arg) \in 0 .. 255 /\ ~(DupCount(r.arg) < 1)
      BY <2>3, <3>1, ArgumentsFit DEF Rejects
    <3>3. DupCount(r.arg) # 0
      BY <3>2
    <3> QED BY <3>1, <3>3 DEF Overwrite
  <2> QED BY <2>1, <2>2, <2>3
<1> QED BY <1>1, TypeAlways, PTL DEF Spec, DupIsForGood

-----------------------------------------------------------------------------
(* The cells that attacker_add_rule writes for a row are those of the      *)
(* messages the row names.                                                 *)
Aimed(r) ==
  ~Unreadable(r) =>
    \A t \in normalize_ofp_msg_type(normalize_ofp_ver_str(r.ver), r.type) :
      ~Rejects(r, t) =>
        \A v \in Versions, u \in Types :
          Pos(v, u) \in Target(normalize_ofp_ver_str(r.ver), t) <=> Covers(r, v, u)

(* A row that gives version and type as numbers, a version also in the     *)
(* form 1.x, or as a wildcard.                                             *)
Numbered(r) ==
  /\ \/ r.ver.kind = "star"
     \/ r.ver.kind = "int" /\ r.ver.n \in Nat \ {0}
     \/ r.ver.kind = "dotted" /\ r.ver.n = 1 /\ r.ver.m \in 0 .. 4
  /\ \/ r.type.kind = "star"
     \/ r.type.kind = "int" /\ r.type.n \in Types

(* Messages of different versions or types have different cells.           *)
LEMMA PosInjective ==
  ASSUME NEW v \in Versions, NEW u \in Types, NEW w \in Versions, NEW t \in Types
  PROVE  /\ Pos(v, u) \in Cells
         /\ Pos(v, u) = Pos(w, t) => v = w /\ u = t
  BY DEF Versions, Types, Pos, Cells, OFP_VER_MAX, OFP_MSG_TYPE_MAX

LEMMA NumberedIsAimed ==
  ASSUME NEW r, Numbered(r)
  PROVE  Aimed(r)
<1> DEFINE ver == normalize_ofp_ver_str(r.ver)
<1> SUFFICES ASSUME ~Unreadable(r), NEW t \in normalize_ofp_msg_type(ver, r.type),
                    ~Rejects(r, t), NEW v \in Versions, NEW u \in Types
             PROVE  Pos(v, u) \in Target(ver, t) <=> Covers(r, v, u)
  BY DEF Aimed
<1>1. \/ r.ver.kind = "star" /\ ver = OFP_VER_ALL
      \/ r.ver.kind = "int" /\ ver = r.ver.n /\ ver \in Versions
      \/ r.ver.kind = "dotted" /\ r.ver.n = 1 /\ ver = r.ver.m + 1 /\ ver \in Versions
  BY DEF Numbered, Unreadable, normalize_ofp_ver_str, Versions, OFP_VER_ALL, OFP_VER_MAX,
         OFP_VER_ERR
<1>2. \/ r.type.kind = "star" /\ t = OFP_MSG_TYPE_ALL
      \/ r.type.kind = "int" /\ t = r.type.n /\ t \in Types
  BY DEF Numbered, Rejects, normalize_ofp_msg_type
<1>3. OFP_VER_ALL \notin Versions /\ OFP_MSG_TYPE_ALL \notin Types
  BY DEF OFP_VER_ALL, Versions, OFP_MSG_TYPE_ALL, Types
<1>4. Pos(v, u) \in Target(ver, t) <=>
        (ver = OFP_VER_ALL \/ ver = v) /\ (t = OFP_MSG_TYPE_ALL \/ t = u)
  BY <1>1, <1>2, <1>3, PosInjective DEF Target
<1>5. v \in Int
  BY DEF Versions
<1>6. (ver = OFP_VER_ALL \/ ver = v) <=>
        \/ r.ver.kind = "star"
        \/ r.ver.kind = "int" /\ r.ver.n = v
        \/ r.ver.kind = "dotted" /\ r.ver.n = 1 /\ r.ver.m = v - 1
  BY <1>1, <1>3, <1>5 DEF Numbered
<1>7. (t = OFP_MSG_TYPE_ALL \/ t = u) <=>
        \/ r.type.kind = "star"
        \/ r.type.kind = "int" /\ r.type.n = u
  BY <1>2, <1>3
<1>8. r.type.kind # "alias"
  BY <1>2
<1> QED BY <1>4, <1>6, <1>7, <1>8 DEF Covers

(* The search finds a name where the table has it, and nothing behind the  *)
(* table.                                                                  *)
LEMMA NameFound ==
  ASSUME NEW ver, NEW name, NEW i
  PROVE  AliasAt(ver, i) = {name} <=> Lists(ver, name, i)
<1> DEFINE table == OFP_MSG_ALIASES[ver + 1]
<1>1. CASE i < Len(table)
  <2>1. AliasAt(ver, i) = {table[i + 1]}
    BY <1>1 DEF AliasAt
  <2> QED BY <1>1, <2>1 DEF Lists
<1>2. CASE ~(i < Len(table))
  <2>1. AliasAt(ver, i) = {"", "?"}
    BY <1>2 DEF AliasAt
  <2>2. AliasAt(ver, i) = {name} => "" = name /\ "?" = name
    BY <2>1
  <2> QED BY <1>2, <2>2 DEF Lists
<1> QED BY <1>1, <1>2

(* A name that the table of a version has at one position at most is       *)
(* resolved to that position.                                              *)
LEMMA NameResolved ==
  ASSUME NEW ver \in {OFP_VER_ALL} \cup Versions, NEW f, f.kind = "alias", NEW k,
         \A i \in Types : Lists(ver, f.name, i) => i = k,
         NEW t \in normalize_ofp_msg_type(ver, f), t # OFP_MSG_TYPE_ERR
  PROVE  t \in Types /\ Lists(ver, f.name, t) /\ t = k
<1> DEFINE len == OFP_MSG_ALIAS_LEN[ver + 1]
           named == {i \in 0 .. len - 1 : AliasAt(ver, i) = {f.name}}
<1>1. 0 .. len - 1 \subseteq Types
  BY DEF Versions, OFP_VER_ALL, OFP_VER_MAX, OFP_MSG_ALIAS_LEN, Types, OFP_MSG_TYPE_MAX
<1>2. \A i \in named : i \in Types /\ Lists(ver, f.name, i)
  BY <1>1, NameFound
<1>3. \A i \in named : i = k /\ i <= i
  BY <1>2 DEF Types
<1>4. t = IF named = {} THEN OFP_MSG_TYPE_ERR ELSE Min(named)
  BY DEF normalize_ofp_msg_type
<1> HIDE DEF named
<1>5. k \in named /\ t = Min(named)
  BY <1>3, <1>4
<1>6. t = k
  BY <1>3, <1>5 DEF Min
<1> QED BY <1>2, <1>5, <1>6

(* A row that gives the version as a number or in the form 1.x and the     *)
(* type by a name of the protocol, but not by one that the missing comma   *)
(* moves.                                                                  *)
Named(r) ==
  /\ \/ r.ver.kind = "int" /\ r.ver.n \in Nat \ {0}
     \/ r.ver.kind = "dotted" /\ r.ver.n = 1 /\ r.ver.m \in 0 .. 4
  /\ r.type.kind = "alias" /\ r.type.name \in DOMAIN OFPT
  /\ ~BehindComma(normalize_ofp_ver_str(r.ver), r.type.name)

LEMMA NamedIsAimed ==
  ASSUME NEW r, Named(r)
  PROVE  Aimed(r)
<1> DEFINE ver == normalize_ofp_ver_str(r.ver)
<1> SUFFICES ASSUME ~Unreadable(r), NEW t \in normalize_ofp_msg_type(ver, r.type),
                    ~Rejects(r, t), NEW v \in Versions, NEW u \in Types
             PROVE  Pos(v, u) \in Target(ver, t) <=> Covers(r, v, u)
  BY DEF Aimed
<1>1. /\ \/ r.ver.kind = "int" /\ ver = r.ver.n
         \/ r.ver.kind = "dotted" /\ r.ver.n = 1 /\ ver = r.ver.m + 1
      /\ ver \in Versions
  <2>1. CASE r.ver.kind = "int" /\ r.ver.n \in Nat \ {0}
    BY <2>1 DEF Unreadable, normalize_ofp_ver_str, Versions, OFP_VER_ALL,
                OFP_VER_MAX, OFP_VER_ERR
  <2>2. CASE r.ver.kind = "dotted" /\ r.ver.n = 1 /\ r.ver.m \in 0 .. 4
    BY <2>2 DEF normalize_ofp_ver_str, Versions, OFP_VER_MAX
  <2> QED BY <2>1, <2>2 DEF Named
<1>2. t \in Types /\ OFPT[r.type.name][ver] = t
  <2>1. \A i \in Types : Lists(ver, r.type.name, i) <=> OFPT[r.type.name][ver] = i
    BY <1>1, AliasNumbers DEF Named
  <2>2. r.type.kind = "alias" /\ t # OFP_MSG_TYPE_ERR
    BY DEF Named, Rejects
  <2> HIDE DEF ver
  <2>3. t \in Types /\ Lists(ver, r.type.name, t) /\ t = OFPT[r.type.name][ver]
    BY <1>1, <2>1, <2>2, NameResolved
  <2> QED BY <2>3
<1>3. ver # OFP_VER_ALL /\ t # OFP_MSG_TYPE_ALL
  BY <1>1, <1>2 DEF OFP_VER_ALL, Versions, OFP_MSG_TYPE_ALL, Types
<1>4. Target(ver, t) = {Pos(ver, t)}
  BY <1>3 DEF Target
<1>5. Pos(v, u) \in Target(ver, t) <=> v = ver /\ u = t
  BY <1>1, <1>2, <1>4, PosInjective
<1>6. v = ver <=>
        \/ r.ver.kind = "star"
        \/ r.ver.kind = "int" /\ r.ver.n = v
        \/ r.ver.kind = "dotted" /\ r.ver.n = 1 /\ r.ver.m = v - 1
  <2>1. v \in Int
    BY DEF Versions
  <2>2. CASE r.ver.kind = "int" /\ ver = r.ver.n
    BY <2>2
  <2>3. CASE r.ver.kind = "dotted" /\ r.ver.n = 1 /\ ver = r.ver.m + 1 /\ r.ver.m \in 0 .. 4
    BY <2>1, <2>3
  <2> QED BY <1>1, <2>2, <2>3 DEF Named
<1>7. Covers(r, v, u) <=> v = ver /\ OFPT[r.type.name][v] = u
  BY <1>6 DEF Named, Covers
<1> QED BY <1>2, <1>5, <1>7

(* A row for all versions that gives the type by one of the names that     *)
(* have the same number in all of them.                                    *)
CommonNamed(r) ==
  r.ver.kind = "star" /\ r.type.kind = "alias" /\ r.type.name \in CommonNames

LEMMA CommonNamedIsAimed ==
  ASSUME NEW r, CommonNamed(r)
  PROVE  Aimed(r)
<1>1. normalize_ofp_ver_str(r.ver) = OFP_VER_ALL
  BY DEF CommonNamed, normalize_ofp_ver_str
<1> SUFFICES ASSUME NEW t \in normalize_ofp_msg_type(OFP_VER_ALL, r.type),
                    ~Rejects(r, t), NEW v \in Versions, NEW u \in Types
             PROVE  Pos(v, u) \in Target(OFP_VER_ALL, t) <=> Covers(r, v, u)
  BY <1>1 DEF Aimed
<1>2. PICK k \in Types :
        /\ \A w \in Versions : OFPT[r.type.name][w] = k
        /\ \A i \in Types : Lists(OFP_VER_ALL, r.type.name, i) <=> i = k
  BY OneNumber DEF CommonNamed
<1>3. t = k
  <2>1. r.type.kind = "alias" /\ t # OFP_MSG_TYPE_ERR
    BY DEF CommonNamed, Rejects
  <2>2. OFP_VER_ALL \in {OFP_VER_ALL} \cup Versions
    OBVIOUS
  <2>3. \A i \in Types : Lists(OFP_VER_ALL, r.type.name, i) => i = k
    BY <1>2
  <2> QED BY <2>1, <2>2, <2>3, NameResolved
<1>4. t # OFP_MSG_TYPE_ALL
  BY <1>3 DEF OFP_MSG_TYPE_ALL, Types
<1>5. Target(OFP_VER_ALL, t) = {Pos(w, x) : w \in Versions, x \in {t}}
  BY <1>4 DEF Target
<1>6. Pos(v, u) \in Target(OFP_VER_ALL, t) <=> u = t
  <2>1. \A w \in Versions : Pos(v, u) = Pos(w, t) => u = t
    BY <1>3, PosInjective
  <2> QED BY <1>5, <2>1
<1>7. Covers(r, v, u) <=> OFPT[r.type.name][v] = u
  BY DEF Covers, CommonNamed, CommonNames
<1> QED BY <1>2, <1>3, <1>6, <1>7

(* The comma missing behind "MultipartRes" in the tables of 1.3 and 1.4    *)
(* (attack.c:46, 55): the names of the two types there are rejected, and   *)
(* each name behind them is taken for the type below the one it names, so  *)
(* that a rule for it is applied to the messages of that type.             *)
THEOREM CommaShiftsNames ==
  ASSUME NEW ver \in Versions, NEW name \in DOMAIN OFPT, BehindComma(ver, name),
         NEW f, f.kind = "alias", f.name = name,
         NEW t \in normalize_ofp_msg_type(ver, f)
  PROVE  IF name \in {"MultipartRes", "BarrierReq"}
         THEN t = OFP_MSG_TYPE_ERR
         ELSE t = OFPT[name][ver] - 1
<1> DEFINE n == OFPT[name][ver]
           fused == name \in {"MultipartRes", "BarrierReq"}
           table == OFP_MSG_ALIASES[ver + 1]
           len == OFP_MSG_ALIAS_LEN[ver + 1]
           named == {i \in 0 .. len - 1 : AliasAt(ver, i) = {name}}
<1>1. \A i \in Types : Lists(ver, name, i) <=> ~fused /\ n = i + 1
  BY ShiftedNumbers
<1>2. n \in {No} \cup Types
  BY TableSizes
<1>3. n \in Int /\ n - 1 \in Int
  BY <1>2 DEF No, Types
<1>4. \A i \in Types : Lists(ver, name, i) => i = n - 1
  BY <1>1, <1>3 DEF Types
<1>5. t # OFP_MSG_TYPE_ERR => ~fused /\ t = n - 1
  <2> SUFFICES ASSUME t # OFP_MSG_TYPE_ERR PROVE ~fused /\ t = n - 1
    OBVIOUS
  <2>1. t \in Types /\ Lists(ver, f.name, t) /\ t = n - 1
    BY <1>4, NameResolved
  <2> QED BY <1>1, <2>1
<1>6. ASSUME ~fused PROVE t # OFP_MSG_TYPE_ERR
  <2>1. n - 1 \in Types
    <3>1. OFPT.MultipartRes[ver] = 19
      BY DEF BehindComma, OFPT, Since, Versions, OFP_VER_MAX
    <3>2. n >= 19
      BY <3>1 DEF BehindComma
    <3> QED BY <1>2, <3>2 DEF No, Types, OFP_MSG_TYPE_MAX
  <2>2. Lists(ver, name, n - 1)
    BY <1>1, <1>3, <1>6, <2>1
  <2>3. n - 1 \in 0 .. len - 1
    <3>1. n - 1 < Len(table)
      BY <2>2 DEF Lists
    <3>2. Len(table) \in 0 .. len
      BY TableSizes
    <3>3. len \in Int
      BY DEF Versions, OFP_VER_MAX, OFP_MSG_ALIAS_LEN
    <3> QED BY <1>3, <2>1, <3>1, <3>2, <3>3 DEF Types
  <2>4. AliasAt(ver, n - 1) = {name}
    BY <2>2, NameFound
  <2>5. n - 1 \in named
    BY <2>3, <2>4
  <2>6. \A i \in named : i = n - 1 /\ i <= i
    <3>1. 0 .. len - 1 \subseteq Types
      BY DEF Versions, OFP_VER_MAX, OFP_MSG_ALIAS_LEN, Types, OFP_MSG_TYPE_MAX
    <3> QED BY <1>4, <3>1, NameFound DEF Types
  <2>7. t = Min(named)
    BY <2>5 DEF normalize_ofp_msg_type
  <2> HIDE DEF named, n
  <2>8. t = n - 1
    BY <2>5, <2>6, <2>7 DEF Min
  <2>9. n - 1 # OFP_MSG_TYPE_ERR
    BY <2>1 DEF Types, OFP_MSG_TYPE_ERR
  <2> QED BY <2>8, <2>9
<1> QED BY <1>5, <1>6

-----------------------------------------------------------------------------
(* The accepted rules of a kind about a message.                           *)
About(action, v, t) ==
  {i \in DOMAIN rows : /\ rows[i].accepted
                       /\ rows[i].row.action = action
                       /\ Covers(rows[i].row, v, t)}

Kinds == {"DROP", "DUP"}

(* The last rule about a message is one of those read.  This makes         *)
(* LastRuleWins inductive: a row that is not about a message leaves the    *)
(* rule that was the last one where it is.                                 *)
LastInv ==
  /\ LastRuleWins
  /\ \A a \in Kinds, v \in Versions, t \in Types : LastAbout(a, v, t) \in 0 .. Len(rows)

LEMMA MaxIsLast ==
  ASSUME NEW n \in Nat, NEW S \in SUBSET (0 .. n), n \in S
  PROVE  Max(S) = n
<1>1. \A y \in S : n >= y
  OBVIOUS
<1>2. \A x \in S : (\A y \in S : x >= y) => x = n
  OBVIOUS
<1> QED BY <1>1, <1>2 DEF Max

(* A row that is appended is the last one about the messages it covers, if *)
(* it was accepted, and no rule about any other message or of another      *)
(* kind.                                                                   *)
LEMMA LastAfterRow ==
  ASSUME TypeOK, LastInv, NEW r \in Rows, NEW ok \in BOOLEAN,
         rows' = Append(rows, [row |-> r, accepted |-> ok]),
         NEW a \in Kinds, NEW v \in Versions, NEW t \in Types
  PROVE  /\ ok /\ r.action = a /\ Covers(r, v, t) =>
              /\ LastAbout(a, v, t)' = Len(rows) + 1
              /\ rows'[Len(rows) + 1].row = r
         /\ ~(ok /\ r.action = a /\ Covers(r, v, t)) =>
              LastAbout(a, v, t)' = LastAbout(a, v, t)
<1> DEFINE n == Len(rows)
<1>1. /\ rows \in Seq(Entry) /\ n \in Nat /\ DOMAIN rows = 1 .. n
  BY DEF TypeOK, Entry
<1>2. /\ Len(rows') = n + 1 /\ DOMAIN rows' = 1 .. n + 1
      /\ \A i \in 1 .. n : rows'[i] = rows[i]
      /\ rows'[n + 1] = [row |-> r, accepted |-> ok]
  BY <1>1 DEF Entry
<1>3. LastAbout(a, v, t) = Max({0} \cup About(a, v, t))
  BY DEF LastAbout, About
<1>4. LastAbout(a, v, t)' = Max({0} \cup About(a, v, t)')
  BY DEF LastAbout, About
<1>5. About(a, v, t) \subseteq 1 .. n
  BY <1>1 DEF About
<1>6. \A i \in 1 .. n : i \in About(a, v, t)' <=> i \in About(a, v, t)
  BY <1>1, <1>2 DEF About
<1>7. CASE ok /\ r.action = a /\ Covers(r, v, t)
  <2>1. n + 1 \in About(a, v, t)' /\ About(a, v, t)' \subseteq 1 .. n + 1
    BY <1>1, <1>2, <1>7 DEF About
  <2>2. Max({0} \cup About(a, v, t)') = n + 1
    BY <1>1, <2>1, MaxIsLast
  <2> QED BY <1>1, <1>2, <1>4, <1>7, <2>2
<1>8. CASE ~(ok /\ r.action = a /\ Covers(r, v, t))
  <2>1. n + 1 \notin About(a, v, t)'
    BY <1>2, <1>8 DEF About
  <2>2. About(a, v, t)' \subseteq 1 .. n + 1
    BY <1>2 DEF About
  <2>3. About(a, v, t)' = About(a, v, t)
    <3>1. \A i : i \in 1 .. n + 1 => i \in 1 .. n \/ i = n + 1
      BY <1>1
    <3>2. \A i : i \in About(a, v, t)' => i \in About(a, v, t)
      BY <1>6, <2>1, <2>2, <3>1
    <3>3. \A i : i \in About(a, v, t) => i \in About(a, v, t)'
      BY <1>5, <1>6
    <3> QED BY <3>2, <3>3
  <2> QED BY <1>3, <1>4, <1>8, <2>3
<1> QED BY <1>7, <1>8

LEMMA LastStep ==
  ASSUME \A r \in Rows : Aimed(r)
  PROVE  TypeOK /\ LastInv /\ [Next]_vars => LastInv'
<1> SUFFICES ASSUME TypeOK, LastInv, [Next]_vars PROVE LastInv'
  OBVIOUS
<1>a. /\ atk_drop_action_table \in [Cells -> 0 .. 100]
      /\ atk_dup_action_table \in [Cells -> 0 .. 255]
      /\ Len(rows) \in Nat
  BY DEF TypeOK
<1>1. ASSUME NEW r \in Rows, NEW ok \in BOOLEAN,
             rows' = Append(rows, [row |-> r, accepted |-> ok]),
             \A v \in Versions, t \in Types :
               /\ atk_drop_action_table'[Pos(v, t)] =
                    IF ok /\ r.action = "DROP" /\ Covers(r, v, t) THEN Probability(r.arg)
                    ELSE atk_drop_action_table[Pos(v, t)]
               /\ atk_dup_action_table'[Pos(v, t)] =
                    IF ok /\ r.action = "DUP" /\ Covers(r, v, t) THEN DupCount(r.arg)
                    ELSE atk_dup_action_table[Pos(v, t)]
      PROVE  LastInv'
  <2>1. Len(rows') = Len(rows) + 1
    BY <1>1 DEF TypeOK
  <2>0. ASSUME NEW a \in Kinds, NEW v \in Versions, NEW t \in Types,
               ~(ok /\ r.action = a /\ Covers(r, v, t))
        PROVE  /\ LastAbout(a, v, t)' = LastAbout(a, v, t)
               /\ LastAbout(a, v, t) # 0 =>
                    rows'[LastAbout(a, v, t)] = rows[LastAbout(a, v, t)]
    <3>1. LastAbout(a, v, t)' = LastAbout(a, v, t)
      BY <1>1, <2>0, LastAfterRow
    <3>2. LastAbout(a, v, t) # 0 => rows'[LastAbout(a, v, t)] = rows[LastAbout(a, v, t)]
      <4>1. LastAbout(a, v, t) \in 0 .. Len(rows)
        BY DEF LastInv
      <4>2. rows \in Seq(Entry) /\ [row |-> r, accepted |-> ok] \in Entry
        BY DEF TypeOK, Entry
      <4>3. \A i \in 1 .. Len(rows) : rows'[i] = rows[i]
        BY <1>1, <4>2, AppendProperties
      <4> QED BY <1>a, <4>1, <4>3
    <3> QED BY <3>1, <3>2
  <2>2. ASSUME NEW a \in Kinds, NEW v \in Versions, NEW t \in Types
        PROVE  LastAbout(a, v, t)' \in 0 .. Len(rows')
    <3>1. LastAbout(a, v, t) \in 0 .. Len(rows)
      BY DEF LastInv
    <3>2. \/ LastAbout(a, v, t)' = Len(rows) + 1
          \/ LastAbout(a, v, t)' = LastAbout(a, v, t)
      BY <1>1, LastAfterRow
    <3> QED BY <1>a, <2>1, <3>1, <3>2
  <2>3. ASSUME NEW v \in Versions, NEW t \in Types
        PROVE  atk_drop_action_table'[Pos(v, t)] =
                 IF LastAbout("DROP", v, t)' = 0 THEN 0
                 ELSE Probability(rows'[LastAbout("DROP", v, t)'].row.arg)
    <3>1. atk_drop_action_table[Pos(v, t)] =
            IF LastAbout("DROP", v, t) = 0 THEN 0
            ELSE Probability(rows[LastAbout("DROP", v, t)].row.arg)
      BY DEF LastInv, LastRuleWins
    <3>2. "DROP" \in Kinds
      BY DEF Kinds
    <3>3. CASE ok /\ r.action = "DROP" /\ Covers(r, v, t)
      <4>1. LastAbout("DROP", v, t)' = Len(rows) + 1 /\ rows'[Len(rows) + 1].row = r
        BY <1>1, <3>2, <3>3, LastAfterRow
      <4>2. atk_drop_action_table'[Pos(v, t)] = Probability(r.arg)
        BY <1>1, <3>3
      <4> QED BY <1>a, <4>1, <4>2
    <3>4. CASE ~(ok /\ r.action = "DROP" /\ Covers(r, v, t))
      <4>1. /\ LastAbout("DROP", v, t)' = LastAbout("DROP", v, t)
            /\ LastAbout("DROP", v, t) # 0 =>
                 rows'[LastAbout("DROP", v, t)] = rows[LastAbout("DROP", v, t)]
        BY <3>2, <3>4, <2>0
      <4>2. atk_drop_action_table'[Pos(v, t)] = atk_drop_action_table[Pos(v, t)]
        BY <1>1, <3>4
      <4> QED BY <3>1, <4>1, <4>2
    <3> QED BY <3>3, <3>4
  <2>4. ASSUME NEW v \in Versions, NEW t \in Types
        PROVE  atk_dup_action_table'[Pos(v, t)] =
                 IF LastAbout("DUP", v, t)' = 0 THEN 0
                 ELSE DupCount(rows'[LastAbout("DUP", v, t)'].row.arg)
    <3>1. atk_dup_action_table[Pos(v, t)] =
            IF LastAbout("DUP", v, t) = 0 THEN 0
            ELSE DupCount(rows[LastAbout("DUP", v, t)].row.arg)
      BY DEF LastInv, LastRuleWins
    <3>2. "DUP" \in Kinds
      BY DEF Kinds
    <3>3. CASE ok /\ r.action = "DUP" /\ Covers(r, v, t)
      <4>1. LastAbout("DUP", v, t)' = Len(rows) + 1 /\ rows'[Len(rows) + 1].row = r
        BY <1>1, <3>2, <3>3, LastAfterRow
      <4>2. atk_dup_action_table'[Pos(v, t)] = DupCount(r.arg)
        BY <1>1, <3>3
      <4> QED BY <1>a, <4>1, <4>2
    <3>4. CASE ~(ok /\ r.action = "DUP" /\ Covers(r, v, t))
      <4>1. /\ LastAbout("DUP", v, t)' = LastAbout("DUP", v, t)
            /\ LastAbout("DUP", v, t) # 0 =>
                 rows'[LastAbout("DUP", v, t)] = rows[LastAbout("DUP", v, t)]
        BY <3>2, <3>4, <2>0
      <4>2. atk_dup_action_table'[Pos(v, t)] = atk_dup_action_table[Pos(v, t)]
        BY <1>1, <3>4
      <4> QED BY <3>1, <4>1, <4>2
    <3> QED BY <3>3, <3>4
  <2> QED BY <2>2, <2>3, <2>4 DEF LastInv, LastRuleWins
<1>2. ASSUME NEW r \in Rows, AddRule(r) PROVE LastInv'
  <2> DEFINE ver == normalize_ofp_ver_str(r.ver)
  <2>1. PICK t \in normalize_ofp_msg_type(ver, r.type) :
          /\ ~Rejects(r, t)
          /\ atk_drop_action_table' =
               IF r.action = "DROP"
               THEN Overwrite(atk_drop_action_table, Target(ver, t), Probability(r.arg))
               ELSE atk_drop_action_table
          /\ atk_dup_action_table' =
               IF r.action = "DUP"
               THEN Overwrite(atk_dup_action_table, Target(ver, t), DupCount(r.arg))
               ELSE atk_dup_action_table
    BY <1>2, AddRuleEffect
  <2>2. \A v \in Versions, u \in Types :
          Pos(v, u) \in Cells /\ (Pos(v, u) \in Target(ver, t) <=> Covers(r, v, u))
    BY <1>2, <2>1, PosInjective DEF Aimed, AddRule
  <2>3. rows' = Append(rows, [row |-> r, accepted |-> TRUE])
    BY <1>2 DEF AddRule
  <2> QED BY <1>1, <2>1, <2>2, <2>3 DEF Overwrite
<1>3. ASSUME NEW r \in Rows, RejectRule(r) PROVE LastInv'
  BY <1>1, <1>3 DEF RejectRule
<1>4. CASE UNCHANGED vars
  BY <1>4 DEF vars, LastInv, LastRuleWins, LastAbout
<1> QED BY <1>2, <1>3, <1>4 DEF Next

LEMMA LastAlways ==
  ASSUME \A r \in Rows : Aimed(r)
  PROVE  Spec => []LastInv
<1>1. Init => LastInv
  <2> SUFFICES ASSUME Init PROVE LastInv
    OBVIOUS
  <2>1. \A a \in Kinds, v \in Versions, t \in Types : LastAbout(a, v, t) = 0
    <3> SUFFICES ASSUME NEW a \in Kinds, NEW v \in Versions, NEW t \in Types
                 PROVE  Max({0} \cup About(a, v, t)) = 0
      BY DEF LastAbout, About
    <3>1. About(a, v, t) = {}
      BY DEF Init, About
    <3> QED BY <3>1, MaxIsLast
  <2>2. Len(rows) = 0
    BY DEF Init
  <2>3. \A v \in Versions, t \in Types : Pos(v, t) \in Cells
    BY PosInjective
  <2> QED BY <2>1, <2>2, <2>3 DEF Init, LastInv, LastRuleWins, Kinds
<1>2. TypeOK /\ LastInv /\ [Next]_vars => LastInv'
  BY LastStep
<1> QED BY <1>1, <1>2, TypeAlways, PTL DEF Spec

(* If each row aims at the cells of the messages it names, the tables hold *)
(* for each message what the last accepted rule about it says, for lists   *)
(* of any length, with overlapping wildcards and rejected rows.            *)
THEOREM LastRowDecides ==
  ASSUME \A r \in Rows : Aimed(r)
  PROVE  Spec => []LastRuleWins
<1>1. LastInv => LastRuleWins
  BY DEF LastInv
<1> QED BY <1>1, LastAlways, PTL

(* Rows with numbers and wildcards, rows of a given version with a name    *)
(* that the missing comma leaves in its place, rows for all versions with  *)
(* a name that has one number in all of them, and rows that cannot be      *)
(* read.                                                                   *)
PlainRow(r) == Numbered(r) \/ Named(r) \/ CommonNamed(r) \/ Unreadable(r)

LEMMA PlainIsAimed ==
  ASSUME NEW r, PlainRow(r)
  PROVE  Aimed(r)
<1>1. Unreadable(r) => Aimed(r)
  BY DEF Aimed
<1> QED BY <1>1, NumberedIsAimed, NamedIsAimed, CommonNamedIsAimed DEF PlainRow

(* Such rows aim at the cells of the messages they name, by the numbers of *)
(* the protocol (OFPT), not those of the alias tables; with any list of    *)
(* them the last accepted rule about a message decides.  CommaShiftsNames  *)
(* says what the rows left out do in 1.3 and 1.4.                          *)
THEOREM PlainListsHold ==
  ASSUME \A r \in Rows : PlainRow(r)
  PROVE  Spec => []LastRuleWins
<1>1. \A r \in Rows : Aimed(r)
  BY PlainIsAimed
<1> QED BY <1>1, LastRowDecides
=============================================================================
