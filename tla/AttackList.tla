----------------------------- MODULE AttackList -----------------------------
(***************************************************************************)
(* attacker_read_rows and the parsing half of attacker_add_rule: lines of  *)
(* text go through one buffer, through the CSV parser and the argument     *)
(* parser, and become rows of AttackRules.                                 *)
(*                                                                         *)
(* The buffer is reused: behind the NUL of a row lie bytes of the rows     *)
(* before it, and the parsers overwrite bytes in place.  Position 1 of mem *)
(* is the byte before the buffer.                                          *)
(*                                                                         *)
(* A line is a record: `fields', what was written in each column, each a   *)
(* text with the quote and the whitespace around it, and `row', the row of *)
(* AttackRules the author means by it.                                     *)
(***************************************************************************)
EXTENDS AttackRules, TextParsers

CONSTANTS
  Lines,      \* the lines an attack list may have below its header
  Header,     \* its first line
  Fresh,      \* what a byte of memory that malloc hands out may hold
  MemSize     \* bound of the model: bytes of memory that are looked at

VARIABLES
  mem,        \* the buffer with the byte before it
  last        \* history: the last line below the header, and what was
              \* parsed: fields and arguments

listVars == <<vars, mem, last>>

-----------------------------------------------------------------------------
(***************************************************************************)
(* What an editor writes for a line.                                       *)
(***************************************************************************)
Blanks(n) == [i \in 1 .. n |-> " "]

Written(f) ==
  LET quote == IF f.quote = NUL THEN <<>> ELSE <<f.quote>>
  IN  Blanks(f.before) \o quote \o f.text \o quote \o Blanks(f.after)

(* The columns, a comma between them and a NUL behind them.                *)
Text(l) ==
  FlattenSeq([i \in DOMAIN l.fields |->
                Written(l.fields[i]) \o <<IF i = Len(l.fields) THEN NUL ELSE ",">>])

(* Appending a line to the buffer of length 0: what was behind it stays.   *)
Stored(m, l) ==
  LET text == Text(l)
  IN  [i \in DOMAIN m |-> IF i \in 2 .. Len(text) + 1 THEN text[i - 1] ELSE m[i]]

(* The memory malloc gives is not initialised; the header fills its start. *)
ListInit ==
  /\ Init
  /\ \E c \in Fresh :
       mem = Stored([i \in 1 .. MemSize |-> IF i \in {1, MemSize} THEN NUL ELSE c], Header)
  /\ last = <<>>

-----------------------------------------------------------------------------
(***************************************************************************)
(* The fields of a row, as the conversions of attack.c look at them.       *)
(***************************************************************************)
(* strncmp compares the first three characters; a dot makes no difference  *)
(* to anything else.                                                       *)
VersionField(s) ==
  LET dotted == IsPrefix(<<"1", ".">>, s) /\ Len(s) > 2 /\ s[3] \in ToSet(SubSeq(Digits, 1, 5))
      star   == s # <<>> /\ s[1] = "*"
  IN  [kind |-> IF dotted THEN "dotted" ELSE IF star THEN "star" ELSE "int",
       n    |-> IF star THEN 0 ELSE atoi_text(s),
       m    |-> IF dotted THEN atoi_text(<<s[3]>>) ELSE 0]

TypeField(s) ==
  [kind |-> CASE s # <<>> /\ s[1] = "*" -> "star" [] is_int(s) -> "int" [] OTHER -> "alias",
   n    |-> IF is_int(s) THEN atoi_text(s) ELSE 0,
   name |-> IF s # <<>> /\ s[1] # "*" /\ ~is_int(s) THEN s[1] ELSE "?"]

normalize_action_type(s) ==
  LET ids == <<"DROP", "DELAY", "DUP", "LIE">>
  IN  IF is_int(s)
      THEN IF atoi_text(s) \in 0 .. 3 THEN ids[atoi_text(s) + 1] ELSE "?"
      ELSE IF Len(s) = 1 /\ Contains(ids, s[1]) THEN s[1] ELSE "?"

(* The argument p of a DROP rule and r of a DUP rule.                      *)
ArgField(args, action) ==
  LET i == args_find(args, IF action = "DROP" THEN "p" ELSE "r")
  IN  IF action \notin {"DROP", "DUP"} \/ i = 0 THEN [kind |-> "none", n |-> 0]
      ELSE [kind |-> IF args[i].kind \in {"int", "float"} THEN args[i].kind ELSE "other",
            n    |-> args[i].n]

(* A row with the wrong number of columns.                                 *)
NoRow(count) ==
  [fields |-> count, ver |-> VersionField(<<>>), type |-> TypeField(<<>>),
   action |-> "?", arg |-> [kind |-> "none", n |-> 0]]

(* Whether attacker_add_rule gets as far as the arguments.                 *)
ParsesArgs(r) ==
  /\ ~Unreadable(r)
  /\ normalize_ofp_msg_type(normalize_ofp_ver_str(r.ver), r.type) # {OFP_MSG_TYPE_ERR}
  /\ r.action \in {"DROP", "DUP"}

(* The row that the texts of the columns and the arguments amount to.      *)
RowOf(texts, args) ==
  IF Len(texts) # ATTACKER_ROW_NUM_FIELDS THEN NoRow(Len(texts))
  ELSE [fields |-> 8, ver |-> VersionField(texts[4]), type |-> TypeField(texts[5]),
        action |-> normalize_action_type(texts[7]),
        arg |-> ArgField(args, normalize_action_type(texts[7]))]

(* attacker_add_rule up to the tables, given what csv_parse returned.      *)
AfterCsv(csv) ==
  LET texts == [i \in DOMAIN csv.fields |-> CString(csv.mem, csv.fields[i])]
      args  == args_parse(csv.mem, csv.fields[8], csv.fields[8], 0, <<>>)
      row   == RowOf(texts, args.args)
  IN  [mem |-> IF ParsesArgs(row) THEN args.mem ELSE csv.mem, texts |-> texts, row |-> row]

Parsed(m, l) == AfterCsv(csv_parse(Stored(m, l), 2, Len(Text(l)), <<>>))

(* The next line of the file.  A comment only passes through the buffer.   *)
ReadRow(l) ==
  /\ l.fields[1].text # <<"#">>
  /\ \E p \in {Parsed(mem, l)} :
       /\ AddRule(p.row) \/ RejectRule(p.row)
       /\ mem' = p.mem
       /\ last' = <<l, p.texts, p.row>>

SkipRow(l) ==
  /\ l.fields[1].text = <<"#">>
  /\ Len(rows) < MaxRows
  /\ mem' = Stored(mem, l)
  /\ UNCHANGED <<vars, last>>

ListNext == \E l \in Lines : ReadRow(l) \/ SkipRow(l)

ListSpec == ListInit /\ [][ListNext]_listVars

-----------------------------------------------------------------------------
(* What was written is what is parsed, whatever the rows before it left in *)
(* the buffer: the texts of the columns without the whitespace and the     *)
(* quotes around them, as many as there are commas outside quotes, and     *)
(* from them the version, type, action and argument the author meant.      *)
AsWritten ==
  last # <<>> =>
    /\ last[2] = [i \in DOMAIN last[1].fields |-> last[1].fields[i].text]
    /\ last[3] = last[1].row

(* csv.h: "Given a row of CSV string, return a C string pointer array and  *)
(* write the number of pointers to num_fields."  The number is that of     *)
(* this row.                                                               *)
CountsThisRow == last # <<>> => Len(last[2]) = Len(last[1].fields)
=============================================================================
