---------------------------- MODULE TextParsers -----------------------------
(***************************************************************************)
(* csv.c and args.c.  Both parse in place: they overwrite bytes of the     *)
(* row with NUL and hand out pointers into it.  Memory is a sequence of    *)
(* characters, a pointer a position in it.  A word without a character     *)
(* that the parsers look at is one character here ("Hello").               *)
(*                                                                         *)
(* These are recursive operators, one call per turn of a loop of the code; *)
(* only TLC's runs use this module.                                        *)
(*                                                                         *)
(* A definition marked "mutant" is a slip that one of the properties must  *)
(* notice; it stands before the definition it would replace and is not     *)
(* used by the specification.                                              *)
(***************************************************************************)
EXTENDS Integers, SequencesExt

NUL == "NUL"
Digits == <<"0", "1", "2", "3", "4", "5", "6", "7", "8", "9">>

is_whitespace(c) == c \in {" ", "TAB"}

(* The first position from p on, and the last one up to p, that is not     *)
(* whitespace.                                                             *)
RECURSIVE SkipBlanks(_, _)
SkipBlanks(m, p) == IF is_whitespace(m[p]) THEN SkipBlanks(m, p + 1) ELSE p

RECURSIVE BackOverBlanks(_, _)
BackOverBlanks(m, p) == IF is_whitespace(m[p]) THEN BackOverBlanks(m, p - 1) ELSE p

(* The C string at p.                                                      *)
RECURSIVE CString(_, _)
CString(m, p) == IF m[p] = NUL THEN <<>> ELSE <<m[p]>> \o CString(m, p + 1)

-----------------------------------------------------------------------------
CutUntrimmed(m, p) == [m EXCEPT ![p] = NUL]               \* mutant

(* The comma at p and the whitespace before it become NUL.                 *)
Cut(m, p) ==
  LET back == BackOverBlanks(m, p - 1)
  IN  [i \in DOMAIN m |-> IF back < i /\ i <= p THEN NUL ELSE m[i]]

(* The comma that ends the field at p, 0 if there is none within maxlen    *)
(* characters, and the memory afterwards.                                  *)
RECURSIVE csv_find_next_comma(_, _, _, _)
csv_find_next_comma(m, p, maxlen, quote) ==
  IF maxlen = 0 THEN [mem |-> m, at |-> 0]
  ELSE IF quote = NUL /\ m[p] = "," THEN [mem |-> Cut(m, p), at |-> p]
  ELSE IF quote # NUL /\ m[p] = quote /\ m[p - 1] # "\\"
       THEN csv_find_next_comma([m EXCEPT ![p] = NUL], p + 1, maxlen - 1, NUL)
       ELSE csv_find_next_comma(m, p + 1, maxlen - 1, quote)

(* The fields found in the len characters at p, behind those found so far. *)
(* An opening quote moves the pointer but leaves len as it is.             *)
RECURSIVE csv_parse(_, _, _, _)
csv_parse(m, p, len, fields) ==
  LET start == SkipBlanks(m, p)
      left  == len - (start - p)
      quote == IF m[start] \in {"\"", "'"} THEN m[start] ELSE NUL
      data  == IF quote = NUL THEN start ELSE start + 1
      found == csv_find_next_comma(m, data, left, quote)
  IN  IF len = 0 THEN [mem |-> m, fields |-> fields]
      ELSE IF left <= 0 THEN [mem |-> [m EXCEPT ![p + len] = NUL], fields |-> fields]
      ELSE IF found.at = 0 THEN [mem |-> found.mem, fields |-> Append(fields, data)]
      ELSE csv_parse(found.mem, found.at + 1, left - (found.at - data + 1), Append(fields, data))

-----------------------------------------------------------------------------
is_int(s) == s # <<>> /\ ToSet(s) \subseteq ToSet(Digits)

(* -1 for what is not a number, 0 for an integer, 1 for a decimal number.  *)
is_float(s) ==
  LET dots == Len(SelectSeq(s, LAMBDA c : c = "."))
  IN  IF s # <<>> /\ ToSet(s) \subseteq ToSet(Digits) \cup {"."} /\ dots <= 1
      THEN dots ELSE -1

(* The digits a string starts with, as a number, with the sign before     *)
(* them: atoi, and the integer part of atof.                               *)
atoi_text(s) ==
  LET signed == s # <<>> /\ s[1] \in {"+", "-"}
      rest   == IF signed THEN Tail(s) ELSE s
      stop   == SelectInSeq(rest, LAMBDA c : c \notin ToSet(Digits))
      digits == IF stop = 0 THEN rest ELSE SubSeq(rest, 1, stop - 1)
      value  == FoldLeft(LAMBDA n, c : 10 * n + IndexFirstSubSeq(<<c>>, Digits) - 1, 0, digits)
  IN  IF signed /\ s[1] = "-" THEN -value ELSE value

(* The value of a node: type and number, or no value at all.               *)
Node(m, name, eq) ==
  LET type == is_float(CString(m, eq))
  IN  [name |-> CString(m, name),
       kind |-> IF eq = 0 THEN "noval"
                ELSE IF type = 1 THEN "float" ELSE IF type = 0 THEN "int" ELSE "str",
       n    |-> IF eq = 0 \/ type = -1 THEN 0 ELSE atoi_text(CString(m, eq))]

(* The arguments of the string at str, and the memory afterwards; name and *)
(* eq point to the name and, unless eq is 0, to the value of the argument  *)
(* under way.  The character behind '=' and its whitespace is not looked   *)
(* at.                                                                     *)
RECURSIVE args_parse(_, _, _, _, _)
args_parse(m, str, name, eq, args) ==
  LET cut   == [m EXCEPT ![BackOverBlanks(m, str - 1) + 1] = NUL]
      after == SkipBlanks(cut, IF m[str] = "&" THEN str + 1 ELSE str)
      value == SkipBlanks(cut, str + 1)
      found == Append(args, Node(cut, name, eq))
  IN  IF m[str] \in {"&", NUL}
      THEN IF cut[after] = NUL THEN [mem |-> cut, args |-> found]
           ELSE args_parse(cut, after, after, 0, found)
      ELSE IF m[str] = "="
           THEN args_parse(cut, value + 1, name, value, args)
           ELSE args_parse(m, str + 1, name, eq, args)

args_findLast(args, name) ==                              \* mutant
  SelectLastInSeq(args, LAMBDA a : a.name = <<name>>)

(* The first node of that name, 0 if there is none.                        *)
args_find(args, name) == SelectInSeq(args, LAMBDA a : a.name = <<name>>)
=============================================================================
