------------------------------- MODULE Stream -------------------------------
(***************************************************************************)
(* The byte buffer of stream.c, as on_flow_read uses it to reassemble the  *)
(* messages of one TCP connection.                                         *)
(*                                                                         *)
(* Only bytes of the connection are ever copied in, in the order of the    *)
(* connection, so the contents are abstracted to a window of it: the       *)
(* buffer holds the bytes at offsets base, ..., base+len-1.  The field     *)
(* bytes says whether they are still those of the connection.              *)
(***************************************************************************)
EXTENDS Integers

CONSTANT
  OverlapCopies  \* what a memcpy of overlapping regions may leave behind:
                 \* bytes that are "intact" or "garbled"

Condition == {"intact", "garbled"}

ASSUME OverlapAssumption == OverlapCopies \subseteq Condition /\ OverlapCopies # {}

stream_t == [base : Nat, len : Nat, cap : Nat, bytes : Condition]

stream_new(size) == [base |-> 0, len |-> 0, cap |-> size, bytes |-> "intact"]

(* realloc to cap + size; the caller sees the failure branch.              *)
stream_expand(s, size) == [s EXCEPT !.cap = @ + size]

(* The next n bytes of the connection are copied behind the ones held:     *)
(* evbuffer_remove into data + len, then len += n.                         *)
Fill(s, n) == [s EXCEPT !.len = @ + n]

(* memcpy(data, data + size, len - size): source and destination overlap   *)
(* when more bytes are kept than are shifted out.                          *)
Overlaps(s, size) == size < s.len - size

stream_left_shift(s, size) ==
  { [base |-> s.base + size, len |-> s.len - size, cap |-> s.cap, bytes |-> c] :
      c \in IF s.bytes = "intact" /\ Overlaps(s, size) THEN OverlapCopies ELSE {s.bytes} }
=============================================================================
