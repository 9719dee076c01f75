---------------------------- MODULE MessageRelay ----------------------------
(***************************************************************************)
(* What one direction of the proxy promises: the messages of the sender    *)
(* are taken one by one, in order, none left out and none taken twice, and *)
(* each one meets a fate that the rules allow.  A fate is the number of    *)
(* copies passed on, 0 for a message that is dropped.                      *)
(***************************************************************************)
EXTENDS Naturals, Sequences

CONSTANTS
  Messages,    \* what a sender may send
  Fates(_)     \* the fates allowed for a message

VARIABLES
  sent,        \* the messages sent, in order
  disp         \* the disposition of the messages taken, in order

vars == <<sent, disp>>

Init == sent = <<>> /\ disp = <<>>

Send(m) ==
  /\ sent' = Append(sent, m)
  /\ UNCHANGED disp

Take ==
  /\ Len(disp) < Len(sent)
  /\ \E k \in Fates(sent[Len(disp) + 1]) :
       disp' = Append(disp, [id |-> Len(disp) + 1, copies |-> k])
  /\ UNCHANGED sent

Next == Take \/ \E m \in Messages : Send(m)

Spec == Init /\ [][Next]_vars
=============================================================================
