------------------------------ MODULE MsgQueue -----------------------------
(***************************************************************************)
(* What a mailbox or a message queue promises: a bounded queue whose mails *)
(* come out in the order they were sent, urgent ones first.                *)
(***************************************************************************)
EXTENDS Naturals, Sequences

CONSTANTS Items, UrgentItems, Size, Nothing

VARIABLES q,    \* the items in the queue, oldest first
          out   \* the item last taken out

QInit == q = << >> /\ out = Nothing

Put(v)    == Len(q) < Size /\ q' = Append(q, v) /\ UNCHANGED out
Urgent(v) == Len(q) < Size /\ q' = <<v>> \o q /\ UNCHANGED out
Get       == q # << >> /\ out' = Head(q) /\ q' = Tail(q)
Reset     == q' = << >> /\ UNCHANGED out

QNext == \/ Reset
         \/ Get
         \/ \E v \in Items : Put(v)
         \/ \E v \in UrgentItems : Urgent(v)

QSpec == QInit /\ [][QNext]_<<q, out>>
=============================================================================
