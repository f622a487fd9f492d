------------------------------- MODULE Buffer -------------------------------
(***************************************************************************)
(* What a mail box promises: a bounded first-in first-out buffer.  Who puts*)
(* and who gets, and how they wait, is not seen.                           *)
(***************************************************************************)
EXTENDS Naturals, Sequences

CONSTANTS Item, Size, NoItem

VARIABLES
  buffer,  \* the items put and not yet got, the oldest first
  got      \* the last item got

Init ==
  /\ buffer = <<>>
  /\ got = NoItem

Put(i) ==
  /\ Len(buffer) < Size
  /\ buffer' = Append(buffer, i)
  /\ UNCHANGED got

Get ==
  /\ buffer # <<>>
  /\ got' = Head(buffer)
  /\ buffer' = Tail(buffer)

Next == Get \/ \E i \in Item : Put(i)

Spec == Init /\ [][Next]_<<buffer, got>>
==============================================================================
