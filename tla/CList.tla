-------------------------------- MODULE CList --------------------------------
(***************************************************************************)
(* eCos's circular lists (infra/clist.hxx), of threads and of alarms: each *)
(* is a sequence, its head first.                                          *)
(***************************************************************************)
EXTENDS Integers, Sequences, SequencesExt

PositionOf(s, e) == CHOOSE i \in DOMAIN s : s[i] = e

\* Cyg_CList::remove of node e
Without(s, e) == IF e \in ToSet(s) THEN RemoveAt(s, PositionOf(s, e)) ELSE s

\* Cyg_CList::rotate
Rotated(s) == IF s = <<>> THEN s ELSE Append(Tail(s), Head(s))

\* Cyg_CList::to_head moves the head pointer round the circle to node e:
\* the nodes before e come after all the others, in their order.
ToHead(s, e) ==
  IF e \in ToSet(s)
  THEN SubSeq(s, PositionOf(s, e), Len(s)) \o SubSeq(s, 1, PositionOf(s, e) - 1)
  ELSE s
==============================================================================
