------------------------------ MODULE Mailbox ------------------------------
(***************************************************************************)
(* A mail box (mboxt.inl): a ring of Size items, threads that wait to get  *)
(* and threads that wait to put, each with a queue of their own.           *)
(***************************************************************************)
EXTENDS Waiting

CONSTANTS
  GetQueue, PutQueue,  \* get_threadq, put_threadq
  Item, NoItem,
  Size                 \* CYGNUM_KERNEL_SYNCH_MBOX_QUEUE_SIZE

ASSUME MailboxAssumption ==
  /\ {GetQueue, PutQueue} \subseteq Queue
  /\ GetQueue # PutQueue
  /\ NoItem \notin Item
  /\ Size \in Nat \ {0}

VARIABLES
  box,    \* base, count, itemqueue
  item,   \* the argument of each thread's put(), while it waits
  got     \* the item that was got last

boxvars == <<box, item, got>>

Slot == 0 .. Size - 1

BoxInit ==
  /\ box = [base |-> 0, count |-> 0, itemqueue |-> [s \in Slot |-> NoItem]]
  /\ item = [t \in Thread |-> NoItem]
  /\ got = NoItem
------------------------------------------------------------------------------
(***************************************************************************)
(* The ring.  An index is compared with size and never taken modulo.       *)
(***************************************************************************)
\* ritem = itemqueue[ (count--, base++) ]
TakeItem ==
  /\ got' = box.itemqueue[box.base]
  /\ box' = [box EXCEPT !.count = @ - 1,
                        !.base  = IF @ + 1 >= Size THEN 0 ELSE @ + 1]

\* Mutant of StoreItem: the wrap of in is missed by one.
StoreItemWraps(i) ==
  LET in == box.base + box.count
  IN  /\ box' = [box EXCEPT
                   !.count = @ + 1,
                   !.itemqueue[IF Size < in THEN in - Size
                               ELSE IF in = Size THEN Size - 1 ELSE in] = i]
      /\ UNCHANGED got

\* in = base + (count++), and the wrap of it
InSlot ==
  LET in == box.base + box.count IN IF Size <= in THEN in - Size ELSE in

StoreItem(i) ==
  /\ box' = [box EXCEPT !.count = @ + 1, !.itemqueue[InSlot] = i]
  /\ UNCHANGED got
------------------------------------------------------------------------------
(***************************************************************************)
(* get() and put().                                                        *)
(***************************************************************************)
\* Mutant of GetLoop: nobody is told of the slot.
GetLoopSilent(j, timed) ==
  \/ /\ box.count > 0
     /\ TakeItem
     /\ Finish(j, timed)
     /\ UNCHANGED item
  \/ /\ box.count = 0
     /\ BlockOn(GoToSleep(j, GetQueue, timed), GetQueue, timed)
     /\ UNCHANGED boxvars

\* while( result && 0 == count ), result being true, and what follows it.
GetLoop(j, timed) ==
  \/ /\ box.count > 0
     /\ TakeItem
     /\ Finish(WakeFirst(j, PutQueue), timed)
     /\ UNCHANGED item
  \/ /\ box.count = 0
     /\ BlockOn(GoToSleep(j, GetQueue, timed), GetQueue, timed)
     /\ UNCHANGED boxvars

\* while( result && size == count ), result being true, and what follows it.
PutLoop(j, i, timed) ==
  \/ /\ box.count < Size
     /\ StoreItem(i)
     /\ Finish(WakeFirst(j, GetQueue), timed)
     /\ item' = [item EXCEPT ![Current] = NoItem]
  \/ /\ box.count = Size
     /\ BlockOn(GoToSleep(j, PutQueue, timed), PutQueue, timed)
     /\ item' = [item EXCEPT ![Current] = i]
     /\ UNCHANGED <<box, got>>

BoxGet == Calling("get") /\ GetLoop(k, FALSE)

BoxTimedGet == Calling("timed_get") /\ GetLoop(SetTimer(k, "TIMEOUT"), TRUE)

BoxPut(i) == Calling("put") /\ PutLoop(k, i, FALSE)

BoxTimedPut(i) ==
  Calling("timed_put") /\ PutLoop(SetTimer(k, "TIMEOUT"), i, TRUE)

\* A timeout in the past ends the call, even if it need not wait.
BoxPast ==
  /\ Calling("timed_get") \/ Calling("timed_put")
  /\ Finish(Alarm(SetTimer(k, "TIMEOUT"), Current), TRUE)
  /\ UNCHANGED boxvars

BoxGiveUp ==
  /\ InWait({GetQueue, PutQueue})
  /\ BrokenOff
  /\ Finish(k, waits[Current].timed)
  /\ item' = [item EXCEPT ![Current] = NoItem]
  /\ UNCHANGED <<box, got>>

BoxRetry ==
  \/ /\ InWait({GetQueue})
     /\ Spurious
     /\ GetLoop(k, waits[Current].timed)
  \/ /\ InWait({PutQueue})
     /\ Spurious
     /\ PutLoop(k, item[Current], waits[Current].timed)
------------------------------------------------------------------------------
(***************************************************************************)
(* tryget() and tryput(), by threads and by DSRs.                          *)
(***************************************************************************)
\* What the call does to the mail box, with j for the data it leaves.
TryGet(j) ==
  \/ /\ box.count = 0
     /\ j = k
     /\ UNCHANGED boxvars
  \/ /\ box.count > 0
     /\ j = WakeFirst(k, PutQueue)
     /\ TakeItem
     /\ UNCHANGED item

TryPut(j, i) ==
  \/ /\ box.count = Size
     /\ j = k
     /\ UNCHANGED boxvars
  \/ /\ box.count < Size
     /\ j = WakeFirst(k, GetQueue)
     /\ StoreItem(i)
     /\ UNCHANGED item

BoxTryGet ==
  /\ Calling("tryget")
  /\ \E j \in {k, WakeFirst(k, PutQueue)} : TryGet(j) /\ Update(j)
  /\ UNCHANGED waits

BoxTryPut(i) ==
  /\ Calling("tryput")
  /\ \E j \in {k, WakeFirst(k, GetQueue)} : TryPut(j, i) /\ Update(j)
  /\ UNCHANGED waits

BoxTryPutDSR(i) ==
  /\ DeviceCalling("tryput")
  /\ \E j \in {k, WakeFirst(k, GetQueue)} : TryPut(j, i) /\ DeviceUpdate(j)
  /\ UNCHANGED waits

BoxTryGetDSR ==
  /\ DeviceCalling("tryget")
  /\ \E j \in {k, WakeFirst(k, PutQueue)} : TryGet(j) /\ DeviceUpdate(j)
  /\ UNCHANGED waits
------------------------------------------------------------------------------
BoxStep ==
  \/ BoxGet \/ BoxTimedGet \/ BoxPast \/ BoxGiveUp \/ BoxRetry
  \/ BoxTryGet \/ BoxTryGetDSR
  \/ \E i \in Item :
       BoxPut(i) \/ BoxTimedPut(i) \/ BoxTryPut(i) \/ BoxTryPutDSR(i)

BoxNext ==
  \/ BoxStep
  \/ WokenToExit /\ UNCHANGED boxvars
  \/ Next /\ UNCHANGED <<boxvars, waits>>

BoxSpec ==
  /\ Init /\ BoxInit /\ waits = [t \in Thread |-> NoWait]
  /\ [][BoxNext]_<<vars, boxvars, waits>>
------------------------------------------------------------------------------
(***************************************************************************)
(* Safety.                                                                 *)
(***************************************************************************)
BoxTypeOK ==
  /\ box \in [base : Slot, count : 0 .. Size, itemqueue : [Slot -> Item \cup {NoItem}]]
  /\ item \in [Thread -> Item \cup {NoItem}]
  /\ got \in Item \cup {NoItem}

\* While threads wait to get there is for each item, and while threads wait to
\* put there is for each free slot, a woken thread on its way: neither a put
\* that finds putters waiting too, nor a timeout, a release or a barging
\* tryget() leaves an item with a thread asleep for it.  (Killed threads count
\* as on their way, as in Semaphore.)
NothingStranded ==
  /\ k.wait_queue[GetQueue] # <<>> => box.count <= Cardinality(Woken(GetQueue))
  /\ k.wait_queue[PutQueue] # <<>> =>
       Size - box.count <= Cardinality(Woken(PutQueue))

\* The ring implements a bounded first-in first-out buffer: each get takes the
\* oldest item, none is lost, doubled or overtaken, wherever base stands.
Contents ==
  [n \in 1 .. box.count |-> box.itemqueue[(box.base + n - 1) % Size]]

Fifo == INSTANCE Buffer WITH buffer <- Contents

ImplementsBuffer == Fifo!Spec
==============================================================================
