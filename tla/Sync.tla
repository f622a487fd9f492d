-------------------------------- MODULE Sync --------------------------------
(***************************************************************************)
(* The scheduler with its synchronization objects side by side: counting   *)
(* and binary semaphores, a mail box and a flag.  A thread waits in one of *)
(* them at a time, which waits says; being killed in the wait is common.   *)
(***************************************************************************)
EXTENDS Semaphore, BinarySemaphore, Mailbox, Flag

\* Each object has queues of its own.
ASSUME SyncAssumption ==
  /\ Semaphores \cap {BinQueue, GetQueue, PutQueue, FlagQueue} = {}
  /\ BinQueue \notin {GetQueue, PutQueue, FlagQueue}
  /\ FlagQueue \notin {GetQueue, PutQueue}

objects == <<count, state, boxvars, flagvars>>

SyncInit == SemInit /\ BoxInit /\ FlagInit /\ state = FALSE

SyncNext ==
  \/ SemStep /\ UNCHANGED <<state, boxvars, flagvars>>
  \/ BinStep /\ UNCHANGED <<count, boxvars, flagvars>>
  \/ BoxStep /\ UNCHANGED <<count, state, flagvars>>
  \/ FlagStep /\ UNCHANGED <<count, state, boxvars>>
  \/ WokenToExit /\ UNCHANGED objects
  \/ Next /\ UNCHANGED <<objects, waits>>

SyncSpec == SyncInit /\ [][SyncNext]_<<vars, objects, waits>>

\* Every variable of every object keeps its type.
SyncTypeOK ==
  /\ SemTypeOK
  /\ state \in BOOLEAN
  /\ BoxTypeOK
  /\ FlagTypeOK
==============================================================================
