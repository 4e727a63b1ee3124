------------------------------- MODULE McDump -------------------------------
(***************************************************************************)
(* Dumping a Memory Card to a file.                                        *)
(*   installer/system.c        DumpMemoryCard                              *)
(*   installer/mctools_rpc.c   MCToolsReadCluster, MCToolsSync,            *)
(*                             MCToolsAsyncGetLastError, the end function  *)
(*                                                                         *)
(* The worker reads cluster after cluster into two buffers by turns: while *)
(* the IOP fills one, the worker writes the other to the file.  The IOP    *)
(* runs on its own, and main may post a STOP at any time.                  *)
(*                                                                         *)
(* The contents of cluster c are written c; Junk is anything else.         *)
(***************************************************************************)
EXTENDS Integers, Sequences

CONSTANT NumClusters

Cluster == 0 .. NumClusters - 1
Junk    == NumClusters
Data    == Cluster \cup {Junk}
Bank    == {0, 1}         \* buffer1 is bank 0, buffer2 is bank 1
Other(b) == 1 - b

VARIABLES
  pc,          \* where the worker stands
  cluster,     \* cluster
  bank,        \* ClusterBank
  buffer,      \* what buffer1 and buffer2 hold
  allocated,   \* whether they are allocated
  file,        \* the clusters written to the dump file
  result,      \* result: "ok", or the side of the error
  stop,        \* WorkerThreadCmd is WORKER_THREAD_CMD_STOP
  rpc,         \* the MCTOOLS_ReadCluster request the IOP works on
  endSema,     \* AsyncRpcEndSema
  lastError    \* the result in ReceiveBuffer

vars == <<pc, cluster, bank, buffer, allocated, file, result, stop,
          rpc, endSema, lastError>>

NoRpc == [cluster |-> 0, bank |-> -1]
Rpc   == {NoRpc} \cup [cluster : Cluster, bank : Bank]
Outcome == {"ok", "error"}

(* The request before was MCTOOLS_FlushMCMANClusterCache, which returns 0. *)
Init ==
  /\ pc = "alloc"
  /\ cluster = 0
  /\ bank = 0
  /\ buffer = [b \in Bank |-> Junk]
  /\ allocated = FALSE
  /\ file = <<>>
  /\ result = "ok"
  /\ stop = FALSE
  /\ rpc = NoRpc
  /\ endSema = 1
  /\ lastError = "ok"

Allocate ==
  /\ pc = "alloc"
  /\ \/ allocated' = TRUE /\ pc' = "loop" /\ UNCHANGED result
     \/ result' = "no_memory" /\ pc' = "done" /\ UNCHANGED allocated
  /\ UNCHANGED <<cluster, bank, buffer, file, stop, rpc, endSema, lastError>>

MoreClusters == cluster < NumClusters

(* The loop condition and the test for a STOP. *)
Loop ==
  /\ pc = "loop"
  /\ pc' = IF MoreClusters /\ ~ stop THEN "read" ELSE "last"
  /\ UNCHANGED <<cluster, bank, buffer, allocated, file, result, stop,
                 rpc, endSema, lastError>>

(* MCToolsReadCluster: the request is sent, or cannot be (no IOP memory,   *)
(* or SifCallRpc fails and the semaphore is given back).  From then on the *)
(* IOP may write to the buffer.                                            *)
ReadCluster ==
  /\ pc = "read"
  /\ endSema = 1
  /\ \/ /\ endSema' = 0
        /\ rpc' = [cluster |-> cluster, bank |-> bank]
        /\ buffer' = [buffer EXCEPT ![bank] = Junk]
        /\ pc' = "write"
        /\ UNCHANGED result
     \/ /\ result' = "src"
        /\ pc' = "last"
        /\ UNCHANGED <<endSema, rpc, buffer>>
  /\ UNCHANGED <<cluster, bank, allocated, file, stop, lastError>>

(* fwrite: the whole buffer, or an error. *)
WriteBuffer(b) ==
  \/ file' = Append(file, buffer[b]) /\ UNCHANGED result
  \/ result' = "dst" /\ UNCHANGED file

(* Mutant: the first pass writes too. *)
BothFilled_Always == TRUE

BothFilled == cluster > 0

(* The other buffer is written, except on the first pass. *)
WriteFile ==
  /\ pc = "write"
  /\ IF BothFilled THEN WriteBuffer(Other(bank)) ELSE UNCHANGED <<file, result>>
  /\ pc' = IF result' = "ok" THEN "sync" ELSE "last"
  /\ UNCHANGED <<cluster, bank, buffer, allocated, stop, rpc, endSema, lastError>>

(* Mutant: MCToolsSync(1), which does not wait. *)
RequestDone_NoWait == TRUE

RequestDone == endSema = 1

(* MCToolsSync(0) waits for the end of the request. *)
Sync ==
  /\ pc = "sync"
  /\ RequestDone
  /\ IF lastError = "error"
       THEN result' = "src" /\ pc' = "last" /\ UNCHANGED <<bank, cluster>>
       ELSE /\ bank' = Other(bank)
            /\ cluster' = cluster + 1
            /\ pc' = "loop"
            /\ UNCHANGED result
  /\ UNCHANGED <<buffer, allocated, file, stop, rpc, endSema, lastError>>

(* After the loop: the cluster that is not written yet. *)
WriteLast ==
  /\ pc = "last"
  /\ IF result = "ok" THEN WriteBuffer(Other(bank)) ELSE UNCHANGED <<file, result>>
  /\ pc' = "free"
  /\ UNCHANGED <<cluster, bank, buffer, allocated, stop, rpc, endSema, lastError>>

Free ==
  /\ pc = "free"
  /\ allocated' = FALSE
  /\ pc' = "done"
  /\ UNCHANGED <<cluster, bank, buffer, file, result, stop, rpc, endSema, lastError>>

WorkerStep ==
  Allocate \/ Loop \/ ReadCluster \/ WriteFile \/ Sync \/ WriteLast \/ Free

(* MCTOOLS_ReadRpcEndFunc, when the request has been answered. *)
EndFunction == endSema' = 1

(* The IOP: the cluster goes to the EE's buffer, the result to its         *)
(* ReceiveBuffer, and the end function signals the semaphore.              *)
RpcEnd ==
  /\ rpc # NoRpc
  /\ \/ /\ buffer' = [buffer EXCEPT ![rpc.bank] = rpc.cluster]
        /\ lastError' = "ok"
     \/ lastError' = "error" /\ UNCHANGED buffer
  /\ EndFunction
  /\ rpc' = NoRpc
  /\ UNCHANGED <<pc, cluster, bank, allocated, file, result, stop>>

(* Main posts WORKER_THREAD_CMD_STOP, and does not take it back. *)
PostStop ==
  /\ ~ stop /\ pc # "done"
  /\ stop' = TRUE
  /\ UNCHANGED <<pc, cluster, bank, buffer, allocated, file, result,
                 rpc, endSema, lastError>>

(* The next call, after a reboot of the IOP and with a file of its own. *)
Again ==
  /\ pc' = "alloc"
  /\ cluster' = 0 /\ bank' = 0
  /\ buffer' = [b \in Bank |-> Junk] /\ allocated' = FALSE
  /\ file' = <<>>
  /\ result' = "ok" /\ stop' = FALSE
  /\ rpc' = NoRpc /\ endSema' = 1 /\ lastError' = "ok"

Next == WorkerStep \/ RpcEnd \/ PostStop

Spec == Init /\ [][Next]_vars

(***************************************************************************)
(* Properties.                                                             *)
(***************************************************************************)
TypeOK ==
  /\ pc \in {"alloc", "loop", "read", "write", "sync", "last", "free", "done"}
  /\ cluster \in 0 .. NumClusters
  /\ bank \in Bank
  /\ buffer \in [Bank -> Data]
  /\ allocated \in BOOLEAN
  /\ file \in Seq(Data) /\ Len(file) <= NumClusters
  /\ result \in {"ok", "src", "dst", "no_memory"}
  /\ stop \in BOOLEAN
  /\ rpc \in Rpc
  /\ endSema \in {0, 1}
  /\ lastError \in Outcome

(* The IOP never has a request on a buffer that is not allocated, but when *)
(* the dump file could not be written: that way out of the loop skips      *)
(* MCToolsSync (system.c:2648-2652, 2674).                                 *)
BuffersHeld == rpc # NoRpc => allocated \/ result = "dst"

(* The dump file receives the clusters of the card, once each and in       *)
(* order, and the dump only succeeds when it has all of them.  One stray   *)
(* write is left out of account: the one of a dump that is stopped before  *)
(* its first cluster writes a buffer that nothing was read into.           *)
StoppedAtOnce == cluster = 0 /\ pc \in {"free", "done"} /\ stop

Target ==
  [c \in Cluster |->
     IF c < Len(file) /\ ~ StoppedAtOnce THEN file[c + 1] ELSE Junk]

Status ==
  IF pc # "done" THEN "running"
  ELSE IF result # "ok" THEN "failed"
  ELSE IF stop /\ \E c \in Cluster : Target[c] # c THEN "stopped" ELSE "ok"

Copy == INSTANCE CardCopy
          WITH NumUnits <- NumClusters, target <- Target, status <- Status
CopySpec == Copy!Spec
=============================================================================
