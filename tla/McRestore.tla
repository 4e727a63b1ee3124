----------------------------- MODULE McRestore -----------------------------
(***************************************************************************)
(* Restoring a Memory Card from a file.                                    *)
(*   installer/system.c        RestoreMemoryCard                           *)
(*   installer/mctools_rpc.c   MCToolsWriteBlock, MCToolsSync,             *)
(*                             MCToolsAsyncGetLastError, the end function  *)
(*   irx/source/mctools        WriteBlock, for MCTOOLS_WriteBlock          *)
(*                                                                         *)
(* The worker reads the blocks of the image into two buffers by turns;     *)
(* each is sent to the one buffer on the IOP, which writes it to the card  *)
(* while the worker reads the next.                                        *)
(*                                                                         *)
(* The contents of block b of the image are written b; Other is anything   *)
(* else, such as what the card held before.                                *)
(***************************************************************************)
EXTENDS Integers

CONSTANT NumBlocks

Block == 0 .. NumBlocks - 1
Other == NumBlocks
Data  == Block \cup {Other}
Bank  == {0, 1}           \* buffer1 is bank 0, buffer2 is bank 1

VARIABLES
  pc,          \* where the worker stands
  block,       \* block
  bank,        \* BlockBank
  buffer,      \* what buffer1 and buffer2 hold
  allocated,   \* whether they are allocated
  card,        \* what each block of the card holds
  result,      \* result: "ok", or the side of the error
  stop,        \* WorkerThreadCmd is WORKER_THREAD_CMD_STOP
  iopBuffer,   \* IopBuffer
  rpc,         \* the block of the MCTOOLS_WriteBlock request in progress
  endSema,     \* AsyncRpcEndSema
  lastError    \* the result in ReceiveBuffer

vars == <<pc, block, bank, buffer, allocated, card, result, stop,
          iopBuffer, rpc, endSema, lastError>>

NoRpc == -1
Outcome == {"ok", "error"}

(* The request before was MCTOOLS_FlushMCMANClusterCache, which returns 0. *)
Init ==
  /\ pc = "alloc"
  /\ block = 0
  /\ bank = 0
  /\ buffer = [b \in Bank |-> Other]
  /\ allocated = FALSE
  /\ card = [b \in Block |-> Other]
  /\ result = "ok"
  /\ stop = FALSE
  /\ iopBuffer = Other
  /\ rpc = NoRpc
  /\ endSema = 1
  /\ lastError = "ok"

Allocate ==
  /\ pc = "alloc"
  /\ \/ allocated' = TRUE /\ pc' = "loop" /\ UNCHANGED result
     \/ result' = "no_memory" /\ pc' = "done" /\ UNCHANGED allocated
  /\ UNCHANGED <<block, bank, buffer, card, stop, iopBuffer, rpc, endSema, lastError>>

MoreBlocks == block < NumBlocks

(* The loop condition and the test for a STOP. *)
Loop ==
  /\ pc = "loop"
  /\ pc' = IF MoreBlocks /\ ~ stop THEN "read" ELSE "last"
  /\ UNCHANGED <<block, bank, buffer, allocated, card, result, stop,
                 iopBuffer, rpc, endSema, lastError>>

(* fread: the whole block, or an error. *)
ReadFile ==
  /\ pc = "read"
  /\ \/ buffer' = [buffer EXCEPT ![bank] = block] /\ pc' = "sync" /\ UNCHANGED result
     \/ /\ buffer' = [buffer EXCEPT ![bank] = Other]
        /\ result' = "src" /\ pc' = "last"
  /\ UNCHANGED <<block, bank, allocated, card, stop, iopBuffer, rpc, endSema, lastError>>

RequestDone == endSema = 1

(* Mutant: the result of the block before is not looked at. *)
LastFailed_Never == FALSE

LastFailed == lastError = "error"

(* MCToolsSync(0) and MCToolsAsyncGetLastError: how the block before went. *)
Sync ==
  /\ pc = "sync"
  /\ RequestDone
  /\ IF LastFailed
       THEN result' = "dst" /\ pc' = "last"
       ELSE pc' = "write" /\ UNCHANGED result
  /\ UNCHANGED <<block, bank, buffer, allocated, card, stop,
                 iopBuffer, rpc, endSema, lastError>>

Sent == buffer[bank]

(* MCToolsWriteBlock: the block is copied to the IOP and the request sent, *)
(* or it cannot be sent.                                                   *)
WriteBlock ==
  /\ pc = "write"
  /\ endSema = 1
  /\ \/ /\ iopBuffer' = Sent
        /\ endSema' = 0
        /\ rpc' = block
        /\ bank' = 1 - bank
        /\ block' = block + 1
        /\ pc' = "loop"
        /\ UNCHANGED result
     \/ /\ iopBuffer' \in {iopBuffer, Sent}
        /\ result' = "dst" /\ pc' = "last"
        /\ UNCHANGED <<endSema, rpc, bank, block>>
  /\ UNCHANGED <<buffer, allocated, card, stop, lastError>>

(* After the loop: MCToolsSync(0), and the result of the last block. *)
SyncLast ==
  /\ pc = "last"
  /\ RequestDone
  /\ result' = IF result = "ok" /\ LastFailed THEN "dst" ELSE result
  /\ pc' = "free"
  /\ UNCHANGED <<block, bank, buffer, allocated, card, stop,
                 iopBuffer, rpc, endSema, lastError>>

Free ==
  /\ pc = "free"
  /\ allocated' = FALSE
  /\ pc' = "done"
  /\ UNCHANGED <<block, bank, buffer, card, result, stop,
                 iopBuffer, rpc, endSema, lastError>>

WorkerStep ==
  Allocate \/ Loop \/ ReadFile \/ Sync \/ WriteBlock \/ SyncLast \/ Free

(* MCTOOLS_WriteRpcEndFunc, when the request has been answered. *)
EndFunction == endSema' = 1

(* The IOP writes the block; after an error it may be as it was, erased,   *)
(* half written, or written but not verified.                              *)
RpcEnd ==
  /\ rpc # NoRpc
  /\ \/ card' = [card EXCEPT ![rpc] = iopBuffer] /\ lastError' = "ok"
     \/ \E d \in {Other, iopBuffer} :
          card' = [card EXCEPT ![rpc] = d] /\ lastError' = "error"
  /\ EndFunction
  /\ rpc' = NoRpc
  /\ UNCHANGED <<pc, block, bank, buffer, allocated, result, stop, iopBuffer>>

(* Main posts WORKER_THREAD_CMD_STOP, and does not take it back. *)
PostStop ==
  /\ ~ stop /\ pc # "done"
  /\ stop' = TRUE
  /\ UNCHANGED <<pc, block, bank, buffer, allocated, card, result,
                 iopBuffer, rpc, endSema, lastError>>

(* The next call, after a reboot of the IOP and for a card of its own. *)
Again ==
  /\ pc' = "alloc"
  /\ block' = 0 /\ bank' = 0
  /\ buffer' = [b \in Bank |-> Other] /\ allocated' = FALSE
  /\ card' = [b \in Block |-> Other]
  /\ result' = "ok" /\ stop' = FALSE
  /\ iopBuffer' = Other
  /\ rpc' = NoRpc /\ endSema' = 1 /\ lastError' = "ok"

Next == WorkerStep \/ RpcEnd \/ PostStop

Spec == Init /\ [][Next]_vars

(***************************************************************************)
(* Properties.                                                             *)
(***************************************************************************)
TypeOK ==
  /\ pc \in {"alloc", "loop", "read", "sync", "write", "last", "free", "done"}
  /\ block \in 0 .. NumBlocks
  /\ bank \in Bank
  /\ buffer \in [Bank -> Data]
  /\ allocated \in BOOLEAN
  /\ card \in [Block -> Data]
  /\ result \in {"ok", "src", "dst", "no_memory"}
  /\ stop \in BOOLEAN
  /\ iopBuffer \in Data
  /\ rpc \in Block \cup {NoRpc}
  /\ endSema \in {0, 1}
  /\ lastError \in Outcome

(* The buffer on the IOP holds the block the request names for as long as  *)
(* the IOP works on it, though the worker goes on with the next block      *)
(* (mctools_rpc.c:220-229).                                                *)
RequestIntact == rpc # NoRpc => iopBuffer = rpc

(* The blocks of the image go to the card, each to its own place and in    *)
(* order, and the restore only succeeds when the card has all of them.     *)
Status ==
  IF pc # "done" THEN "running"
  ELSE IF result # "ok" THEN "failed"
  ELSE IF stop /\ \E b \in Block : card[b] # b THEN "stopped" ELSE "ok"

Copy == INSTANCE CardCopy
          WITH NumUnits <- NumBlocks, target <- card, status <- Status
CopySpec == Copy!Spec
=============================================================================
