----------------------------- MODULE PageCache -----------------------------
(***************************************************************************)
(* The write-back page cache of MCTOOLS.IRX.                               *)
(*   irx/source/mctools/src/cache.c   the cache                            *)
(*   irx/source/mctools/src/MCIO.c    whole blocks: read, erase, program   *)
(*                                                                         *)
(* The module runs on the IOP in one RPC thread, so an operation is never  *)
(* interrupted by another one; what can come between two accesses to the   *)
(* card is a fault of the card, an IOP reset or a power cut.  Every access *)
(* to the card is therefore a step of its own, and may fail.               *)
(*                                                                         *)
(* A page number is written <<block, offset>>: PageNum/CacheBlockSize and  *)
(* PageNum-BlockNum*CacheBlockSize are its two parts.                      *)
(***************************************************************************)
EXTENDS Naturals

CONSTANTS
  NumBlocks,    \* CacheCardSizeBlocks
  BlockSize,    \* CacheBlockSize, in pages
  CacheSize,    \* PAGE_CACHE_SIZE
  Value,        \* the contents callers write
  Erased        \* what a page holds between erase and program

ASSUME SizeAssumption ==
  /\ NumBlocks \in Nat \ {0}
  /\ BlockSize \in Nat \ {0}
  /\ CacheSize \in Nat \ {0}

ASSUME ErasedAssumption == Erased \notin Value

Data   == Value \cup {Erased}
Block  == 0 .. NumBlocks - 1
Offset == 0 .. BlockSize - 1
Page   == Block \X Offset
Slot   == 1 .. CacheSize

(* PageNum 0: the superblock, and also the PageNum of a slot that holds    *)
(* nothing.  The hit tests compare PageNum alone, so the cache is only     *)
(* correct for other pages; GetCardFilesystemSuperblock reads page 0 with  *)
(* McReadPage, and every other access is to a cluster of the FAT or to an  *)
(* allocatable cluster, so callers never pass it.                          *)
PageZero   == <<0, 0>>
CachedPage == Page \ {PageZero}

Flag == {"EXISTS", "DIRTY"}

VARIABLES
  card,         \* the Memory Card
  initialized,  \* CacheInitialized
  cache,        \* PageCache[]
  pc,           \* where the operation in progress stands
  request,      \* the read or write that waits for a flush
  blk,          \* BlockNum of FlushPageCache
  buf,          \* BlockBuffer of FlushPageCache
  idx,          \* i of WriteBlock
  result,       \* the result of the operation, or of the last block flushed
  out,          \* the data the last successful read returned
  lost          \* history: a fault hit writes that were not durable

vars == <<card, initialized, cache, pc, request, blk, buf, idx, result, out, lost>>

Results == {"ok", "error"}
NoRequest == [op |-> "none"]
Request ==
  [op : {"none"}] \cup [op : {"read"}, page : CachedPage]
    \cup [op : {"write"}, page : CachedPage, data : Value]

NoBuffer == [o \in Offset |-> Erased]

EmptySlot(d) == [page |-> PageZero, data |-> d, flags |-> {}]

(***************************************************************************)
(* What callers see.                                                       *)
(***************************************************************************)
Exists(i) == "EXISTS" \in cache[i].flags
Dirty(i)  == Exists(i) /\ "DIRTY" \in cache[i].flags

Cached(p, i) == Exists(i) /\ cache[i].page = p

DirtyPages == {p \in Page : \E i \in Slot : Dirty(i) /\ cache[i].page = p}

(* The block being rewritten lives in BlockBuffer until it is programmed. *)
Rewriting(p) == pc \in {"erase", "program"} /\ p[1] = blk

View ==
  [p \in Page |->
     IF \E i \in Slot : Cached(p, i)
       THEN cache[CHOOSE i \in Slot : Cached(p, i)].data
       ELSE IF Rewriting(p) THEN buf[p[2]] ELSE card[p]]

(***************************************************************************)
(* Initial state: the module has just been loaded, PageCache[] is zero.    *)
(***************************************************************************)
Init ==
  /\ card \in [Page -> Value]
  /\ initialized = FALSE
  /\ cache = [i \in Slot |-> EmptySlot(Erased)]
  /\ pc = "idle"
  /\ request = NoRequest
  /\ blk = 0
  /\ buf = NoBuffer
  /\ idx = 0
  /\ result = "ok"
  /\ out = Erased
  /\ lost = FALSE

(***************************************************************************)
(* The scans over PageCache[].                                             *)
(***************************************************************************)
FirstHit(i, p) ==
  /\ cache[i].page = p
  /\ \A j \in 1 .. i - 1 : cache[j].page # p

Miss(p) == \A i \in Slot : cache[i].page # p

FirstFree(i) ==
  /\ ~ Exists(i)
  /\ \A j \in 1 .. i - 1 : Exists(j)

Full == \A i \in Slot : Exists(i)

(* Mutant: only CACHE_FLAGS_DIRTY is cleared, and the pages are kept. *)
Dropped_Kept == [i \in Slot |-> [cache[i] EXCEPT !.flags = @ \ {"DIRTY"}]]

(***************************************************************************)
(* InitPageCache.  Whatever the cache held is dropped, flushed or not.     *)
(***************************************************************************)
Dropped == [i \in Slot |-> EmptySlot(cache[i].data)]

InitPageCache(ok) ==
  /\ pc = "idle"
  /\ cache' = Dropped
  /\ initialized' = ok
  /\ result' = IF ok THEN "ok" ELSE "error"
  /\ lost' = (lost \/ DirtyPages # {})
  /\ UNCHANGED <<card, pc, request, blk, buf, idx, out>>

(***************************************************************************)
(* ReadPageCached.                                                         *)
(***************************************************************************)
ReadHit(p) ==
  /\ pc = "idle" /\ initialized
  /\ \E i \in Slot : FirstHit(i, p) /\ out' = cache[i].data
  /\ result' = "ok"
  /\ UNCHANGED <<card, initialized, cache, pc, request, blk, buf, idx, lost>>

(* McReadPage into the first free slot; the slot stays free if it fails. *)
FillFromCard(p) ==
  \E i \in Slot :
    /\ FirstFree(i)
    /\ \/ /\ cache' = [cache EXCEPT ![i] =
                         [page |-> p, data |-> card[p], flags |-> {"EXISTS"}]]
          /\ out' = card[p]
          /\ result' = "ok"
       \/ /\ result' = "error"
          /\ UNCHANGED <<cache, out>>

ReadMiss(p) ==
  /\ pc = "idle" /\ initialized
  /\ Miss(p)
  /\ FillFromCard(p)
  /\ UNCHANGED <<card, initialized, pc, request, blk, buf, idx, lost>>

(* Without a cache, reads go to the card. *)
ReadUncached(p) ==
  /\ pc = "idle" /\ ~ initialized
  /\ \/ out' = card[p] /\ result' = "ok"
     \/ result' = "error" /\ UNCHANGED out
  /\ UNCHANGED <<card, initialized, cache, pc, request, blk, buf, idx, lost>>

(***************************************************************************)
(* WritePageCached.                                                        *)
(***************************************************************************)
WriteHit(p, d) ==
  /\ pc = "idle" /\ initialized
  /\ \E i \in Slot :
       /\ FirstHit(i, p)
       /\ cache' = [cache EXCEPT ![i] =
                      [page |-> p, data |-> d, flags |-> cache[i].flags \cup {"DIRTY"}]]
  /\ result' = "ok"
  /\ UNCHANGED <<card, initialized, pc, request, blk, buf, idx, out, lost>>

FillFromCaller(p, d) ==
  /\ \E i \in Slot :
       /\ FirstFree(i)
       /\ cache' = [cache EXCEPT ![i] =
                      [page |-> p, data |-> d, flags |-> {"EXISTS", "DIRTY"}]]
  /\ result' = "ok"

WriteMiss(p, d) ==
  /\ pc = "idle" /\ initialized
  /\ Miss(p)
  /\ FillFromCaller(p, d)
  /\ UNCHANGED <<card, initialized, pc, request, blk, buf, idx, out, lost>>

WriteUncached ==
  /\ pc = "idle" /\ ~ initialized
  /\ result' = "error"
  /\ UNCHANGED <<card, initialized, cache, pc, request, blk, buf, idx, out, lost>>

(***************************************************************************)
(* FlushPageCache, called by the EE or because no slot is free.            *)
(***************************************************************************)
BeginFlush(r) ==
  \/ /\ pc' = "flush" /\ request' = r
     /\ blk' = 0 /\ result' = "ok"
  \/ /\ result' = "error"                     \* malloc failed
     /\ UNCHANGED <<pc, request, blk>>

Flush ==
  /\ pc = "idle" /\ initialized
  /\ BeginFlush(NoRequest)
  /\ UNCHANGED <<card, initialized, cache, buf, idx, out, lost>>

FlushUncached ==
  /\ pc = "idle" /\ ~ initialized
  /\ result' = "ok"
  /\ UNCHANGED <<card, initialized, cache, pc, request, blk, buf, idx, out, lost>>

(* No slot is free: flush first, then look for a slot again. *)
FlushToMakeRoom(r) ==
  /\ r # NoRequest
  /\ \/ pc = "idle" /\ initialized /\ Miss(r.page)
     \/ pc = "retry" /\ request = r
  /\ Full
  /\ BeginFlush(r)
  /\ UNCHANGED <<card, initialized, cache, buf, idx, out, lost>>

MoreBlocks == blk < NumBlocks

DirtyInBlock == \E i \in Slot : Dirty(i) /\ cache[i].page[1] = blk

FlushSkip ==
  /\ pc = "flush" /\ MoreBlocks
  /\ ~ DirtyInBlock
  /\ blk' = blk + 1
  /\ result' = "ok"
  /\ UNCHANGED <<card, initialized, cache, pc, request, buf, idx, out, lost>>

(* BlockBuffer: the block as it is on the card, with the dirty pages over. *)
DirtySlot(o, i) == Dirty(i) /\ cache[i].page = <<blk, o>>

(* Mutant: the block is read after the dirty pages were copied to it. *)
Merged_ReadLast == [o \in Offset |-> card[<<blk, o>>]]

Merged ==
  [o \in Offset |->
     IF \E i \in Slot : DirtySlot(o, i)
       THEN cache[CHOOSE i \in Slot : DirtySlot(o, i)].data
       ELSE card[<<blk, o>>]]

(* The block is given up: its dirty pages are not on the card, but the     *)
(* loop goes on to the next block.                                         *)
GiveUpBlock ==
  /\ blk' = blk + 1 /\ idx' = 0 /\ buf' = NoBuffer
  /\ pc' = "flush"
  /\ result' = "error"
  /\ lost' = TRUE

FlushReadBlock ==
  /\ pc = "flush" /\ MoreBlocks
  /\ DirtyInBlock
  /\ \/ /\ buf' = Merged
        /\ pc' = "erase"
        /\ UNCHANGED <<blk, idx, result, lost>>
     \/ GiveUpBlock
  /\ UNCHANGED <<card, initialized, cache, request, out>>

(* Mutant: the erase takes the following block along. *)
ErasedBlock_TwoBlocks ==
  [p \in Page |-> IF p[1] \in {blk, blk + 1} THEN Erased ELSE card[p]]

ErasedBlock == [p \in Page |-> IF p[1] = blk THEN Erased ELSE card[p]]

(* An erase that fails may or may not have erased. *)
EraseBlock ==
  /\ pc = "erase"
  /\ \/ /\ card' = ErasedBlock
        /\ pc' = "program" /\ idx' = 0
        /\ UNCHANGED <<blk, buf, result, lost>>
     \/ /\ card' \in {card, ErasedBlock}
        /\ GiveUpBlock
  /\ UNCHANGED <<initialized, cache, request, out>>

ProgramPage ==
  /\ pc = "program"
  /\ \/ /\ card' = [card EXCEPT ![<<blk, idx>>] = buf[idx]]
        /\ IF idx + 1 < BlockSize
             THEN idx' = idx + 1 /\ UNCHANGED <<pc, blk, buf, result>>
             ELSE /\ idx' = 0 /\ buf' = NoBuffer
                  /\ pc' = "flush" /\ blk' = blk + 1
                  /\ result' = "ok"
        /\ UNCHANGED lost
     \/ GiveUpBlock /\ UNCHANGED card
  /\ UNCHANGED <<initialized, cache, request, out>>

(* All slots are free now, whatever happened to their pages. *)
FlushEnd ==
  /\ pc = "flush" /\ blk = NumBlocks
  /\ cache' = Dropped
  /\ IF request # NoRequest /\ result = "ok"
       THEN pc' = "retry" /\ UNCHANGED request
       ELSE pc' = "idle" /\ request' = NoRequest
  /\ blk' = 0
  /\ UNCHANGED <<card, initialized, buf, idx, result, out, lost>>

RetryPageRead ==
  /\ pc = "retry" /\ request.op = "read"
  /\ FillFromCard(request.page)
  /\ pc' = "idle" /\ request' = NoRequest
  /\ UNCHANGED <<card, initialized, blk, buf, idx, lost>>

RetryPageWrite ==
  /\ pc = "retry" /\ request.op = "write"
  /\ FillFromCaller(request.page, request.data)
  /\ pc' = "idle" /\ request' = NoRequest
  /\ UNCHANGED <<card, initialized, blk, buf, idx, out, lost>>

(***************************************************************************)
(* The IOP is reset (every EE operation that used MCTOOLS ends so) or the  *)
(* console loses power: the card keeps what it has, the module is loaded   *)
(* anew.                                                                   *)
(***************************************************************************)
IopReset ==
  /\ initialized' = FALSE
  /\ cache' = Dropped
  /\ pc' = "idle" /\ request' = NoRequest
  /\ blk' = 0 /\ idx' = 0 /\ buf' = NoBuffer
  /\ lost' = (lost \/ DirtyPages # {})
  /\ UNCHANGED <<card, result, out>>

FlushStep ==
  \/ FlushSkip \/ FlushReadBlock \/ EraseBlock \/ ProgramPage \/ FlushEnd
  \/ RetryPageRead \/ RetryPageWrite

Next ==
  \/ \E ok \in BOOLEAN : InitPageCache(ok)
  \/ \E p \in CachedPage : ReadHit(p) \/ ReadMiss(p) \/ ReadUncached(p)
  \/ \E p \in CachedPage, d \in Value : WriteHit(p, d) \/ WriteMiss(p, d)
  \/ WriteUncached
  \/ Flush
  \/ FlushUncached
  \/ \E r \in Request : FlushToMakeRoom(r)
  \/ FlushStep
  \/ IopReset

Spec == Init /\ [][Next]_vars

(* The RPC thread of the module runs whenever it is not waiting for a      *)
(* request, and an access to the card always returns.                      *)
FairSpec == Spec /\ WF_vars(FlushStep)

(***************************************************************************)
(* Properties.                                                             *)
(***************************************************************************)
TypeOK ==
  /\ card \in [Page -> Data]
  /\ initialized \in BOOLEAN
  /\ cache \in [Slot -> [page : Page, data : Data, flags : SUBSET Flag]]
  /\ pc \in {"idle", "flush", "erase", "program", "retry"}
  /\ request \in Request
  /\ blk \in 0 .. NumBlocks
  /\ buf \in [Offset -> Data]
  /\ idx \in Offset
  /\ result \in Results
  /\ out \in Data
  /\ lost \in BOOLEAN

(* cache.c:32 "A fact: Each page cannot occur twice in the cache."  The    *)
(* scans stop at the first match, so a second copy would be a stale one.   *)
UniquePage ==
  \A i, j \in Slot :
    Exists(i) /\ Exists(j) /\ cache[i].page = cache[j].page => i = j

(* Between operations a clean page in the cache is the page on the card,   *)
(* also after accesses that failed half-way: a block left erased or half   *)
(* programmed must not be covered up by a clean copy.                      *)
CleanMatchesCard ==
  pc = "idle" =>
    \A i \in Slot : Exists(i) /\ ~ Dirty(i) => cache[i].data = card[cache[i].page]

(* The card is only ever changed inside a block that has a page to flush:  *)
(* a flush that fails, or is cut short, can hurt no other block.           *)
OnlyDirtyBlocksTouched ==
  [][\A p \in Page :
       card'[p] # card[p] => \E q \in DirtyPages : q[1] = p[1]]_vars

(* The cache is an array of pages that reads back what was last written,   *)
(* flushes and evictions included, unless a fault is on record.            *)
BlockOfPage(p) == p[1]
Store == INSTANCE CardStore
           WITH store <- View, pending <- DirtyPages, lost <- lost, out <- out,
                BlockOf <- BlockOfPage
StoreSpec == Store!Spec

(* Every call returns: the goto RetryPageRead / RetryPageWrite loops find  *)
(* a free slot the second time round, or give up.                          *)
OperationReturns == pc # "idle" ~> pc = "idle"
=============================================================================
