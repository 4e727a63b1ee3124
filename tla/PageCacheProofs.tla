-------------------------- MODULE PageCacheProofs --------------------------
(***************************************************************************)
(* Safety of the page cache for every card geometry, cache size and set of *)
(* page contents.  Everything follows from one inductive invariant: the    *)
(* three properties, and two facts about the steps of a flush.             *)
(***************************************************************************)
EXTENDS PageCache, Integers, TLAPS

(* A flush leaves every slot free, so a retried request finds one. *)
RetryFindsFree == pc = "retry" => \A i \in Slot : ~ Exists(i)

(* A block is only rewritten while a dirty page of it is in the cache. *)
RewriteHasDirty == pc \in {"erase", "program"} => blk \in Block /\ DirtyInBlock

(* A free slot has PageNum 0, so no page callers use can match it. *)
FreeIsZero == \A i \in Slot : ~ Exists(i) => cache[i].page = PageZero

IInv ==
  /\ TypeOK
  /\ FreeIsZero
  /\ UniquePage
  /\ CleanMatchesCard
  /\ RetryFindsFree
  /\ RewriteHasDirty

(* A slot emptied by Dropped holds nothing. *)
LEMMA DroppedIsEmpty ==
  ASSUME TypeOK, cache' = Dropped
  PROVE  /\ cache' \in [Slot -> [page : Page, data : Data, flags : SUBSET Flag]]
         /\ \A i \in Slot : cache'[i].flags = {}
  <1>1. PageZero \in Page
    BY SizeAssumption DEF PageZero, Page, Block, Offset
  <1>2. QED
    BY <1>1 DEF TypeOK, Dropped, EmptySlot, Flag

(* The initial state satisfies the inductive invariant. *)
LEMMA InitIInv == Init => IInv
  <1> SUFFICES ASSUME Init PROVE IInv
    OBVIOUS
  <1>1. PageZero \in Page
    BY SizeAssumption DEF PageZero, Page, Block, Offset
  <1>2. TypeOK
    <2>1. card \in [Page -> Data]
      BY DEF Init, Data
    <2>2. cache \in [Slot -> [page : Page, data : Data, flags : SUBSET Flag]]
      BY <1>1 DEF Init, EmptySlot, Data, Flag
    <2>3. buf \in [Offset -> Data]
      BY DEF Init, NoBuffer, Data
    <2>4. blk \in 0 .. NumBlocks /\ idx \in Offset
      BY SizeAssumption DEF Init, Offset
    <2>5. request \in Request /\ result \in Results /\ out \in Data
      BY DEF Init, Request, NoRequest, Results, Data
    <2>6. QED
      BY <2>1, <2>2, <2>3, <2>4, <2>5 DEF TypeOK, Init
  <1>3. \A i \in Slot : ~ Exists(i)
    BY DEF Init, Exists, EmptySlot
  <1>4. FreeIsZero
    BY DEF Init, FreeIsZero, EmptySlot
  <1>5. QED
    BY <1>2, <1>3, <1>4 DEF Init, IInv, UniquePage, CleanMatchesCard,
                            RetryFindsFree, RewriteHasDirty

(***************************************************************************)
(* Type correctness is kept by every step.                                 *)
(***************************************************************************)
LEMMA TypeStep ==
  ASSUME TypeOK, RewriteHasDirty, [Next]_vars
  PROVE  TypeOK'
  <1> USE DEF TypeOK
  <1>0. /\ NoBuffer \in [Offset -> Data]
        /\ 0 \in Offset
        /\ 0 \in 0 .. NumBlocks
        /\ NoRequest \in Request
    BY SizeAssumption DEF NoBuffer, Offset, Data, NoRequest, Request
  <1>1. ASSUME NEW ok \in BOOLEAN, InitPageCache(ok) PROVE TypeOK'
    BY <1>1, DroppedIsEmpty DEF InitPageCache, Results
  <1>2. ASSUME NEW p \in CachedPage, ReadHit(p) PROVE TypeOK'
    BY <1>2 DEF ReadHit, Results
  <1>fill. ASSUME NEW p \in CachedPage, FillFromCard(p)
           PROVE  /\ cache' \in [Slot -> [page : Page, data : Data, flags : SUBSET Flag]]
                  /\ out' \in Data
                  /\ result' \in Results
    BY <1>fill DEF FillFromCard, CachedPage, Flag, Results
  <1>put. ASSUME NEW p \in CachedPage, NEW d \in Value, FillFromCaller(p, d)
          PROVE  /\ cache' \in [Slot -> [page : Page, data : Data, flags : SUBSET Flag]]
                 /\ result' \in Results
    BY <1>put DEF FillFromCaller, CachedPage, Flag, Results, Data
  <1>3. ASSUME NEW p \in CachedPage, ReadMiss(p) PROVE TypeOK'
    BY <1>3, <1>fill DEF ReadMiss
  <1>4. ASSUME NEW p \in CachedPage, ReadUncached(p) PROVE TypeOK'
    BY <1>4 DEF ReadUncached, CachedPage, Results
  <1>5. ASSUME NEW p \in CachedPage, NEW d \in Value, WriteHit(p, d) PROVE TypeOK'
    <2>1. PICK i \in Slot :
            cache' = [cache EXCEPT ![i] =
              [page |-> p, data |-> d, flags |-> cache[i].flags \cup {"DIRTY"}]]
      BY <1>5 DEF WriteHit
    <2>2. cache[i].flags \cup {"DIRTY"} \in SUBSET Flag
      BY DEF Flag
    <2>3. p \in Page /\ d \in Data
      BY DEF CachedPage, Data
    <2>4. cache' \in [Slot -> [page : Page, data : Data, flags : SUBSET Flag]]
      BY <2>1, <2>2, <2>3
    <2>5. QED
      BY <1>5, <2>4 DEF WriteHit, Results
  <1>6. ASSUME NEW p \in CachedPage, NEW d \in Value, WriteMiss(p, d) PROVE TypeOK'
    BY <1>6, <1>put DEF WriteMiss
  <1>7. ASSUME WriteUncached \/ FlushUncached PROVE TypeOK'
    BY <1>7 DEF WriteUncached, FlushUncached, Results
  <1>8. ASSUME Flush PROVE TypeOK'
    BY <1>8, <1>0 DEF Flush, BeginFlush, Results
  <1>9. ASSUME NEW r \in Request, FlushToMakeRoom(r) PROVE TypeOK'
    BY <1>9, <1>0 DEF FlushToMakeRoom, BeginFlush, Results
  <1>10. ASSUME FlushSkip PROVE TypeOK'
    BY <1>10, SizeAssumption DEF FlushSkip, MoreBlocks, Results
  <1>11. ASSUME FlushReadBlock PROVE TypeOK'
    <2>1. Merged \in [Offset -> Data]
      <3> SUFFICES ASSUME NEW o \in Offset
                   PROVE  (IF \E i \in Slot : DirtySlot(o, i)
                             THEN cache[CHOOSE i \in Slot : DirtySlot(o, i)].data
                             ELSE card[<<blk, o>>]) \in Data
        BY DEF Merged
      <3>1. CASE \E i \in Slot : DirtySlot(o, i)
        <4>1. (CHOOSE i \in Slot : DirtySlot(o, i)) \in Slot
          BY <3>1
        <4>2. QED
          BY <3>1, <4>1
      <3>2. CASE ~ \E i \in Slot : DirtySlot(o, i)
        <4>1. <<blk, o>> \in Page
          BY <1>11, SizeAssumption DEF FlushReadBlock, MoreBlocks, Page, Block
        <4>2. QED
          BY <3>2, <4>1
      <3>3. QED
        BY <3>1, <3>2
    <2>2. CASE GiveUpBlock
      <3>1. blk' \in 0 .. NumBlocks
        BY <1>11, <2>2, SizeAssumption DEF FlushReadBlock, MoreBlocks, GiveUpBlock
      <3>2. QED
        BY <1>11, <1>0, <2>2, <3>1 DEF FlushReadBlock, GiveUpBlock, Results
    <2>3. CASE buf' = Merged /\ pc' = "erase" /\ UNCHANGED <<blk, idx, result, lost>>
      BY <1>11, <2>1, <2>3 DEF FlushReadBlock
    <2>4. QED
      BY <1>11, <2>2, <2>3 DEF FlushReadBlock
  <1>give. ASSUME GiveUpBlock, pc \in {"erase", "program"}
           PROVE  /\ blk' \in 0 .. NumBlocks /\ idx' \in Offset
                  /\ buf' \in [Offset -> Data] /\ result' \in Results
                  /\ pc' = "flush" /\ lost' \in BOOLEAN
    BY <1>give, <1>0, SizeAssumption DEF GiveUpBlock, Results, RewriteHasDirty, Block
  <1>12. ASSUME EraseBlock PROVE TypeOK'
    <2>1. ErasedBlock \in [Page -> Data]
      BY DEF ErasedBlock, Data
    <2>2. CASE GiveUpBlock /\ card' \in {card, ErasedBlock}
      BY <1>12, <1>give, <2>1, <2>2 DEF EraseBlock
    <2>3. CASE card' = ErasedBlock /\ pc' = "program" /\ idx' = 0
               /\ UNCHANGED <<blk, buf, result, lost>>
      BY <1>12, <1>0, <2>1, <2>3 DEF EraseBlock
    <2>4. QED
      BY <1>12, <2>2, <2>3 DEF EraseBlock
  <1>13. ASSUME ProgramPage PROVE TypeOK'
    <2>1. CASE GiveUpBlock /\ UNCHANGED card
      BY <1>13, <1>give, <2>1 DEF ProgramPage
    <2>2. CASE ~ (GiveUpBlock /\ UNCHANGED card)
      <3>1. card' \in [Page -> Data] /\ lost' \in BOOLEAN
        BY <1>13, <2>2 DEF ProgramPage
      <3>2. blk' \in 0 .. NumBlocks /\ result' \in Results
            /\ pc' \in {"flush", "program"}
        BY <1>13, <2>2, SizeAssumption
           DEF ProgramPage, RewriteHasDirty, Block, Results
      <3>3. idx' \in Offset
        BY <1>13, <1>0, <2>2, SizeAssumption DEF ProgramPage, Offset
      <3>4. buf' \in [Offset -> Data]
        BY <1>13, <1>0, <2>2 DEF ProgramPage
      <3>5. QED
        BY <1>13, <3>1, <3>2, <3>3, <3>4 DEF ProgramPage
    <2>3. QED
      BY <2>1, <2>2
  <1>14. ASSUME FlushEnd PROVE TypeOK'
    BY <1>14, <1>0, DroppedIsEmpty DEF FlushEnd
  <1>15. ASSUME RetryPageRead PROVE TypeOK'
    <2>1. request.page \in CachedPage
      BY <1>15 DEF RetryPageRead, Request
    <2>2. QED
      BY <1>15, <1>0, <1>fill, <2>1 DEF RetryPageRead
  <1>16. ASSUME RetryPageWrite PROVE TypeOK'
    <2>1. request.page \in CachedPage /\ request.data \in Value
      BY <1>16 DEF RetryPageWrite, Request
    <2>2. QED
      BY <1>16, <1>0, <1>put, <2>1 DEF RetryPageWrite
  <1>17. ASSUME IopReset PROVE TypeOK'
    BY <1>17, <1>0, DroppedIsEmpty DEF IopReset
  <1>18. CASE UNCHANGED vars
    BY <1>18 DEF vars
  <1>19. QED
    BY <1>1, <1>2, <1>3, <1>4, <1>5, <1>6, <1>7, <1>8, <1>9, <1>10, <1>11,
       <1>12, <1>13, <1>14, <1>15, <1>16, <1>17, <1>18 DEF Next, FlushStep

(***************************************************************************)
(* How a step can change the cache: it leaves it alone, empties it, or     *)
(* stores one page in one slot, and then no other slot holds that page.    *)
(***************************************************************************)
StoresOnePage ==
  \E i \in Slot, p \in CachedPage, d \in Data, f \in SUBSET Flag :
    /\ cache' = [cache EXCEPT ![i] = [page |-> p, data |-> d, flags |-> f]]
    /\ \A j \in Slot \ {i} : Exists(j) => cache[j].page # p
    /\ "EXISTS" \in f
    /\ "DIRTY" \in f \/ (d = card[p] /\ card' = card)
    /\ pc' = "idle" /\ pc \in {"idle", "retry"}
    /\ pc = "retry" \/ ~ Exists(i) \/ cache[i].page = p

CacheSteps ==
  \/ cache' = cache
  \/ cache' = Dropped /\ pc' \in {"idle", "retry"}
  \/ StoresOnePage

LEMMA CacheStep ==
  ASSUME IInv, [Next]_vars
  PROVE  CacheSteps
  <1> USE DEF CacheSteps
  <1>1. ASSUME NEW p \in CachedPage, FillFromCard(p),
               \A j \in Slot : Exists(j) => cache[j].page # p,
               pc' = "idle", pc \in {"idle", "retry"}, card' = card
        PROVE  cache' = cache \/ StoresOnePage
    <2>1. CASE cache' = cache
      BY <2>1
    <2>2. CASE cache' # cache
      <3>1. PICK i \in Slot :
              /\ ~ Exists(i)
              /\ cache' = [cache EXCEPT ![i] =
                             [page |-> p, data |-> card[p], flags |-> {"EXISTS"}]]
        BY <1>1, <2>2 DEF FillFromCard, FirstFree
      <3>2. card[p] \in Data /\ {"EXISTS"} \in SUBSET Flag
        BY DEF IInv, TypeOK, CachedPage, Flag
      <3>3. QED
        BY <1>1, <3>1, <3>2 DEF StoresOnePage
    <2>3. QED
      BY <2>1, <2>2
  <1>2. ASSUME NEW p \in CachedPage, NEW d \in Value, FillFromCaller(p, d),
               \A j \in Slot : Exists(j) => cache[j].page # p,
               pc' = "idle", pc \in {"idle", "retry"}
        PROVE  StoresOnePage
    <2>1. PICK i \in Slot :
            /\ ~ Exists(i)
            /\ cache' = [cache EXCEPT ![i] =
                           [page |-> p, data |-> d, flags |-> {"EXISTS", "DIRTY"}]]
      BY <1>2 DEF FillFromCaller, FirstFree
    <2> DEFINE f == {"EXISTS", "DIRTY"}
    <2>2. d \in Data /\ f \in SUBSET Flag /\ "EXISTS" \in f /\ "DIRTY" \in f
      BY DEF Data, Flag
    <2>3. cache' = [cache EXCEPT ![i] = [page |-> p, data |-> d, flags |-> f]]
      BY <2>1
    <2> HIDE DEF f
    <2>4. QED
      BY <1>2, <2>1, <2>2, <2>3 DEF StoresOnePage
  <1>3. ASSUME NEW ok \in BOOLEAN, InitPageCache(ok) PROVE CacheSteps
    BY <1>3 DEF InitPageCache
  <1>4. ASSUME NEW p \in CachedPage, ReadMiss(p) PROVE CacheSteps
    BY <1>4, <1>1 DEF ReadMiss, Miss
  <1>5. ASSUME NEW p \in CachedPage, NEW d \in Value, WriteHit(p, d) PROVE CacheSteps
    <2>1. PICK i \in Slot :
            /\ cache[i].page = p
            /\ cache' = [cache EXCEPT ![i] =
                 [page |-> p, data |-> d, flags |-> cache[i].flags \cup {"DIRTY"}]]
      BY <1>5 DEF WriteHit, FirstHit
    <2>2. CASE Exists(i)
      <3>1. \A j \in Slot \ {i} : Exists(j) => cache[j].page # p
        BY <2>1, <2>2 DEF IInv, UniquePage
      <3> DEFINE f == cache[i].flags \cup {"DIRTY"}
      <3>2. /\ d \in Data /\ f \in SUBSET Flag
            /\ "EXISTS" \in f /\ "DIRTY" \in f
        BY <2>2 DEF IInv, TypeOK, Data, Flag, Exists
      <3>3. cache' = [cache EXCEPT ![i] = [page |-> p, data |-> d, flags |-> f]]
        BY <2>1
      <3>4. pc = "idle" /\ pc' = "idle"
        BY <1>5 DEF WriteHit
      <3> HIDE DEF f
      <3>5. /\ cache' = [cache EXCEPT ![i] = [page |-> p, data |-> d, flags |-> f]]
            /\ \A j \in Slot \ {i} : Exists(j) => cache[j].page # p
            /\ "EXISTS" \in f
            /\ "DIRTY" \in f \/ (d = card[p] /\ card' = card)
            /\ pc' = "idle" /\ pc \in {"idle", "retry"}
            /\ pc = "retry" \/ ~ Exists(i) \/ cache[i].page = p
        BY <2>1, <3>1, <3>2, <3>3, <3>4
      <3>6. QED
        BY <3>2, <3>5 DEF StoresOnePage
    <2>3. CASE ~ Exists(i)
      BY <2>1, <2>3 DEF IInv, FreeIsZero, CachedPage
    <2>4. QED
      BY <2>2, <2>3
  <1>6. ASSUME NEW p \in CachedPage, NEW d \in Value, WriteMiss(p, d) PROVE CacheSteps
    BY <1>6, <1>2 DEF WriteMiss, Miss
  <1>7. ASSUME RetryPageRead PROVE CacheSteps
    <2>1. request.page \in CachedPage
      BY <1>7 DEF RetryPageRead, Request, IInv, TypeOK
    <2>2. QED
      BY <1>7, <1>1, <2>1 DEF RetryPageRead, IInv, RetryFindsFree
  <1>8. ASSUME RetryPageWrite PROVE CacheSteps
    <2>1. request.page \in CachedPage /\ request.data \in Value
      BY <1>8 DEF RetryPageWrite, Request, IInv, TypeOK
    <2>2. QED
      BY <1>8, <1>2, <2>1 DEF RetryPageWrite, IInv, RetryFindsFree
  <1>9. ASSUME FlushEnd \/ IopReset PROVE CacheSteps
    BY <1>9 DEF FlushEnd, IopReset
  <1>10. CASE \/ \E p \in CachedPage : ReadHit(p) \/ ReadUncached(p)
              \/ WriteUncached \/ Flush \/ FlushUncached
              \/ \E r \in Request : FlushToMakeRoom(r)
              \/ FlushSkip \/ FlushReadBlock \/ EraseBlock \/ ProgramPage
              \/ UNCHANGED vars
    BY <1>10 DEF ReadHit, ReadUncached, WriteUncached, Flush, FlushUncached,
                 FlushToMakeRoom, FlushSkip, FlushReadBlock, EraseBlock,
                 ProgramPage, vars
  <1>11. QED
    BY <1>3, <1>4, <1>5, <1>6, <1>7, <1>8, <1>9, <1>10 DEF Next, FlushStep

(* No page is ever in the cache twice after a step. *)
LEMMA UniqueStep ==
  ASSUME IInv, [Next]_vars
  PROVE  UniquePage'
  <1>1. CASE cache' = cache
    BY <1>1 DEF IInv, UniquePage, Exists
  <1>2. CASE cache' = Dropped
    BY <1>2, DroppedIsEmpty DEF IInv, UniquePage, Exists
  <1>3. CASE StoresOnePage
    BY <1>3 DEF StoresOnePage, IInv, TypeOK, UniquePage, Exists
  <1>4. QED
    BY <1>1, <1>2, <1>3, CacheStep DEF CacheSteps

(* A free slot keeps PageNum 0. *)
LEMMA FreeStep ==
  ASSUME IInv, [Next]_vars
  PROVE  FreeIsZero'
  <1>1. CASE cache' = cache
    BY <1>1 DEF IInv, FreeIsZero, Exists
  <1>2. CASE cache' = Dropped
    BY <1>2 DEF FreeIsZero, Dropped, EmptySlot
  <1>3. CASE StoresOnePage
    BY <1>3 DEF StoresOnePage, IInv, TypeOK, FreeIsZero, Exists
  <1>4. QED
    BY <1>1, <1>2, <1>3, CacheStep DEF CacheSteps

(* A clean page equals the card whenever no operation is in progress.      *)
LEMMA CleanStep ==
  ASSUME IInv, [Next]_vars
  PROVE  CleanMatchesCard'
  <1> SUFFICES ASSUME pc' = "idle", NEW i \in Slot, Exists(i)', ~ Dirty(i)'
               PROVE  cache'[i].data = card'[cache'[i].page]
    BY DEF CleanMatchesCard
  <1>1. CASE cache' = cache
    <2>1. pc = "idle" /\ card' = card
      <3>1. CASE EraseBlock \/ ProgramPage
        BY <3>1 DEF EraseBlock, ProgramPage, GiveUpBlock
      <3>2. CASE FlushEnd \/ IopReset
        BY <1>1, <3>2, DroppedIsEmpty DEF FlushEnd, IopReset, Exists, IInv
      <3>3. CASE RetryPageRead \/ RetryPageWrite
        BY <1>1, <3>3 DEF RetryPageRead, RetryPageWrite, IInv, RetryFindsFree, Exists
      <3>4. CASE FlushSkip \/ FlushReadBlock
        BY <3>4 DEF FlushSkip, FlushReadBlock, GiveUpBlock
      <3>5. CASE \E r \in Request : FlushToMakeRoom(r)
        BY <1>1, <3>5, SizeAssumption
           DEF FlushToMakeRoom, BeginFlush, IInv, RetryFindsFree, Full, Slot
      <3>6. QED
        BY <3>1, <3>2, <3>3, <3>4, <3>5
           DEF Next, FlushStep, InitPageCache, ReadHit, ReadMiss, ReadUncached,
               WriteHit, WriteMiss, WriteUncached, Flush, FlushUncached, vars
    <2>2. QED
      BY <1>1, <2>1 DEF IInv, CleanMatchesCard, Exists, Dirty
  <1>2. CASE cache' = Dropped
    BY <1>2, DroppedIsEmpty DEF IInv, Exists
  <1>3. CASE StoresOnePage
    <2>1. PICK k \in Slot, p \in CachedPage, d \in Data, f \in SUBSET Flag :
            /\ cache' = [cache EXCEPT ![k] = [page |-> p, data |-> d, flags |-> f]]
            /\ "DIRTY" \in f \/ (d = card[p] /\ card' = card)
            /\ pc \in {"idle", "retry"}
      BY <1>3 DEF StoresOnePage
    <2>2. card' = card
      BY <2>1 DEF Next, FlushStep, InitPageCache, ReadHit, ReadMiss, ReadUncached,
                  WriteHit, WriteMiss, WriteUncached, Flush, FlushUncached,
                  FlushToMakeRoom, FlushSkip, FlushReadBlock, EraseBlock,
                  ProgramPage, FlushEnd, RetryPageRead, RetryPageWrite, IopReset, vars
    <2>3. CASE i = k
      BY <2>1, <2>2, <2>3 DEF IInv, TypeOK, Exists, Dirty
    <2>4. CASE i # k
      <3>1. cache'[i] = cache[i]
        BY <2>1, <2>4 DEF IInv, TypeOK
      <3>2. pc = "idle"
        BY <2>1, <3>1 DEF IInv, RetryFindsFree, Exists
      <3>3. QED
        BY <2>2, <3>1, <3>2 DEF IInv, CleanMatchesCard, Exists, Dirty
    <2>5. QED
      BY <2>3, <2>4
  <1>4. QED
    BY <1>1, <1>2, <1>3, CacheStep DEF CacheSteps

(* A flush that ends to retry a request has freed every slot.              *)
LEMMA RetryStep ==
  ASSUME IInv, [Next]_vars
  PROVE  RetryFindsFree'
  <1> SUFFICES ASSUME pc' = "retry" PROVE \A i \in Slot : ~ Exists(i)'
    BY DEF RetryFindsFree
  <1>1. CASE FlushEnd
    BY <1>1, DroppedIsEmpty DEF FlushEnd, IInv, Exists
  <1>2. CASE ~ FlushEnd
    <2>1. pc = "retry" /\ cache' = cache
      BY <1>2 DEF Next, FlushStep, InitPageCache, ReadHit, ReadMiss, ReadUncached,
                  WriteHit, WriteMiss, WriteUncached, Flush, FlushUncached,
                  FlushToMakeRoom, BeginFlush, FlushSkip, FlushReadBlock, EraseBlock,
                  ProgramPage, GiveUpBlock, RetryPageRead, RetryPageWrite, IopReset,
                  vars
    <2>2. QED
      BY <2>1 DEF IInv, RetryFindsFree, Exists
  <1>3. QED
    BY <1>1, <1>2

(* A block is picked for rewriting because a page of it is dirty, and the  *)
(* cache does not change until the flush has ended.                        *)
LEMMA RewriteStep ==
  ASSUME IInv, [Next]_vars
  PROVE  RewriteHasDirty'
  <1> SUFFICES ASSUME pc' \in {"erase", "program"}
               PROVE  blk' \in Block /\ DirtyInBlock'
    BY DEF RewriteHasDirty
  <1>1. blk' = blk /\ cache' = cache
        /\ (pc \in {"erase", "program"} \/ (blk < NumBlocks /\ DirtyInBlock))
    BY DEF Next, FlushStep, InitPageCache, ReadHit, ReadMiss, ReadUncached,
           WriteHit, WriteMiss, WriteUncached, Flush, FlushUncached,
           FlushToMakeRoom, BeginFlush, FlushSkip, MoreBlocks, FlushReadBlock, EraseBlock,
           ProgramPage, GiveUpBlock, FlushEnd, RetryPageRead, RetryPageWrite,
           IopReset, vars
  <1>2. DirtyInBlock /\ blk \in Block
    BY <1>1, SizeAssumption DEF IInv, TypeOK, RewriteHasDirty, Block
  <1>3. QED
    BY <1>1, <1>2 DEF DirtyInBlock, Dirty, Exists

(***************************************************************************)
(* The theorems.                                                           *)
(***************************************************************************)

(* The inductive invariant holds of every execution of the cache. *)
THEOREM Invariant == Spec => []IInv
  <1>1. IInv /\ [Next]_vars => IInv'
    BY TypeStep, UniqueStep, FreeStep, CleanStep, RetryStep, RewriteStep DEF IInv
  <1>2. QED
    BY InitIInv, <1>1, PTL DEF Spec

(* Every variable keeps its type, whatever the card answers. *)
THEOREM TypeCorrect == Spec => []TypeOK
  <1>1. IInv => TypeOK
    BY DEF IInv
  <1>2. QED
    BY Invariant, <1>1, PTL

(* cache.c:32: a page never occurs twice in the cache. *)
THEOREM NoPageTwice == Spec => []UniquePage
  <1>1. IInv => UniquePage
    BY DEF IInv
  <1>2. QED
    BY Invariant, <1>1, PTL

(* Between operations, whatever faults the card had, the clean pages of the *)
(* cache are the pages on the card.                                        *)
THEOREM CleanPagesAreCurrent == Spec => []CleanMatchesCard
  <1>1. IInv => CleanMatchesCard
    BY DEF IInv
  <1>2. QED
    BY Invariant, <1>1, PTL

(* A page of the card changes only while a dirty page of its block waits   *)
(* to be written.                                                          *)
THEOREM CleanBlocksUntouched == Spec => OnlyDirtyBlocksTouched
  <1> DEFINE Touches == \A p \in Page : card'[p] # card[p] =>
                           \E q \in DirtyPages : q[1] = p[1]
  <1>1. IInv /\ [Next]_vars => [Touches]_vars
    <2> SUFFICES ASSUME IInv, [Next]_vars, NEW p \in Page, card'[p] # card[p]
                 PROVE  \E q \in DirtyPages : q[1] = p[1]
      OBVIOUS
    <2>1. EraseBlock \/ ProgramPage
      BY DEF Next, FlushStep, InitPageCache, ReadHit, ReadMiss, ReadUncached,
             WriteHit, WriteMiss, WriteUncached, Flush, FlushUncached,
             FlushToMakeRoom, FlushSkip, FlushReadBlock, FlushEnd,
             RetryPageRead, RetryPageWrite, IopReset, vars
    <2>2. PICK i \in Slot : Dirty(i) /\ cache[i].page[1] = blk
      BY <2>1 DEF EraseBlock, ProgramPage, IInv, RewriteHasDirty, DirtyInBlock
    <2>3. cache[i].page \in DirtyPages
      BY <2>2 DEF DirtyPages, IInv, TypeOK
    <2>4. p[1] = blk
      <3>1. CASE EraseBlock
        BY <3>1 DEF EraseBlock, ErasedBlock, IInv, TypeOK
      <3>2. CASE ProgramPage
        BY <3>2 DEF ProgramPage, IInv, TypeOK
      <3>3. QED
        BY <2>1, <3>1, <3>2
    <2>5. QED
      BY <2>2, <2>3, <2>4
  <1>2. QED
    BY Invariant, <1>1, PTL DEF Spec, OnlyDirtyBlocksTouched

(***************************************************************************)
(* The cache is an array of pages.                                         *)
(***************************************************************************)
(* Without a cache nothing is under way, and no slot is used.              *)
OffInv == ~ initialized => pc = "idle" /\ \A i \in Slot : ~ Exists(i)

NoDirtyIn(b) == \A j \in Slot : Dirty(j) => cache[j].page[1] # b

(* A clean page is the page on the card, in the blocks that have no dirty  *)
(* one, and in those that the flush has not come to.                       *)
CleanInv ==
  \A i \in Slot :
    Exists(i) /\ ~ Dirty(i)
      => \/ cache[i].data = card[cache[i].page]
         \/ /\ ~ NoDirtyIn(cache[i].page[1]) /\ pc \in {"flush", "erase", "program"}
            /\ \/ cache[i].page[1] < blk
               \/ cache[i].page[1] = blk /\ pc # "flush"

(* Without a fault, what the flush has passed is on the card.              *)
PassedInv ==
  ~ lost /\ pc \in {"flush", "erase", "program"} =>
    \A i \in Slot : Exists(i) /\ cache[i].page[1] < blk => cache[i].data = card[cache[i].page]

(* The buffer has the block that is rewritten, with all that is cached of  *)
(* it, and its first pages are on the card again.                          *)
BufInv ==
  /\ pc \in {"erase", "program"} =>
       \A i \in Slot : Exists(i) /\ cache[i].page[1] = blk => buf[cache[i].page[2]] = cache[i].data
  /\ pc = "program" => \A o \in Offset : o < idx => card[<<blk, o>>] = buf[o]

FInv == IInv /\ OffInv /\ CleanInv /\ PassedInv /\ BufInv

LEMMA InitFInv == Init => FInv
  <1>1. Init => \A i \in Slot : ~ Exists(i)
    BY DEF Init, Exists, EmptySlot
  <1>2. QED
    BY <1>1, InitIInv DEF Init, FInv, OffInv, CleanInv, PassedInv, BufInv

LEMMA InvStep == IInv /\ [Next]_vars => IInv'
  BY TypeStep, UniqueStep, FreeStep, CleanStep, RetryStep, RewriteStep DEF IInv

(* What a reader sees of a page. *)
LEMMA ViewIs ==
  ASSUME TypeOK, UniquePage
  PROVE  /\ View \in [Page -> Data]
         /\ \A p \in Page, i \in Slot : Cached(p, i) => View[p] = cache[i].data
         /\ \A p \in Page : (\A i \in Slot : ~ Cached(p, i))
              => View[p] = IF Rewriting(p) THEN buf[p[2]] ELSE card[p]
  <1>1. \A p \in Page, i \in Slot : Cached(p, i) => View[p] = cache[i].data
    <2> SUFFICES ASSUME NEW p \in Page, NEW i \in Slot, Cached(p, i)
                 PROVE  View[p] = cache[i].data
      OBVIOUS
    <2>1. \A j \in Slot : Cached(p, j) => j = i
      BY DEF Cached, UniquePage
    <2>2. (CHOOSE j \in Slot : Cached(p, j)) = i
      BY <2>1
    <2>3. QED
      BY <2>2 DEF View
  <1>2. \A p \in Page : (\A i \in Slot : ~ Cached(p, i))
              => View[p] = IF Rewriting(p) THEN buf[p[2]] ELSE card[p]
    BY DEF View
  <1>3. \A p \in Page : View[p] \in Data
    <2> SUFFICES ASSUME NEW p \in Page PROVE View[p] \in Data
      OBVIOUS
    <2>1. p[2] \in Offset
      BY DEF Page
    <2>2. CASE \E i \in Slot : Cached(p, i)
      BY <1>1, <2>2 DEF TypeOK
    <2>3. CASE \A i \in Slot : ~ Cached(p, i)
      BY <1>2, <2>1, <2>3 DEF TypeOK
    <2>4. QED
      BY <2>2, <2>3
  <1>4. QED
    BY <1>1, <1>2, <1>3 DEF View

LEMMA PageParts ==
  \A p \in Page : p = <<p[1], p[2]>> /\ p[1] \in Block /\ p[2] \in Offset
  BY DEF Page

LEMMA SlotPages ==
  ASSUME TypeOK, NEW i \in Slot
  PROVE  /\ cache[i].page \in Page /\ cache[i].data \in Data
         /\ cache[i].page = <<cache[i].page[1], cache[i].page[2]>>
         /\ cache[i].page[1] \in Block /\ cache[i].page[2] \in Offset
  <1>1. cache[i].page \in Page /\ cache[i].data \in Data
    BY DEF TypeOK
  <1>2. QED
    BY <1>1, PageParts

(* Only a flush leaves the idle state. *)
LEMMA OffStep ==
  ASSUME FInv, [Next]_vars
  PROVE  OffInv'
  <1> USE DEF FInv, IInv
  <1>1. CASE cache' = Dropped /\ pc' = "idle"
    BY <1>1, DroppedIsEmpty DEF OffInv, Exists
  <1>2. CASE initialized' = initialized /\ initialized
    BY <1>2 DEF OffInv
  <1>3. CASE UNCHANGED <<initialized, cache, pc>>
    BY <1>3 DEF OffInv, Exists
  <1>4. QED
    BY <1>1, <1>2, <1>3
       DEF Next, InitPageCache, ReadHit, ReadMiss, ReadUncached, WriteHit, WriteMiss, WriteUncached,
           Flush, FlushUncached, FlushToMakeRoom, FlushStep, FlushSkip, FlushReadBlock, EraseBlock,
           ProgramPage, FlushEnd, RetryPageRead, RetryPageWrite, IopReset, OffInv, vars, TypeOK

LEMMA IdleStep ==
  ASSUME FInv, [Next]_vars, pc' \in {"idle", "retry"}
  PROVE  CleanInv' /\ PassedInv' /\ BufInv'
  <1>1. IInv'
    BY InvStep DEF FInv
  <1>2. CleanInv'
    <2>1. CASE pc' = "idle"
      BY <1>1, <2>1 DEF IInv, CleanMatchesCard, CleanInv
    <2>2. CASE pc' = "retry"
      BY <1>1, <2>2 DEF IInv, RetryFindsFree, CleanInv
    <2>3. QED
      BY <2>1, <2>2
  <1>3. QED
    BY <1>2 DEF PassedInv, BufInv

LEMMA BeginStep ==
  ASSUME FInv, Flush \/ \E r \in Request : FlushToMakeRoom(r), pc' = "flush"
  PROVE  CleanInv' /\ PassedInv' /\ BufInv'
  <1> USE DEF FInv, IInv
  <1>1. /\ blk' = 0 /\ UNCHANGED <<card, cache>>
        /\ pc = "idle" \/ (pc = "retry" /\ Full)
    BY DEF Flush, FlushToMakeRoom, BeginFlush
  <1>2. pc = "idle"
    BY <1>1, SizeAssumption DEF RetryFindsFree, Full, Slot
  <1>3. CleanInv'
    BY <1>1, <1>2 DEF CleanMatchesCard, CleanInv, Exists, Dirty
  <1>4. PassedInv'
    <2> SUFFICES ASSUME NEW i \in Slot, cache'[i].page[1] < blk' PROVE FALSE
      BY DEF PassedInv
    <2>1. QED
      BY <1>1, SlotPages, SizeAssumption DEF Block
  <1>5. QED
    BY <1>3, <1>4 DEF BufInv

LEMMA SkipStep ==
  ASSUME FInv, FlushSkip
  PROVE  CleanInv' /\ PassedInv' /\ BufInv'
  <1> USE DEF FInv, IInv
  <1>1. /\ pc = "flush" /\ blk' = blk + 1 /\ NoDirtyIn(blk) /\ blk \in Nat
        /\ UNCHANGED <<card, cache, pc, lost>>
    BY DEF FlushSkip, DirtyInBlock, NoDirtyIn, TypeOK
  <1>2. \A i \in Slot : Exists(i) /\ ~ Dirty(i) /\ cache[i].page[1] = blk => cache[i].data = card[cache[i].page]
    BY <1>1 DEF CleanInv
  <1>3. \A i \in Slot : cache[i].page[1] \in Int
    BY SlotPages, SizeAssumption DEF Block
  <1>4. CleanInv'
    BY <1>1, <1>2, <1>3 DEF CleanInv, Exists, Dirty, NoDirtyIn
  <1>5. PassedInv'
    <2>1. \A i \in Slot : Exists(i) /\ cache[i].page[1] = blk => cache[i].data = card[cache[i].page]
      BY <1>1, <1>2 DEF NoDirtyIn
    <2>2. QED
      BY <1>1, <1>3, <2>1 DEF PassedInv, Exists
  <1>6. QED
    BY <1>1, <1>4, <1>5 DEF BufInv

(* The buffer is the block with the dirty pages over it. *)
LEMMA MergedIs ==
  ASSUME FInv, pc = "flush", NEW i \in Slot, Exists(i), cache[i].page[1] = blk
  PROVE  Merged[cache[i].page[2]] = cache[i].data
  <1> USE DEF FInv, IInv
  <1> DEFINE o == cache[i].page[2]
  <1>1. o \in Offset /\ cache[i].page = <<blk, o>> /\ blk \in Int
    BY SlotPages DEF TypeOK
  <1>2. \A j \in Slot : DirtySlot(o, j) => j = i
    BY <1>1 DEF UniquePage, DirtySlot, Dirty
  <1>3. CASE Dirty(i)
    <2>1. (CHOOSE j \in Slot : DirtySlot(o, j)) = i
      BY <1>1, <1>2, <1>3 DEF DirtySlot
    <2>2. QED
      BY <1>1, <1>3, <2>1 DEF Merged, DirtySlot
  <1>4. CASE ~ Dirty(i)
    <2>1. ~ \E j \in Slot : DirtySlot(o, j)
      BY <1>2, <1>4 DEF DirtySlot
    <2>2. cache[i].data = card[<<blk, o>>]
      BY <1>1, <1>4 DEF CleanInv
    <2>3. QED
      BY <1>1, <2>1, <2>2 DEF Merged
  <1>5. QED
    BY <1>3, <1>4

LEMMA GiveUpStep ==
  ASSUME FInv, FlushReadBlock \/ EraseBlock \/ ProgramPage, GiveUpBlock, card' \in {card, ErasedBlock}
  PROVE  CleanInv' /\ PassedInv' /\ BufInv'
  <1> USE DEF FInv, IInv
  <1>1. /\ pc \in {"flush", "erase", "program"} /\ blk' = blk + 1 /\ DirtyInBlock /\ blk \in Int
        /\ pc' = "flush" /\ lost' = TRUE /\ cache' = cache
    <2>1. DirtyInBlock /\ pc \in {"flush", "erase", "program"}
      BY DEF FlushReadBlock, EraseBlock, ProgramPage, RewriteHasDirty
    <2>2. blk \in Int
      BY DEF TypeOK
    <2>3. cache' = cache
      BY DEF FlushReadBlock, EraseBlock, ProgramPage
    <2>4. QED
      BY <2>1, <2>2, <2>3 DEF GiveUpBlock
  <1>2. ~ NoDirtyIn(blk)
    BY <1>1 DEF NoDirtyIn, DirtyInBlock
  <1>3. CleanInv'
    <2> SUFFICES ASSUME NEW i \in Slot, Exists(i), ~ Dirty(i)
                 PROVE  \/ cache[i].data = card'[cache[i].page]
                        \/ ~ NoDirtyIn(cache[i].page[1]) /\ cache[i].page[1] < blk + 1
      BY <1>1 DEF CleanInv, Exists, Dirty, NoDirtyIn
    <2>1. cache[i].page \in Page /\ cache[i].page[1] \in Int
      BY SlotPages, SizeAssumption DEF Block
    <2>2. CASE cache[i].page[1] = blk
      BY <1>1, <1>2, <2>2
    <2>3. CASE cache[i].page[1] # blk
      BY <1>1, <2>1, <2>3 DEF CleanInv, ErasedBlock
    <2>4. QED
      BY <2>2, <2>3
  <1>4. QED
    BY <1>1, <1>3 DEF PassedInv, BufInv

LEMMA ReadBlockStep ==
  ASSUME FInv, FlushReadBlock
  PROVE  CleanInv' /\ PassedInv' /\ BufInv'
  <1> USE DEF FInv, IInv
  <1>1. CASE GiveUpBlock
    BY <1>1, GiveUpStep DEF FlushReadBlock
  <1>2. CASE ~ GiveUpBlock
    <2>1. /\ pc = "flush" /\ pc' = "erase" /\ buf' = Merged /\ DirtyInBlock
          /\ UNCHANGED <<card, cache, blk, lost>>
      BY <1>2 DEF FlushReadBlock
    <2>2. CleanInv'
      BY <2>1 DEF CleanInv, Exists, Dirty, NoDirtyIn
    <2>3. PassedInv'
      BY <2>1 DEF PassedInv, Exists
    <2>4. BufInv'
      BY <2>1, MergedIs DEF BufInv, Exists
    <2>5. QED
      BY <2>2, <2>3, <2>4
  <1>3. QED
    BY <1>1, <1>2

LEMMA EraseStep ==
  ASSUME FInv, EraseBlock
  PROVE  CleanInv' /\ PassedInv' /\ BufInv'
  <1> USE DEF FInv, IInv
  <1>1. CASE GiveUpBlock /\ card' \in {card, ErasedBlock}
    BY <1>1, GiveUpStep
  <1>2. CASE ~ (GiveUpBlock /\ card' \in {card, ErasedBlock})
    <2>1. /\ pc = "erase" /\ pc' = "program" /\ card' = ErasedBlock /\ idx' = 0
          /\ UNCHANGED <<cache, blk, buf, lost>>
      BY <1>2 DEF EraseBlock
    <2>2. ~ NoDirtyIn(blk)
      BY <2>1 DEF RewriteHasDirty, DirtyInBlock, NoDirtyIn
    <2>3. \A i \in Slot : cache[i].page[1] # blk => card'[cache[i].page] = card[cache[i].page]
      BY <2>1, SlotPages DEF ErasedBlock
    <2>4. CleanInv'
      BY <2>1, <2>2, <2>3 DEF CleanInv, Exists, Dirty, NoDirtyIn
    <2>5. PassedInv'
      <3>1. \A i \in Slot : cache[i].page[1] < blk => cache[i].page[1] # blk
        BY SlotPages, SizeAssumption DEF Block, TypeOK
      <3>2. QED
        BY <2>1, <2>3, <3>1 DEF PassedInv, Exists
    <2>6. BufInv'
      BY <2>1, SizeAssumption DEF BufInv, Exists, Offset
    <2>7. QED
      BY <2>4, <2>5, <2>6
  <1>3. QED
    BY <1>1, <1>2

(* The block that was programmed to its end is the buffer.                 *)
LEMMA Programmed ==
  ASSUME FInv, ProgramPage, ~ (GiveUpBlock /\ UNCHANGED card), idx + 1 >= BlockSize
  PROVE  \A o \in Offset : card'[<<blk, o>>] = buf[o]
  <1> USE DEF FInv, IInv
  <1>1. pc = "program" /\ card' = [card EXCEPT ![<<blk, idx>>] = buf[idx]] /\ blk \in Block
    BY DEF ProgramPage, RewriteHasDirty
  <1>2. \A o \in Offset : <<blk, o>> \in Page
    BY <1>1 DEF Page
  <1>3. idx \in Offset /\ \A o \in Offset : o = idx \/ o < idx
    BY SizeAssumption DEF TypeOK, Offset
  <1>4. QED
    BY <1>1, <1>2, <1>3 DEF BufInv, TypeOK

LEMMA ProgramStep ==
  ASSUME FInv, ProgramPage
  PROVE  CleanInv' /\ PassedInv' /\ BufInv'
  <1> USE DEF FInv, IInv
  <1>1. CASE GiveUpBlock /\ UNCHANGED card
    BY <1>1, GiveUpStep
  <1>2. CASE ~ (GiveUpBlock /\ UNCHANGED card)
    <2>1. /\ pc = "program" /\ card' = [card EXCEPT ![<<blk, idx>>] = buf[idx]]
          /\ UNCHANGED <<cache, lost>> /\ blk \in Block /\ blk \in Int /\ idx \in Offset /\ idx \in Int
      BY <1>2, SizeAssumption DEF ProgramPage, RewriteHasDirty, TypeOK, Block, Offset
    <2>2. ~ NoDirtyIn(blk)
      BY <2>1 DEF RewriteHasDirty, DirtyInBlock, NoDirtyIn
    <2>3. \A i \in Slot : cache[i].page[1] # blk => card'[cache[i].page] = card[cache[i].page]
      BY <2>1, SlotPages DEF TypeOK
    <2>4. \A i \in Slot : cache[i].page[1] \in Int
      BY SlotPages, SizeAssumption DEF Block
    <2>5. CASE idx + 1 < BlockSize
      <3>1. idx' = idx + 1 /\ UNCHANGED <<pc, blk, buf>>
        BY <1>2, <2>5 DEF ProgramPage
      <3>2. CleanInv'
        BY <2>1, <2>2, <2>3, <3>1 DEF CleanInv, Exists, Dirty, NoDirtyIn
      <3>3. PassedInv'
        BY <2>1, <2>3, <2>4, <3>1 DEF PassedInv, Exists
      <3>4. \A o \in Offset : o < idx + 1 => card'[<<blk, o>>] = buf[o]
        <4>1. \A o \in Offset : <<blk, o>> \in Page
          BY <2>1 DEF Page
        <4>2. \A o \in Offset : o < idx + 1 => o < idx \/ o = idx
          BY <2>1, SizeAssumption DEF Offset
        <4>3. QED
          BY <2>1, <4>1, <4>2 DEF BufInv, TypeOK
      <3>5. BufInv'
        BY <2>1, <3>1, <3>4 DEF BufInv, Exists
      <3>6. QED
        BY <3>2, <3>3, <3>5
    <2>6. CASE ~ (idx + 1 < BlockSize)
      <3>1. pc' = "flush" /\ blk' = blk + 1
        BY <1>2, <2>6 DEF ProgramPage
      <3>2. idx + 1 >= BlockSize
        BY <2>1, <2>6, SizeAssumption
      <3>3. \A o \in Offset : card'[<<blk, o>>] = buf[o]
        BY <1>2, <3>2, Programmed
      <3>4. CleanInv'
        BY <2>1, <2>2, <2>3, <2>4, <3>1 DEF CleanInv, Exists, Dirty, NoDirtyIn
      <3>5. \A i \in Slot : Exists(i) /\ cache[i].page[1] = blk => cache[i].data = card'[cache[i].page]
        <4> SUFFICES ASSUME NEW i \in Slot, Exists(i), cache[i].page[1] = blk
                     PROVE  cache[i].data = card'[cache[i].page]
          OBVIOUS
        <4>1. cache[i].page = <<blk, cache[i].page[2]>> /\ cache[i].page[2] \in Offset
          BY SlotPages
        <4>2. buf[cache[i].page[2]] = cache[i].data
          BY <2>1 DEF BufInv
        <4>3. QED
          BY <3>3, <4>1, <4>2
      <3>6. PassedInv'
        BY <2>1, <2>3, <2>4, <3>1, <3>5 DEF PassedInv, Exists
      <3>7. QED
        BY <3>1, <3>4, <3>6 DEF BufInv
    <2>7. QED
      BY <2>5, <2>6
  <1>3. QED
    BY <1>1, <1>2

LEMMA FStep == FInv /\ [Next]_vars => FInv'
  <1> SUFFICES ASSUME FInv, [Next]_vars PROVE FInv'
    OBVIOUS
  <1>1. IInv' /\ OffInv'
    BY InvStep, OffStep DEF FInv
  <1>2. CleanInv' /\ PassedInv' /\ BufInv'
    <2>1. CASE pc' \in {"idle", "retry"}
      BY <2>1, IdleStep
    <2>2. CASE UNCHANGED vars
      BY <2>2 DEF vars, FInv, CleanInv, PassedInv, BufInv, Exists, Dirty, NoDirtyIn
    <2>3. CASE FlushSkip \/ FlushReadBlock \/ EraseBlock \/ ProgramPage
      BY <2>3, SkipStep, ReadBlockStep, EraseStep, ProgramStep
    <2>4. CASE pc' = "flush" /\ (Flush \/ \E r \in Request : FlushToMakeRoom(r))
      BY <2>4, BeginStep
    <2>5. CASE pc' \notin {"idle", "retry"}
      <3>1. \/ UNCHANGED vars \/ FlushSkip \/ FlushReadBlock \/ EraseBlock \/ ProgramPage
            \/ Flush \/ \E r \in Request : FlushToMakeRoom(r)
        BY <2>5 DEF Next, InitPageCache, ReadHit, ReadMiss, ReadUncached, WriteHit, WriteMiss,
           WriteUncached, FlushUncached, FlushStep, FlushEnd, RetryPageRead, RetryPageWrite, IopReset
      <3>2. Flush \/ (\E r \in Request : FlushToMakeRoom(r)) => pc' = "flush"
        BY <2>5 DEF Flush, FlushToMakeRoom, BeginFlush
      <3>3. QED
        BY <2>2, <2>3, <2>4, <3>1, <3>2
    <2>6. QED
      BY <2>1, <2>5
  <1>3. QED
    BY <1>1, <1>2 DEF FInv

LEMMA FInvariant == Spec => []FInv
  BY InitFInv, FStep, PTL DEF Spec

(* What an uncached page reads as.                                         *)
Under(p) == IF Rewriting(p) THEN buf[p[2]] ELSE card[p]

LEMMA FViewIs ==
  ASSUME FInv
  PROVE  /\ View \in [Page -> Data]
         /\ \A p \in Page, i \in Slot : Cached(p, i) => View[p] = cache[i].data
         /\ \A p \in Page : (\A i \in Slot : ~ Cached(p, i)) => View[p] = Under(p)
  BY ViewIs DEF FInv, IInv, Under

LEMMA FViewNext ==
  (FInv => /\ View \in [Page -> Data]
           /\ \A p \in Page, i \in Slot : Cached(p, i) => View[p] = cache[i].data
           /\ \A p \in Page : (\A i \in Slot : ~ Cached(p, i)) => View[p] = Under(p))'
  BY FViewIs, PTL

(* The steps that leave the cache alone and change nothing underneath.     *)
LEMMA StillView ==
  ASSUME FInv, FInv', cache' = cache,
         \A p \in Page : (\A i \in Slot : ~ Cached(p, i)) => Under(p)' = Under(p)
  PROVE  View' = View /\ DirtyPages' = DirtyPages
  <1>1. DirtyPages' = DirtyPages
    BY DEF DirtyPages, Dirty, Exists
  <1>2. \A p \in Page, i \in Slot : Cached(p, i)' <=> Cached(p, i)
    BY DEF Cached, Exists
  <1>3. \A p \in Page : View'[p] = View[p]
    <2> SUFFICES ASSUME NEW p \in Page PROVE View'[p] = View[p]
      OBVIOUS
    <2>1. CASE \E i \in Slot : Cached(p, i)
      BY <1>2, <2>1, FViewIs, FViewNext
    <2>2. CASE \A i \in Slot : ~ Cached(p, i)
      BY <1>2, <2>2, FViewIs, FViewNext
    <2>3. QED
      BY <2>1, <2>2
  <1>4. QED
    BY <1>1, <1>3, FViewIs, FViewNext

LEMMA QuietView ==
  ASSUME FInv, FInv', UNCHANGED <<card, cache>>,
         pc \notin {"erase", "program"}, pc' \notin {"erase", "program"}
  PROVE  View' = View /\ DirtyPages' = DirtyPages
  BY StillView DEF Under, Rewriting

(* The steps that store one page in one slot.                              *)
LEMMA OneSlot ==
  ASSUME FInv, FInv', NEW i \in Slot, NEW p \in CachedPage, NEW d \in Data, NEW f \in SUBSET Flag,
         cache' = [cache EXCEPT ![i] = [page |-> p, data |-> d, flags |-> f]],
         "EXISTS" \in f, card' = card,
         pc \notin {"erase", "program"}, pc' \notin {"erase", "program"},
         \A j \in Slot \ {i} : Exists(j) => cache[j].page # p,
         ~ Exists(i) \/ (cache[i].page = p /\ "DIRTY" \in f)
  PROVE  /\ View' = [View EXCEPT ![p] = d]
         /\ DirtyPages' = IF "DIRTY" \in f THEN DirtyPages \cup {p} ELSE DirtyPages
  <1>0. p \in Page /\ cache \in [Slot -> [page : Page, data : Data, flags : SUBSET Flag]]
    BY DEF CachedPage, FInv, IInv, TypeOK
  <1>1. /\ cache'[i].page = p /\ cache'[i].data = d /\ cache'[i].flags = f
        /\ \A j \in Slot \ {i} : cache'[j] = cache[j]
    BY <1>0
  <1>2. /\ Cached(p, i)'
        /\ \A q \in Page \ {p}, j \in Slot : Cached(q, j)' <=> Cached(q, j)
    BY <1>1 DEF Cached, Exists
  <1>3. \A q \in Page \ {p} : View'[q] = View[q]
    <2> SUFFICES ASSUME NEW q \in Page \ {p} PROVE View'[q] = View[q]
      OBVIOUS
    <2>1. CASE \E j \in Slot : Cached(q, j)
      <3>1. PICK j \in Slot : Cached(q, j)
        BY <2>1
      <3>2. j # i
        BY <3>1 DEF Cached
      <3>3. QED
        BY <1>1, <1>2, <3>1, <3>2, FViewIs, FViewNext
    <2>2. CASE \A j \in Slot : ~ Cached(q, j)
      BY <1>2, <2>2, FViewIs, FViewNext DEF Under, Rewriting
    <2>3. QED
      BY <2>1, <2>2
  <1>4. View'[p] = d
    BY <1>0, <1>1, <1>2, FViewNext
  <1>5. View' = [View EXCEPT ![p] = d]
    BY <1>0, <1>3, <1>4, FViewIs, FViewNext
  <1>6. \A j \in Slot \ {i} : Dirty(j)' <=> Dirty(j)
    BY <1>1 DEF Dirty, Exists
  <1>7. Dirty(i)' <=> "DIRTY" \in f
    BY <1>1 DEF Dirty, Exists
  <1>8. Dirty(i) => cache[i].page = p /\ "DIRTY" \in f
    BY DEF Dirty
  <1>9. DirtyPages' = IF "DIRTY" \in f THEN DirtyPages \cup {p} ELSE DirtyPages
    BY <1>0, <1>1, <1>6, <1>7, <1>8 DEF DirtyPages
  <1>10. QED
    BY <1>5, <1>9

(* Under a block with no dirty page there is what the card has.            *)
LEMMA SafeView ==
  ASSUME FInv, NEW p \in Page, \A q \in DirtyPages : q[1] # p[1]
  PROVE  View[p] = card[p]
  <1> USE DEF FInv, IInv
  <1>1. NoDirtyIn(p[1])
    <2> SUFFICES ASSUME NEW j \in Slot, Dirty(j) PROVE cache[j].page[1] # p[1]
      BY DEF NoDirtyIn
    <2>1. cache[j].page \in DirtyPages
      BY SlotPages DEF DirtyPages
    <2>2. QED
      BY <2>1
  <1>2. ASSUME NEW i \in Slot, Cached(p, i) PROVE View[p] = card[p]
    <2>1. Exists(i) /\ ~ Dirty(i) /\ cache[i].page = p
      BY <1>1, <1>2 DEF Cached, NoDirtyIn
    <2>2. cache[i].data = card[p]
      BY <1>1, <2>1 DEF CleanInv
    <2>3. QED
      BY <1>2, <2>2, FViewIs
  <1>3. ASSUME \A i \in Slot : ~ Cached(p, i) PROVE View[p] = card[p]
    <2>1. ~ Rewriting(p)
      BY <1>1 DEF Rewriting, RewriteHasDirty, DirtyInBlock, NoDirtyIn
    <2>2. QED
      BY <1>3, <2>1, FViewIs DEF Under
  <1>4. QED
    BY <1>2, <1>3

LEMMA DroppedView ==
  ASSUME FInv, FInv', cache' = Dropped, card' = card, pc' \notin {"erase", "program"}
  PROVE  /\ DirtyPages' = {}
         /\ \A p \in Page : View'[p] = card[p]
  <1>1. \A i \in Slot : ~ Exists(i)'
    BY DroppedIsEmpty DEF FInv, IInv, Exists
  <1>2. QED
    BY <1>1, FViewNext DEF DirtyPages, Dirty, Cached, Under, Rewriting

(* A reset or a flush that ends drops the cache: what a reader sees is the *)
(* card, and that differs only where a dirty page was lost.                *)
LEMMA DropIsDamage ==
  ASSUME FInv, FInv', cache' = Dropped, card' = card, out' = out,
         pc' \notin {"erase", "program"},
         lost' = (lost \/ DirtyPages # {})
  PROVE  [Store!Next]_(Store!vars)
  <1>1. DirtyPages' = {} /\ \A p \in Page : View'[p] = card[p]
    BY DroppedView
  <1>2. View' \in [Page -> Data] /\ View \in [Page -> Data]
    BY FViewIs, FViewNext
  <1>3. CASE DirtyPages = {}
    <2>1. \A p \in Page : View'[p] = View[p]
      BY <1>1, <1>3, SafeView
    <2>2. View' = View
      BY <1>2, <2>1
    <2>3. lost' = lost
      BY <1>3 DEF FInv, IInv, TypeOK
    <2>4. QED
      BY <1>1, <1>3, <2>2, <2>3 DEF Store!vars
  <1>4. CASE DirtyPages # {}
    <2>1. \A p \in Page \ Store!AtRisk : View'[p] = View[p]
      BY <1>1, SafeView DEF Store!AtRisk, BlockOfPage
    <2>2. Store!Damage
      BY <1>1, <1>2, <1>4, <2>1 DEF Store!Damage
    <2>3. QED
      BY <2>2 DEF Store!Next
  <1>5. QED
    BY <1>3, <1>4

(* A read and a write that get a slot. *)
LEMMA FillReads ==
  ASSUME FInv, FInv', NEW p \in CachedPage, FillFromCard(p),
         UNCHANGED <<card, lost>>, pc \notin {"erase", "program"}, pc' \notin {"erase", "program"},
         \A j \in Slot : Exists(j) => cache[j].page # p
  PROVE  [Store!Next]_(Store!vars)
  <1>0. p \in Page /\ card[p] \in Data
    BY DEF CachedPage, FInv, IInv, TypeOK
  <1>1. CASE UNCHANGED <<cache, out>>
    <2>1. View' = View /\ DirtyPages' = DirtyPages
      BY <1>1, QuietView
    <2>2. QED
      BY <1>1, <2>1 DEF Store!vars
  <1>2. CASE ~ UNCHANGED <<cache, out>>
    <2>1. PICK i \in Slot :
            /\ ~ Exists(i)
            /\ cache' = [cache EXCEPT ![i] = [page |-> p, data |-> card[p], flags |-> {"EXISTS"}]]
            /\ out' = card[p]
      BY <1>2 DEF FillFromCard, FirstFree
    <2> DEFINE f == {"EXISTS"}
    <2>a. /\ f \in SUBSET Flag /\ "EXISTS" \in f /\ "DIRTY" \notin f
          /\ \A j \in Slot \ {i} : Exists(j) => cache[j].page # p
          /\ ~ Exists(i) \/ (cache[i].page = p /\ "DIRTY" \in f)
      BY <2>1 DEF Flag
    <2>b. cache' = [cache EXCEPT ![i] = [page |-> p, data |-> card[p], flags |-> f]]
      BY <2>1
    <2>2. View' = [View EXCEPT ![p] = card[p]] /\ DirtyPages' = DirtyPages
      <3> HIDE DEF f
      <3>1. card' = card
        OBVIOUS
      <3>2. QED
        BY <1>0, <2>a, <2>b, <3>1, OneSlot
    <2>3. View[p] = card[p]
      BY <1>0, FViewIs DEF Cached, Under, Rewriting
    <2>4. View' = View
      BY <1>0, <2>2, <2>3, FViewIs
    <2>5. Store!Read(p)
      BY <2>1, <2>2, <2>3, <2>4 DEF Store!Read
    <2>6. QED
      BY <1>0, <2>5 DEF Store!Next
  <1>3. QED
    BY <1>1, <1>2

LEMMA FillWrites ==
  ASSUME FInv, FInv', NEW p \in CachedPage, NEW d \in Value, FillFromCaller(p, d),
         UNCHANGED <<card, lost, out>>, pc \notin {"erase", "program"}, pc' \notin {"erase", "program"},
         \A j \in Slot : Exists(j) => cache[j].page # p
  PROVE  [Store!Next]_(Store!vars)
  <1>0. p \in Page /\ d \in Data
    BY DEF CachedPage, Data
  <1>1. PICK i \in Slot :
          /\ ~ Exists(i)
          /\ cache' = [cache EXCEPT ![i] = [page |-> p, data |-> d, flags |-> {"EXISTS", "DIRTY"}]]
    BY DEF FillFromCaller, FirstFree
  <1> DEFINE f == {"EXISTS", "DIRTY"}
  <1>a. /\ f \in SUBSET Flag /\ "EXISTS" \in f /\ "DIRTY" \in f
        /\ \A j \in Slot \ {i} : Exists(j) => cache[j].page # p
        /\ ~ Exists(i) \/ (cache[i].page = p /\ "DIRTY" \in f)
    BY <1>1 DEF Flag
  <1>b. cache' = [cache EXCEPT ![i] = [page |-> p, data |-> d, flags |-> f]]
    BY <1>1
  <1>2. View' = [View EXCEPT ![p] = d] /\ DirtyPages' = DirtyPages \cup {p}
    <2> HIDE DEF f
    <2>1. card' = card
      OBVIOUS
    <2>2. QED
      BY <1>0, <1>a, <1>b, <2>1, OneSlot
  <1>3. Store!Write(p, d)
    BY <1>2 DEF Store!Write
  <1>4. QED
    BY <1>0, <1>3 DEF Store!Next

LEMMA HitReads ==
  ASSUME FInv, FInv', NEW p \in CachedPage, ReadHit(p)
  PROVE  [Store!Next]_(Store!vars)
  <1>0. p \in Page /\ p # PageZero
    BY DEF CachedPage
  <1>1. PICK i \in Slot : cache[i].page = p /\ out' = cache[i].data
    BY DEF ReadHit, FirstHit
  <1>2. Exists(i)
    BY <1>0, <1>1 DEF FInv, IInv, FreeIsZero
  <1>3. View[p] = out'
    BY <1>0, <1>1, <1>2, FViewIs DEF Cached
  <1>4. View' = View /\ DirtyPages' = DirtyPages /\ lost' = lost
    BY QuietView DEF ReadHit
  <1>5. Store!Read(p)
    BY <1>3, <1>4 DEF Store!Read
  <1>6. QED
    BY <1>0, <1>5 DEF Store!Next

LEMMA UncachedReads ==
  ASSUME FInv, FInv', NEW p \in CachedPage, ReadUncached(p)
  PROVE  [Store!Next]_(Store!vars)
  <1>0. p \in Page
    BY DEF CachedPage
  <1>1. View' = View /\ DirtyPages' = DirtyPages /\ lost' = lost
    BY QuietView DEF ReadUncached
  <1>2. View[p] = card[p]
    BY <1>0, FViewIs DEF ReadUncached, FInv, OffInv, Cached, Under, Rewriting
  <1>3. CASE out' = out
    BY <1>1, <1>3 DEF Store!vars
  <1>4. CASE out' = card[p]
    <2>1. Store!Read(p)
      BY <1>1, <1>2, <1>4 DEF Store!Read
    <2>2. QED
      BY <1>0, <2>1 DEF Store!Next
  <1>5. QED
    BY <1>3, <1>4 DEF ReadUncached

LEMMA HitWrites ==
  ASSUME FInv, FInv', NEW p \in CachedPage, NEW d \in Value, WriteHit(p, d)
  PROVE  [Store!Next]_(Store!vars)
  <1>0. p \in Page /\ p # PageZero /\ d \in Data
    BY DEF CachedPage, Data
  <1>1. PICK i \in Slot :
          /\ cache[i].page = p
          /\ cache' = [cache EXCEPT ![i] =
                         [page |-> p, data |-> d, flags |-> cache[i].flags \cup {"DIRTY"}]]
    BY DEF WriteHit, FirstHit
  <1>2. Exists(i)
    BY <1>0, <1>1 DEF FInv, IInv, FreeIsZero
  <1> DEFINE f == cache[i].flags \cup {"DIRTY"}
  <1>3. f \in SUBSET Flag /\ "EXISTS" \in f /\ "DIRTY" \in f
    BY <1>2 DEF Exists, FInv, IInv, TypeOK, Flag
  <1>4. \A j \in Slot \ {i} : Exists(j) => cache[j].page # p
    BY <1>1, <1>2 DEF FInv, IInv, UniquePage
  <1>5. card' = card /\ pc = "idle" /\ pc' = "idle" /\ UNCHANGED <<lost, out>>
    BY DEF WriteHit
  <1>6. cache' = [cache EXCEPT ![i] = [page |-> p, data |-> d, flags |-> f]]
    BY <1>1
  <1> HIDE DEF f
  <1>a. ~ Exists(i) \/ (cache[i].page = p /\ "DIRTY" \in f)
    BY <1>1, <1>3
  <1>b. pc \notin {"erase", "program"} /\ pc' \notin {"erase", "program"}
    BY <1>5
  <1>7. View' = [View EXCEPT ![p] = d] /\ DirtyPages' = DirtyPages \cup {p}
    BY <1>0, <1>3, <1>4, <1>5, <1>6, <1>a, <1>b, OneSlot
  <1>8. Store!Write(p, d)
    BY <1>5, <1>7 DEF Store!Write
  <1>9. QED
    BY <1>0, <1>8 DEF Store!Next

(* A block that is given up: what was not on the card is damaged, and with *)
(* it at most the other pages of the block.                                *)
LEMMA GiveUpIsDamage ==
  ASSUME FInv, FInv', FlushReadBlock \/ EraseBlock \/ ProgramPage, GiveUpBlock,
         card' \in {card, ErasedBlock}
  PROVE  [Store!Next]_(Store!vars)
  <1>1. DirtyInBlock /\ cache' = cache /\ out' = out /\ lost' = TRUE /\ pc' = "flush"
    BY DEF FlushReadBlock, EraseBlock, ProgramPage, FInv, IInv, RewriteHasDirty, GiveUpBlock
  <1>2. DirtyPages' = DirtyPages
    BY <1>1 DEF DirtyPages, Dirty, Exists
  <1>3. PICK i \in Slot : Dirty(i) /\ cache[i].page[1] = blk
    BY <1>1 DEF DirtyInBlock
  <1>4. cache[i].page \in DirtyPages
    BY <1>3 DEF DirtyPages, FInv, IInv, TypeOK
  <1>5. \A p \in Page, j \in Slot : Cached(p, j)' <=> Cached(p, j)
    BY <1>1 DEF Cached, Exists
  <1>6. ASSUME NEW p \in Page, p[1] # blk PROVE View'[p] = View[p]
    <2>1. card'[p] = card[p]
      BY <1>6 DEF ErasedBlock
    <2>2. Under(p)' = Under(p)
      BY <1>1, <1>6, <2>1 DEF Under, Rewriting
    <2>3. CASE \E j \in Slot : Cached(p, j)
      BY <1>1, <1>5, <2>3, FViewIs, FViewNext
    <2>4. CASE \A j \in Slot : ~ Cached(p, j)
      BY <1>5, <2>2, <2>4, FViewIs, FViewNext
    <2>5. QED
      BY <2>3, <2>4
  <1>7. \A p \in Page \ Store!AtRisk : p[1] # blk
    BY <1>3, <1>4 DEF Store!AtRisk, BlockOfPage
  <1>8. \A p \in Page \ Store!AtRisk : View'[p] = View[p]
    BY <1>6, <1>7
  <1>9. Store!Damage
    BY <1>1, <1>2, <1>4, <1>8, FViewNext DEF Store!Damage
  <1>10. QED
    BY <1>9 DEF Store!Next

(* The steps of a flush that succeed change nothing a reader sees. *)
LEMMA RewriteIsStill ==
  ASSUME FInv, FInv', FlushReadBlock \/ EraseBlock \/ ProgramPage
  PROVE  [Store!Next]_(Store!vars)
  <1>0. cache' = cache /\ out' = out
    BY DEF FlushReadBlock, EraseBlock, ProgramPage
  <1>a. \A p \in Page : p = <<p[1], p[2]>> /\ p[1] \in Block /\ p[2] \in Offset
    BY PageParts
  <1>1. CASE GiveUpBlock /\ card' \in {card, ErasedBlock}
    BY <1>1, GiveUpIsDamage
  <1>2. CASE FlushReadBlock /\ ~ GiveUpBlock
    <2>1. pc = "flush" /\ pc' = "erase" /\ buf' = Merged /\ UNCHANGED <<card, blk, lost>>
      BY <1>2 DEF FlushReadBlock
    <2>2. ASSUME NEW p \in Page, \A i \in Slot : ~ Cached(p, i)
          PROVE  Under(p)' = Under(p)
      <3>1. \A i \in Slot : p[1] = blk => ~ DirtySlot(p[2], i)
        BY <1>a, <2>2 DEF DirtySlot, Dirty, Cached
      <3>2. p[1] = blk => Merged[p[2]] = card[p]
        BY <1>a, <3>1 DEF Merged
      <3>3. QED
        BY <2>1, <3>2 DEF Under, Rewriting
    <2>3. View' = View /\ DirtyPages' = DirtyPages
      BY <1>0, <2>2, StillView
    <2>4. QED
      BY <1>0, <2>1, <2>3 DEF Store!vars
  <1>3. CASE EraseBlock /\ ~ (GiveUpBlock /\ card' \in {card, ErasedBlock})
    <2>1. pc = "erase" /\ pc' = "program" /\ card' = ErasedBlock /\ UNCHANGED <<buf, blk, lost>>
      BY <1>3 DEF EraseBlock
    <2>2. \A p \in Page : Under(p)' = Under(p)
      BY <2>1 DEF Under, Rewriting, ErasedBlock
    <2>3. View' = View /\ DirtyPages' = DirtyPages
      BY <1>0, <2>2, StillView
    <2>4. QED
      BY <1>0, <2>1, <2>3 DEF Store!vars
  <1>4. CASE ProgramPage /\ ~ (GiveUpBlock /\ UNCHANGED card)
    <2>1. /\ pc = "program" /\ card' = [card EXCEPT ![<<blk, idx>>] = buf[idx]] /\ lost' = lost
          /\ blk \in Block /\ idx \in Offset
      BY <1>4 DEF ProgramPage, FInv, IInv, RewriteHasDirty, TypeOK
    <2>2. \A p \in Page : p[1] # blk => card'[p] = card[p]
      BY <2>1 DEF FInv, IInv, TypeOK
    <2>3. CASE idx + 1 < BlockSize
      <3>1. UNCHANGED <<pc, buf, blk>>
        BY <1>4, <2>3 DEF ProgramPage
      <3>2. \A p \in Page : Under(p)' = Under(p)
        BY <2>1, <2>2, <3>1 DEF Under, Rewriting
      <3>3. View' = View /\ DirtyPages' = DirtyPages
        BY <1>0, <3>2, StillView
      <3>4. QED
        BY <1>0, <2>1, <3>3 DEF Store!vars
    <2>4. CASE ~ (idx + 1 < BlockSize)
      <3>1. pc' = "flush"
        BY <1>4, <2>4 DEF ProgramPage
      <3>2. idx + 1 >= BlockSize
        BY <2>1, <2>4, SizeAssumption DEF Offset
      <3>3. \A o \in Offset : card'[<<blk, o>>] = buf[o]
        BY <1>4, <3>2, Programmed
      <3>4. \A p \in Page : p[1] = blk => card'[p] = buf[p[2]]
        BY <1>a, <3>3
      <3>5. \A p \in Page : Under(p)' = Under(p)
        BY <2>1, <2>2, <3>1, <3>4 DEF Under, Rewriting
      <3>6. View' = View /\ DirtyPages' = DirtyPages
        BY <1>0, <3>5, StillView
      <3>7. QED
        BY <1>0, <2>1, <3>6 DEF Store!vars
    <2>5. QED
      BY <2>3, <2>4
  <1>5. QED
    BY <1>1, <1>2, <1>3, <1>4 DEF FlushReadBlock

(* A flush that ends: everything is on the card, or a fault is on record.  *)
LEMMA EndIsSync ==
  ASSUME FInv, FInv', FlushEnd
  PROVE  [Store!Next]_(Store!vars)
  <1>1. /\ pc = "flush" /\ blk = NumBlocks /\ cache' = Dropped /\ pc' \in {"idle", "retry"}
        /\ UNCHANGED <<card, out, lost>>
    BY DEF FlushEnd
  <1>2. CASE lost
    BY <1>1, <1>2, DropIsDamage
  <1>3. CASE ~ lost
    <2>1. DirtyPages' = {} /\ \A p \in Page : View'[p] = card[p]
      BY <1>1, DroppedView
    <2>2. ASSUME NEW p \in Page PROVE View[p] = card[p]
      <3>1. p[1] \in Nat /\ p[1] < blk
        BY <1>1, PageParts, SizeAssumption DEF Block
      <3>2. CASE \E i \in Slot : Cached(p, i)
        BY <1>1, <1>3, <3>1, <3>2, FViewIs DEF FInv, PassedInv, Cached
      <3>3. CASE \A i \in Slot : ~ Cached(p, i)
        BY <1>1, <3>3, FViewIs DEF Under, Rewriting
      <3>4. QED
        BY <3>2, <3>3
    <2>3. View' = View
      BY <2>1, <2>2, FViewIs, FViewNext
    <2>4. Store!Sync
      BY <1>1, <2>1, <2>3 DEF Store!Sync
    <2>5. QED
      BY <2>4 DEF Store!Next
  <1>4. QED
    BY <1>2, <1>3 DEF FInv, IInv, TypeOK

LEMMA StoreStep ==
  ASSUME FInv, FInv', [Next]_vars
  PROVE  [Store!Next]_(Store!vars)
  <1>quiet. ASSUME UNCHANGED <<card, cache, lost, out>>,
                   pc \notin {"erase", "program"}, pc' \notin {"erase", "program"}
            PROVE  [Store!Next]_(Store!vars)
    BY <1>quiet, QuietView DEF Store!vars
  <1>nop. ASSUME UNCHANGED vars PROVE [Store!Next]_(Store!vars)
    <2>1. \A p \in Page : Under(p)' = Under(p)
      BY <1>nop DEF vars, Under, Rewriting
    <2>2. View' = View /\ DirtyPages' = DirtyPages
      BY <1>nop, <2>1, StillView DEF vars
    <2>3. QED
      BY <1>nop, <2>2 DEF vars, Store!vars
  <1>1. ASSUME NEW ok \in BOOLEAN, InitPageCache(ok) PROVE [Store!Next]_(Store!vars)
    BY <1>1, DropIsDamage DEF InitPageCache
  <1>2. ASSUME NEW p \in CachedPage, ReadMiss(p) PROVE [Store!Next]_(Store!vars)
    BY <1>2, FillReads DEF ReadMiss, Miss
  <1>3. ASSUME NEW p \in CachedPage, NEW d \in Value, WriteMiss(p, d) PROVE [Store!Next]_(Store!vars)
    BY <1>3, FillWrites DEF WriteMiss, Miss
  <1>4. ASSUME WriteUncached \/ FlushUncached PROVE [Store!Next]_(Store!vars)
    BY <1>4, <1>quiet DEF WriteUncached, FlushUncached
  <1>5. ASSUME Flush \/ \E r \in Request : FlushToMakeRoom(r) PROVE [Store!Next]_(Store!vars)
    BY <1>5, <1>quiet DEF Flush, FlushToMakeRoom, BeginFlush
  <1>6. ASSUME FlushSkip PROVE [Store!Next]_(Store!vars)
    BY <1>6, <1>quiet DEF FlushSkip
  <1>7. ASSUME RetryPageRead PROVE [Store!Next]_(Store!vars)
    <2>1. request.page \in CachedPage
      BY <1>7 DEF RetryPageRead, FInv, IInv, TypeOK, Request
    <2>2. \A j \in Slot : ~ Exists(j)
      BY <1>7 DEF RetryPageRead, FInv, IInv, RetryFindsFree
    <2>3. QED
      BY <1>7, <2>1, <2>2, FillReads DEF RetryPageRead
  <1>8. ASSUME RetryPageWrite PROVE [Store!Next]_(Store!vars)
    <2>1. request.page \in CachedPage /\ request.data \in Value
      BY <1>8 DEF RetryPageWrite, FInv, IInv, TypeOK, Request
    <2>2. \A j \in Slot : ~ Exists(j)
      BY <1>8 DEF RetryPageWrite, FInv, IInv, RetryFindsFree
    <2>3. QED
      BY <1>8, <2>1, <2>2, FillWrites DEF RetryPageWrite
  <1>9. ASSUME IopReset PROVE [Store!Next]_(Store!vars)
    BY <1>9, DropIsDamage DEF IopReset
  <1>10. QED
    BY <1>nop, <1>1, <1>2, <1>3, <1>4, <1>5, <1>6, <1>7, <1>8, <1>9,
       HitReads, UncachedReads, HitWrites, RewriteIsStill, EndIsSync DEF Next, FlushStep

(* The page cache implements the array of pages of CardStore, whatever     *)
(* fails: the operations of cache.c and the flush of a whole card read     *)
(* back what was last written, and a fault hurts only pages that share an  *)
(* erase block with a page that was not yet on the card.                   *)
THEOREM CacheIsStore == Spec => StoreSpec
  <1>1. Init => Store!Init
    <2> SUFFICES ASSUME Init PROVE Store!Init
      OBVIOUS
    <2>1. FInv
      BY InitFInv
    <2>2. View \in [Page -> Data]
      BY <2>1, FViewIs
    <2>3. DirtyPages = {}
      BY DEF Init, DirtyPages, Dirty, Exists, EmptySlot
    <2>4. lost = FALSE /\ out \in Data
      BY DEF Init, Data
    <2>5. QED
      BY <2>2, <2>3, <2>4 DEF Store!Init
  <1>2. FInv /\ FInv' /\ [Next]_vars => [Store!Next]_(Store!vars)
    BY StoreStep
  <1>3. QED
    BY <1>1, <1>2, FInvariant, PTL DEF Spec, StoreSpec, Store!Spec

=============================================================================
