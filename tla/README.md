# A verification project for the Free McBoot Installer

The Free McBoot Installer (`src/installer`) is a PlayStation 2 program that
installs files on Memory Cards and hard disks, makes multi-region installations
by cross-linking files in the card's file system, dumps and restores whole
cards, and formats them.  This directory holds TLA+ modules that model the
parts of it that can go wrong in ways a test hardly reaches, TLC configurations
that check them on small instances, and proofs that TLAPS checks for every
value of the constants.

Paths below are relative to `src/installer`; `mctools/` stands for
`irx/source/mctools/src/`.

## Running it

    tlc -config MCPageCache.cfg MCPageCache     # each MC*.cfg with its module
    tlapm PageCacheProofs.tla                   # each *Proofs.tla

The runs that instantiate a module without an MC module of its own say so in
`PROJECT.json`, which lists the runs with their properties, the lines of the
code that each definition stands for, the hazards, the disagreements found, the
theorems, and for each property a mutation of a definition that breaks it.

---

## The system

The program runs on the main processor (EE).  Its *main thread* draws the menu
and carries out the operations; a *worker thread* of lower priority carries out
dumps and restores while the main thread draws their progress; one short-lived
thread loads modules after a reboot of the I/O processor (IOP); the *power-off
callback* runs on a thread of libpoweroff.  Files and cards are accessed by RPC
to modules on the IOP: the system's card driver (MCMAN, through libmc), file
systems (fileXio), and the program's own `MCTOOLS.IRX`, which edits the file
system of a card behind MCMAN's back.  MCTOOLS and the modules of normal
operation are never loaded together: the IOP is rebooted to change over.

| part | code | its state | operations | how it meets the others |
|---|---|---|---|---|
| page cache | `mctools/cache.c`, `MCIO.c` | slots with page number, data, EXISTS and DIRTY; the card | read, write, flush, init | called by the file system code, in one RPC thread; lost when the IOP reboots |
| file system code | `mctools/mctools.c` | FAT, directories, entries on the card | create and delete an alias | through the page cache; called by RPC in batches |
| RPC client | `mctools_rpc.c` | the buffer on the IOP, the end semaphore, the reply | create, delete, flush, read cluster, write block, sync | synchronous calls from main, asynchronous ones from the worker; end functions in interrupts |
| worker | `system.c:2597-2842` | command, argument, result code, wake-ups | dump, restore, stop, exit | shared variables and `SleepThread`/`WakeupThread` |
| dump | `system.c:2618-2694` | two buffers, a file | one pass per cluster | worker and IOP work at the same time |
| restore | `system.c:2696-2769` | two buffers, one on the IOP, a card | one pass per block | the same |
| installation plan | `system.c:133-343, 479-642, 769-859, 1171-1202, 1372-1699`, `ReqSpaceCalc.c` | the list of files | count, fill, add, check the space | reads the card, is read by the copying |
| copying | `system.c:1751-1883` | buffer, file handle, size of the file being written | one pass per entry | libmc, one command at a time in the background |
| multi-installation | `system.c:2044-2332` | aliases, uninstall file, folders | install, clean up | MCTOOLS in batches, MCMAN for the rest |
| operations and reboots | `iop.c`, `main.c`, `menu.c:389-764` | modules on the IOP, `IopBuffer` | the eleven operations of the menu | threads, semaphores |
| install lock, power button | `main.c:83`, `system.c:3111-3126` | `InstallLockSema` | take, give, poll | the callback against the main thread |
| menu and card flags | `menu.c`, `system.c:2334-2385` | what is known of the two cards | choose, refresh | starts operations; the user changes the cards meanwhile |
| hard disk | `system.c:876-1169, 1204-1370, 2844-3109` | partitions, the one that is mounted, boot program, the console's setting | install, clean up, format | fileXio, one access at a time |
| card authentication | `irx/source/secrman/src/secrman.c`, `CardAuth.c`, `MechaAuth.c` | the handshake, its buffers | authenticate, reset | called by the card driver for a card it finds changed |
| signing | `libsecr.c`, `secrsif`, `secrman.c`, `system.c:364-478` | what the MechaCon was told of and has got, two halves of two keys | sign a file | by RPC from the copying; shares card and MechaCon with the authentication |
| boot code | `src/mbr` | - | load the next program | none |
| screens | `UI.c`, `font.c`, `graphics.c`, `lang.c`, `pad.c` | - | draw, read pads | - |

What is hard in it:

* *write-back caching with faults*: a block of Flash is erased before it is
  written page by page, any of these accesses can fail, and the IOP can be
  rebooted in between;
* *a file system edited in place*: FAT and directory entries on pages that are
  written one by one;
* *pipelines*: dump, restore and copying all overlap one transfer with the next,
  with buffers that are filled, in flight or free;
* *threads that share variables without locks*, and an interrupt that signals;
* *devices shared by two drivers*: the signing and the authentication both send
  sequences of commands to the card and to the MechaCon;
* *people*: cards are exchanged between a question and its answer, the power
  button is pressed at any time;
* *things that are done for as many as were counted*: the list of files, the
  batches of aliases, the bytes of a file fed by 16;
* *errors on the way out*: an early return skips what the end would have done.

What makes each part correct, in a sentence: the cache is an array of pages;
a directory is a bag of names; a transfer copies each unit once and in order
and reports every failure; main and worker answer each other exactly once; the
plan is as long as it was counted and installs what its consoles boot; a copy
arrives whole, signed for the card it goes to; a handshake ends in agreement or
is forgotten; a clean-up leaves a normal installation; a disk boots only a whole
installation; what the menu believes of a card is true of it; operations leave
the IOP, the lock and the card as the next one needs them.

---

## The modules

Three small modules say what a component promises; a detailed module is shown
to implement each of them by a refinement mapping:

| promise | implemented by | mapping |
|---|---|---|
| `CardStore`, an array of pages | `PageCache` (`StoreSpec`) | the contents a reader sees, the dirty pages, whether a fault is on record |
| `Listing`, directories as bags of names | `CardDirectory` (`ListingSpec`) | how often a name is among the counted entries |
| `CardCopy`, units copied in order | `McDump`, `McRestore` (`CopySpec`, checked as `DumpCopies`, `RestoreCopies`) | the file or the card, and how the transfer ended |

The detailed modules:

**PageCache.**  `cache` is `PageCache[]`; every access to the card is a step of
its own and may fail.  `BeginFlush` ... `FlushEnd` are the loop of
`FlushPageCache` with `FlushBlock` and `WriteBlock`; `RetryPageRead` and
`RetryPageWrite` are the `goto`s after a flush for want of a slot; `IopReset` is
the reboot that loses the cache.  A page is a pair of block and offset, which is
what the two divisions of the code make of its number.

**CardDirectory** stands on what `CardStore` promises, so its card is an array
of pages.  FAT chains are the function `next` and the set `used`; a directory is
its chain, its counted `length` and the entries on the pages.  `CreateAlias` and
`DeleteAlias` begin a call; the search (`Scan`), `AddFATRecord` (`Allocate`,
`Walk`, `Link`, `Terminate`) and the writing of entries follow, one page access
per step; `StepFault` is any of them failing.  An error of `AddFATRecord` is
taken for a cluster number, as in the code: alloc_start plus a negative code is a
cluster of the FAT, so the new entry is written over FAT records (`WildEntry`,
`OverwriteFat`; which, and what they then say, is any choice), the folder grows,
the call reports success, and later calls work on what is left: they may follow a
link out of the chains, take what they read there for an entry, or overwrite the
FAT again.  Free records may hold a stale link or none (`Stale`).

**WorkerThread** has the statements of `SendWorkerThreadCommand`,
`WorkerThread`, the polling loops and `StopWorkerThread` as actions of two
threads, and a transfer as `NumSteps` uses of the file.  `Wakeup` and `Sleep`
are the counting wake-ups of the kernel.  Main begins an operation when the
worker is asleep (`WorkerAsleep`): before that it has rebooted the IOP, which
takes over five seconds (`iop.c:153`), while the worker needs a few
instructions.  Without it, the worker could read the argument before main has
set it and the command after (`system.c:2613-2615`).

**McDump, McRestore** model one transfer with its two buffers, the semaphore,
the request at the IOP and the reply; `PostStop` is main's STOP.

**CardMaintenance** composes the three: a step of a transfer is the step of the
worker that `WorkerThread` takes for a use of the file, its end is the worker's
report, and the STOP that a transfer sees is the command that main sends.  A
request at the IOP outlives the transfer that sent it, until the reboot with
which the next operation begins.

**InstallFiles, InstallPlan.**  The tables of files, and how
`PerformInstallation` counts, fills, stats, extends and checks the list for the
console and the flags the menu gave.  A file is its folder, its name and whether
it is there; sizes are one number of clusters each.  A cross-PSX installation
from an early PS2 adds the HDDLOAD files, as in the code.  Files of `BOOT` and
`APPS` are counted before the array is enlarged for them (`CountExtra`), and
`realloc` may refuse (`NoLargerArray`, `refused`): then the sum of the sizes is
anything, since it reads past the array.

**CopyFiles** has `CopyFiles` and `SyncMCFileWrite`, with libmc and MCMAN
modelled from their use: one command at a time, carried out in the background;
a call meanwhile does nothing (`mcMkDir` then returns a positive number).

**CardAuth** is the handshake of `SecrAuthCard`: 34 commands, which carry values
from the card to the MechaCon and back in local buffers (`AuthScript`), with the
three ways out after a failure, that reset both sides or only one (`WayOut`).
Each value is known by the session its maker was in when it made it (`Age`), so
a challenge that is cut in the wrong place, or a stale buffer, shows.  The
MechaCon computes in its own time (`Compute`), and the user may take the card
out (`Pull`).  Cryptography is left out: what must be right is which value goes
where.

**KelfSigning** is `SignKELF` with `TwinSignKELF`, and `SecrDownloadFile` with
the commands under it: the header in pieces, the signed blocks in pieces, then
the two halves of each of two keys, which the MechaCon makes and the card
encrypts (`KeyScript`).  For a PSX a file of the PS2 is signed instead, and its
keys are copied into the one to be written (`twin`).  The counts are unsigned and
wrap; lengths and pieces are scaled down (`Piece`, `UShort`, `UInt` stand for
16, 2^16 and 2^32).

**SignedCopy** composes `CopyFiles`, `KelfSigning` and `CardAuth`: the step of
`CopyFiles` that signs is a whole signing, and the card driver may authenticate
a changed card whenever it has a command of libmc to carry out.

**MultiInstall** begins when the files have been copied: the uninstall file, the
two loops of `CreateCrossLinkedFiles`, and `CleanupMultiInstallation` with its
loop, the deletion of update files and of folders.  A call of MCTOOLS is one
step, in which any of its aliases may fail; what a cache that was not flushed
leaves on the card is any part of it (`PartlyFlushed`), which is what
`CardStore` promises.  Where the code looks at no result, the model goes on as
it does: an uninstall file whose writing failed (`Truncated`); in the clean-up, a
file that cannot be opened, which ends it as a success with nothing done, a name
that cannot be read, where the list ends (`ReadUninstallFile`), and a deletion
of the file that failed (`DeleteUninstallFile`).  Multi-installations exist only in builds with `ALLOW_MI`
(`menu.c:374`); their clean-up is always offered.  The program itself warns
that they corrupt the card's file system (`lang.c`), since aliases share data:
`shared` is that data.

**InstallSession** reduces each operation of the menu to the steps that touch
the IOP's modules, the lock, a card or the disk (`Program`), and composes them
with the thread that loads modules and the power-off callback.

**MenuCards** extends it with `MainMenu`: the look at the cards
(`GetNumMemcardsInserted`), the choice of a port, the table of prerequisites,
the questions, and the operation, which is one of `InstallSession`'s.  The user
changes the cards at any moment (`ChangeCard`).  A driver reports a new card
once, to whichever call asks first; that call may be another one than the
menu's.  The power button in the menu is as good as in the first step of an
operation, so it is left out there.

**HddInstall** has the installation, clean-up and formatting of a disk: the list
of files, `pfs0:` with at most one partition behind it, the files and folders of
each partition, the boot program sector by sector (`mbr`), the partition for
applications with its attribute area (none, raw, formatted), and the console's
setting.  Any access may fail.  `DeleteIn` is a clean-up of one partition: files deleted by
name, folders deleted if they are empty, where a folder whose reading fails is
taken for empty and goes with all that is in it (`misread`).  A folder of the
source whose reading fails makes the list shorter, with no error (`Some`).
`Foreign` are files of others, one in each folder of the installation.
`INSTALL_MODE_FLAG_SKIP_CLEANUP` is set for cards
only (`menu.c:487`), so an installation on a disk always cleans up first.  A file is "old"
or "new"; new means that every write of it was accepted, because the code looks
at no result of `fclose`.

The `...Proofs` modules hold the theorems, each about the module it is named for
and the modules that it is composed of: the worker, the dump and the restore are
proved about in `CardMaintenanceProofs`, copying, authentication and signing in
`SignedCopyProofs`, the session in `MenuCardsProofs`.

How they fit: `CardDirectory` uses the page store that `PageCache` implements;
`MultiInstall` uses calls whose single aliases are `CardDirectory`'s, and the
names of `InstallFiles`; `CardMaintenance` composes hand-over and transfers;
`SignedCopy` composes copying, signing and authentication, and copies what
`InstallPlan` lists; `MenuCards` composes the menu with the operations of
`InstallSession`, which orders all the others as steps.

---

## The runs

| run | distinct states | instance | question |
|---|---|---|---|
| `page_cache` | 393,141 | 2 blocks of 2 pages, 2 slots, 2 values | is the cache an array of pages, with faults anywhere, and does every call return? |
| `card_directory` | 5,887,576 | 2 folders, 5 clusters of 2 pages, 2 names, 2 faults, stale links or none in free FAT records | do folders that compete for clusters stay apart and list what they should? |
| `maintenance` | 31,778 | 4 units, both transfers, main and worker | is each command answered once, do the units arrive in order, and is what main announces true? |
| `install_plan` | 43,031 | 17 consoles, all flags of the menu, up to 2 added files, `realloc` refusing or not, 3 sizes of free space | is the list as long as counted, and does every console boot? |
| `multi_install` | 468,369 | 7 consoles, calls of 3 aliases, 2 faults or resets | can an installation always be removed, and what does the clean-up leave? |
| `signed_copy` | 470,290 | lists of up to 4 entries, 3 handles, 2 shapes of files, the card taken out once | do the files arrive, signed for one card, and is nothing left behind? |
| `menu_cards` | 2,482,803 | 2 cards, exchanged once, all operations without bound, the power button | are lock, modules and flags as the next operation needs them? |
| `hdd_install` | 1,554,782 | one file of languages, programs or none, files of others in each folder, a boot program of 4 1/2 sectors, one fault | is what is announced as installed whole, and does a failure enable nothing? |
| `card_full` | - | as `card_directory`, without the check of the space | finds that an error is taken for a cluster |
| `install_space` | - | as `install_plan` | finds a card that passes the check and is too small |
| `multi_europe` | - | one European console, no fault | finds that its own folder is deleted |
| `session_left` | - | `InstallSession` alone | finds an operation that works without its modules |

**Why the bounds are enough.**  With two slots a third page makes the cache
flush, and blocks with no, one and two dirty pages occur.  A folder of
`card_directory` grows twice, both can compete for the last free cluster, and
the last page of a cluster is reached from both sides.  With four units each of
the two buffers is filled, sent and filled again, and a STOP comes before,
between and after them.  The consoles of `install_plan` have ROM versions on
both sides of every comparison in the code, each region letter, and the three
types.  Lists of four entries contain every ordered pair of kinds in the middle.
Calls of three aliases make both loops go round; the code has eight, of more
aliases.  The two files to be signed have lengths that are multiples of a piece
and lengths that are not, an unsigned block, one key file and two; one exchange
of the card can come between any two commands, and makes every later value stale
(`MaxPulls`).  One exchange of a card (`MaxChanges`) makes everything the menu
remembers of a slot stale; the theorems have no such bound.  The boot program
needs two full writes, a shorter one, and a part of a sector.  `MaxFaults` of two
lets a fault come in the recovery from another; `hdd_install` has one, which in a
clean-up stands for any number of accesses that fail in it, and its theorems have
no such bound.  `Stale` has a link into a chain, and no link; `FatPages` has a page
with the record of a cluster that both folders compete for, and one with none.  Names, values and data occur
only compared for equality.

**Preconditions, and what they rest on.**
`SpaceChecked` in `card_directory`: an installation has checked that there is
room (`system.c:1698`); `card_full` drops it.  The lists of `signed_copy` begin
with a file to be signed, end with a file and have no empty file (the tables of
`InstallFiles` are such lists; the hazards say what an added folder can do).
Signed blocks may have any size that fits the buffer of the RPC
(`libsecr.c:100`); those that are no multiple of a piece cannot be signed.  In
`multi_install` the same console cleans up that installed (`SameConsole`), and
it is not a European one.  `CHECK_DEADLOCK` is off where the system may stop:
the program exits, a list ends, nobody presses a button.

**Fairness.**  Only of threads, of the IOP and of the hardware: a thread that
can go on does (main waits for a vertical blank in each frame, so the worker
runs in spite of its priority), an access to a card or a file returns, well or
not, a request at the IOP is answered, and the MechaCon finishes what it
computes.  Never of the user: nobody need choose, cancel, change a card, or
press the power button.  `FairCopy` does not ask that a poll of the MechaCon
gives up, only that it ends once there is a result.  The operations that wait
for a reboot rely on the thread that loads modules.

### What the safety properties say

* `page_cache`: `CleanMatchesCard` (a clean copy never hides a page that a fault
  destroyed), `OnlyDirtyBlocksTouched` (a failing flush hurts no block without
  dirty pages), `StoreSpec` (the cache implements `CardStore`).
* `card_directory`: `ChainsApart`, `EntriesKept` (no failure loses an entry that
  was not being deleted), `ListingSpec`.  The first two say nothing from the
  moment on at which `AddFATRecord` has returned an error (`Lost`): the FAT is
  written over then, and the code does go wrong.  Without that exception TLC
  needs one fault, in the write at `mctools.c:291`: the chain is linked to a
  cluster that stays free, the call reports success, and the next folder that
  grows takes the same cluster.
* `maintenance`: `FileOutlivesTransfer` (also when the user cancels),
  `OneAnswerPerCommand` (no wake-up is left for a later command), `BuffersHeld`
  (except after a failed `fwrite` in a dump, where the code does free a buffer that
  the IOP still fills: `system.c:2648-2652, 2674`),
  `AnnouncedIsCopied` (what main announces as complete is, to the last unit),
  `DumpCopies` and `RestoreCopies` (units arrive once and in order).
* `install_plan`: `CountIsFilled` (after a refused `realloc` the counts are one above
  the array, and the code goes past it in 1683 and 1722; the property says that
  this is the only case, that they are never more than one above, and that nothing
  is copied then), `FoldersCreated`, `BootsEverywhere`.
* `multi_install`: `InstallComplete`, `UninstallFileFirst` (an alias is listed by a
  file that the clean-up accepts, or the writing of that file failed),
  `DowngradeIsNormal`, `OneAliasPerFault`.
* `signed_copy`: `CopiesArrive`, `BufferHeld`, `SignsAlone`, `NothingLeft`
  (of copies that succeed) for the copy; `AuthAgreed` (when both sides have come through the handshake, each
  was told what the other said in this session), `FailureForgets` (after a
  failed one neither is left in the middle of it, if it answers to its reset);
  `SignedForOneCard` (the four halves of the keys are encrypted by one card in
  one session), `FedAsTold` (the MechaCon is asked to go on only when it has got
  as many bytes as it was told of, whatever wraps).
* `menu_cards`: `NoPowerOffInside`, `ToolsReady`, `FlagsOfThisCard` (what the
  menu believes of a card it has just looked at is true of it),
  `MultiRespected` (no installation begins on a card with a multi-installation
  that the menu could have seen, except the one for a PSX, which is not checked).
* `hdd_install`: `InstalledWhole`, `EnabledLast` (the console boots from the disk
  only when all that it boots is there), `NothingMounted`, `UserFilesKept` (except in
  `fsck/lang`, which is deleted whole, and in a folder that could not be read).

Liveness: `OperationReturns` (cache), `OperationEnds` (dump and restore, with
main and worker), `OperationEnds` (multi-installation), `SigningEnds`,
`OperationReturns` (menu; an operation that kept the lock would block the next
one).

The type invariants, and invariants that only serve a proof (`UniquePage`,
`RequestIntact`, `StateIsOfThisOperation`), are no properties of runs: where
there is a proof, they are parts of its inductive invariant.

---

## What is proved

**The page cache**, for every size of card, block and cache, and any page
contents (`SizeAssumption`: each at least one; `ErasedAssumption`: an erased page
is no contents that callers write), in `PageCacheProofs`:

* `TypeCorrect`, `NoPageTwice`, `CleanPagesAreCurrent`: `TypeOK`, `UniquePage`
  and `CleanMatchesCard` are invariants of `Spec`;
* `CleanBlocksUntouched`: `OnlyDirtyBlocksTouched` holds of every step;
* `CacheIsStore`: the cache implements `CardStore` (`Spec => StoreSpec`).

None of the three properties is inductive by itself.  `IInv` adds that a free
slot has page number 0, which no caller passes, so a hit test that looks at
numbers alone finds no free slot (`FreeIsZero`); that after a flush every slot
is free, so the retried request finds one (`RetryFindsFree`) and puts no second
copy anywhere; and that a block is rewritten only while one of its dirty pages
is in the cache (`RewriteHasDirty`), from which both the action property and the
range of the block number follow.

For the refinement, `FInv` adds where the true contents of a page are while a
flush is under way: a clean page is on the card except in blocks with a dirty
one that the flush has come to (`CleanInv`); as long as no fault is on record,
what the flush has passed is on the card (`PassedInv`); the buffer has all that
is cached of its block, and the part of it already programmed (`BufInv`).  Then
the steps of a flush that succeed change nothing a reader sees
(`RewriteIsStill`), its end is `Sync` or, after a fault, `Damage`
(`EndIsSync`), a block that is given up is `Damage` (`GiveUpIsDamage`), and so
is a reset with dirty pages (`DropIsDamage`).

**Directories**, for any number of clusters, folders and names, in
`CardDirectoryProofs`:

* `ChainsStayApart`: `ChainsApart`, with any number of failing accesses;
* `EntriesStay`: `EntriesKept` holds of every step, likewise;
* `ListingImplemented`: with the space checked, the directories implement
  `Listing` (`Spec => ListingSpec`), until an access fails.

All three end where `AddFATRecord` returns an error, or before; that it returns none
while there is room and nothing has failed is part of `DirectoryInv`.

`ChainsApart` speaks of a function that follows `next` from the first cluster on,
which is no help for a step that changes `next`.  So `DirectoryInv` says that
there are, for each folder, a list of clusters `ch` and a length `len`, such that
the links of the FAT are those of the lists (`Linked`), no cluster is in two
places (`Apart`), each is in use, but for a new one whose own record is not
written yet (`Taken`), and the length of the folder fits (`Lengths`); `Places`
says what the call knows at each of its statements, and `Working` what is true
besides on a card that works and has room: no cluster more than the entries need,
the search for a name has passed no entry of that name, the entry past the end is
there before the length counts it.  `ChainValues` ties the lists to `Chain`,
`LenFits` bounds them by the number of clusters.  The only step that makes a list
longer is `Link`, by a cluster that is not in use (`Longer`).  A step of the card
is `Create`, `Delete` or `NotFound` of the bag where it writes an entry that
counts, makes an entry count, or gives up, and a stutter otherwise
(`ListSteps`).

**The worker**, for transfers of any length (`StepsAssumption`), in
`CardMaintenanceProofs`: `TypeCorrect`, `FileOutlives`, `AnswersPairUp`,
`StateIsCurrent`.  `IInv` says for each phase of one thread where the other can
stand: a command is the one main is sending (`SendInv`); while the worker is in
a transfer main is in the operation (`BusyInv`); what main polls is of this
transfer (`PollInv`, `StateInv`); a transfer not yet taken finds the worker
asleep or on its way to the command (`StartInv`), which is where `WorkerAsleep`
is needed; there is no outcome before the worker reports one (`OutcomeInv`).

**The transfers**, for cards of at least one cluster or block, in the same
module: no buffer is freed while the IOP writes to it, except after a failed
`fwrite` (`DumpHoldsBuffers`), none on the IOP is overwritten while a request uses it
(`RequestStaysIntact`), and each transfer implements `CardCopy` (`DumpIsCopy`,
`RestoreIsCopy`).  The invariants say which bank is being read, in flight or
written at each statement, and which unit each holds.

**Dump and restore as the user sees them**.  The argument is one about composition: a step of the whole is a step of each part or
leaves it alone (`TransfersFitIn` for the hand-over; the lemmas before it for the
transfers), so what is proved of the parts holds of the whole
(`MaintFileOutlives`, `MaintAnswersPairUp`, `MaintBuffersHeld`,
`MaintDumpCopies`, `MaintRestoreCopies`).  One invariant relates them: the worker
is in a transfer exactly while that transfer is between its begin and its end,
and what it reports is that transfer's result.  From it `MaintAnnounced`: what
main announces as complete has been copied to the last unit.

**Copying**, for lists of any length, in `SignedCopyProofs`: `EveryFileArrives`,
`BuffersAreHeld`, `SignsUndisturbed`, `LeavesNothing`, all under `ProperLists`:
no entry is an empty file, and the list ends with a file.  The code gives that
for the tables it copies; a folder that the user added can break it (see the
hazards).  The invariant says for each statement which command libmc has, which
file is open, which buffers are allocated (`CmdInv`, `FlowInv`), and which
entries have arrived (`CardInv`).  `SigningFitsIn` shows that the copy composed
with real signing and authentication implements the copy with an abstract
signing, so the theorems hold for it too.

**Authentication**, for any number of sessions and of exchanges of the card, also
in `SignedCopyProofs`: `HandshakeAgrees` (`AuthAgreed`) and `FailureIsForgotten`
(`FailureForgets`), of the copy with its signings; `HandshakeInvariant`, of
`CardAuth` alone.  The MechaCon is where the code is in the script, and so is the
card, unless it was taken out, and then it takes no command but a reset
(`AuthPlaces`); while it is in, all that was read and told so far is of this
session (`AuthValues`).  Of the script itself the proof needs that each value is
read before it is told and told before the end (`ReadBeforeTold`,
`AllAreTold`), which lemmas read off its 34 commands once.

**Signing**, for lists and files of any length: `KeysAreOfOneCard`
(`SignedForOneCard`), from `SignInv`, which adds to the handshake's invariant what
the driver is doing (`DriverInv`: it authenticates only while no signing is under
way) and which halves of which keys have been encrypted, by which card
(`KeysInv`); and `MechaConIsFed` (`FedAsTold`), from `FedInv`: what was fed and
what is left make up what was told, in numbers that wrap.  Its hypothesis
`ShortBlocks` says that signed blocks are shorter than 2^16, for the MechaCon is
told their length in 16 bits (`MechaAuth.c:214`); `PieceAssumption` says that a
length of 16 bits holds two pieces, and that 2^16 divides 2^32.

**Installation plans**, for any set of consoles, any flags of the menu, any
number of added files and any free space, in `InstallPlanProofs`: `TypesHold`,
`CountedIsFilled`, `FoldersAreCreated`, `ServedBoot`.  Each part of the list is a
sequence of known length whose entries are of a known set (`IsList`), and
appending adds both up (`CatList`), so that the invariant (`Counted`, `Planned`)
need not go through lists: the counts are those of the console and flags and of
what was added, and the list is the filled one, made regional, with entries of
`APPS` behind it; between `CountExtra` and `AddExtra`, and for good after
`NoLargerArray`, the counts are one ahead.
`FoldersAreCreated` is about consoles whose regions have a folder
(`KnownRegions`), `ServedBoot` about those whose ROM is not older than the first
one of the region (`KnownVersions`: 1.00, 1.01 and from 1.20 on in Japan, from
1.10 in America and Asia, 1.20 in Europe, 1.30 in China); that such a console
starts by one of the files in `FileAlias` is a lemma (`StartsByAlias`).
`MCInstallPlan` has both hypotheses checked of the consoles of its runs.

**Multi-installations**, for any set of consoles, any number of aliases in a call,
and any number of faults, in `MultiInstallProofs`: `AliasesAreListed`
(`UninstallFileFirst`), `EveryAliasIsMade` (`InstallComplete`),
`FaultCostsOneAlias` (`OneAliasPerFault`), `CleanupLeavesNormal`
(`DowngradeIsNormal`).  Without a fault, the aliases made so far are those at the
front of the table, once each, but for the console's own file, where the loop is
split (`InstallInv`); with faults, there is no alias without the file that lists
it, or the writing of that file failed (`FileInv`), and a clean-up has passed by at most as many as there were faults
(`TriedInv`).  `CleanupLeavesNormal` has the hypotheses `SameConsole` and
`NoEurope`, which are the preconditions named under the runs: without the second
`multi_europe` refutes it.

**The disk**, for any lists of files, any size of the boot program that the
16-bit sector count can express, and any number of faults (`SizesAssumption`,
`ListsAssumption`: `BOOT-HDD` brings no settings of its own), in
`HddInstallProofs`: `AnnouncedIsWhole` (`InstalledWhole`), `NothingStaysMounted`
(`NothingMounted`), and of every step `BootsWhatIsWhole` (`EnabledLast`) and
`UserFilesAreKept` (`UserFilesKept`, with its exceptions).  The invariant says where an operation can
be (`FlowInv`), that `pfs0:` has a partition only in the statements that need one
(`MountInv`) and the settings are open only at the end (`ConfigInv`), and that
while nothing has failed what the loop has passed is there and the partition
mounted is the one it believes (`CopyInv`).

**The session and the menu**, for any number of operations, cards and exchanges,
in `MenuCardsProofs`: `NoneIsCutOff`, `ToolsAreReady`,
and with the menu `MenuNotCutOff`, `MenuToolsReady`, `FlagsAreOfThisCard`,
`MultiIsRespected`.  The invariant of the session gives the positions of each
program at which it is inside the lock (`Inside`) and between the two reboots
(`Tooled`), and says that main has the lock exactly inside, that MCTOOLS runs
exactly between, and that modules are loaded only while main waits for them.
`MenuFitsIn` shows that the menu only begins operations as the session allows.
The invariant of the menu follows a card from the driver's report to the flag:
what was reported and looked at is what is in the slot, unless it was changed
since (`Believed`, `Seen`), and an operation has passed the check for the port
it is about (`Checked`).

The inductive invariants were checked by TLC on small instances before they were
proved.

**Only model-checked:** liveness (`OperationReturns`, `OperationEnds`,
`SigningEnds`): the prover has no rules for fairness and `ENABLED`.  The runs
that expect a violation need no proof.

---

## Where code and words disagree

Shown by a run:

* `card_full`: when the FAT is full, `AddFATRecord` returns a negative code,
  `CreateNewVirtualDirent` (`mctools.c:655`) takes it for a cluster and writes
  an entry in front of the allocatable clusters.  The comment promises 0.  An
  access that fails in `AddFATRecord` has the same effect; when it is the write at
  291, two folders can then come to share a cluster.
* `install_space`: the clusters that directories need are added to a number of
  bytes (`system.c:1688`), so the check accepts cards without enough room.
* `multi_europe`: `case 'E'` has no `break` (`system.c:2194-2201`): the clean-up
  of a European multi-installation deletes `BEEXEC-SYSTEM`, too.
* `session_left`: `CleanupMultiInstallation`, `CreateCrossLinkedFiles`, dump and
  restore return without rebooting to the main modules when the card does not
  answer after the first reboot (`system.c:2067, 2253, 2429, 2526`).

Met while modelling; no run shows them, and those that a model can reach are
among the hazards:

* the bits that should name the side of an error are ORed into a negative
  number and lost (`system.c:2642`; `menu.c:499, 623`; `system.h:26`);
* `EEXTCACHEINITERR` is returned as a positive number by the clean-up
  (`system.c:2071`), which is then announced as complete;
* an uninstall file that cannot be opened makes the clean-up return 0 with nothing
  done, and one whose names cannot all be read is deleted all the same
  (`system.c:2078-2081, 1998-2007, 2114`); the result of `mcDelete`, and those of
  writing the file (2304-2323), are not looked at;
* a file that ends behind its header leaves `LocalMcFileAlias` unset, which is then
  freed (`system.c:2008, 2046, 2212`); the model goes on as if that did nothing;
* `realloc` is asked for an array of as many entries as were counted, and when it
  refuses, the sizes and names of one entry too many are gone through
  (`system.c:804-846, 1683, 1722`);
* `DeleteFolderIfEmpty` takes a folder whose reading fails for empty
  (`system.c:735`), and `_CleanupHDDTarget` deletes `fsck/lang` with all that is
  in it (1138);
* a folder of the source whose reading fails is copied in part, and the
  installation is announced as complete (`system.c:793`);
* a dump that is stopped before its first cluster writes an unread buffer
  (`system.c:2667`, against the comment at 2646);
* a read error in the search for a free entry adds a cluster
  (`mctools.c:648`, against the comment at 644);
* a list with an empty file, or one that ends with a directory, upsets the
  pipeline of `CopyFiles` (`system.c:1834, 1879`);
* after one alias that could not be made, another is made twice and a third one
  not at all, and the installation is announced as complete
  (`system.c:2260-2274`);
* a power button pressed just before a reboot of the IOP leaves the lock taken
  for ever (`system.c:3113`);
* `SecrDownloadBlock` counts an unsigned length down by 16 and tests it for
  zero: with a size that is no multiple of 16 it goes on until the sum wraps and
  a write is refused (`secrman.c:982-988`), so such a file cannot be signed;
* the boot program's file is closed twice after a read error
  (`system.c:1040, 1081`), the result of setting it as boot program (966) and
  those of `fclose` and of the flush of the disk are not looked at;
* booting from the disk stays enabled when a second installation fails half-way,
  and after `hddFormat`; `CheckFormat` reports a disk as usable even if
  `hddFormat` has failed (`menu.c:283-287`);
* `HDDCheckHasSpace` takes a negative error for "has space"; a mount that fails
  once can make `CreateAPPSPartition` create the partition for applications
  anew, with what the user had on it gone; a failed format leaves it raw, and a
  handle open (`system.c:2860-2870`);
* `WriteAPPSPartitionAttributes` clears as many bytes as a pointer has
  (`system.c:2954`), and reports success when a resource is missing;
* the results of deletions in a clean-up are not looked at, so "clean-up failed"
  is not announced; `DeleteFolder` keeps the last result only;
* a new card that is not formatted is not counted in the first slot, yet with
  one card in the second the menu chooses the first (`OnlyOne` in `MenuCards`);
* the news of a new card that another call to the driver has had leaves the flag
  of the old one, and so does a format that fails (`missed` in `MenuCards`);
* `EVENT_INSTALL_CROSS_PSX` is 9 and the table of prerequisites has eight
  entries (`system.c:2337`): an installation for a PSX is not refused on a card
  with a multi-installation.

---

## Not modelled, and why

* Screens, fonts, languages, pads: no state that the operations rely on, but
  the choice, which is nondeterministic in `MenuCards`, `InstallSession` and
  `WorkerThread`.
* The boot code of hard disks: it loads one program after the other, and no
  state outlives a step.
* Data under `installer_res`, `MASS` and prebuilt modules.
* The decryption of files for the disc drive (`SecrDiskBoot...`): the installer
  never calls it.
* Which files of a card a normal clean-up deletes: `DeleteFolder` over the
  folders of the consoles is recursion over whatever the user has on the card;
  its effect is a step of `InstallSession` and `MenuCards`.
* The two older formats of the uninstall file; the resizing of the buffer on
  the IOP (8192 bytes suffice for what is sent); the file I/O of MCTOOLS that
  its debug builds use; the reading of the superblock.

## The plan

Done, in this order: the cache and its store, the worker, the transfers,
directories, the plan of an installation, multi-installations, copying, the
session; then dump and restore composed with the worker, the disk, authentication
and signing composed with the copying, the menu and its cards composed with the
session; then the proofs, until every safety property and every refinement that
a passing run checks had its theorem.

What could come next:

1. that a call of MCTOOLS in `MultiInstall` is a sequence of steps of
   `Listing`, so that `CardDirectory` and `MultiInstall` meet in a theorem and
   not only in the README;
2. in the same way, `CardDirectory` over the store of `PageCache`, with the
   faults that a flush can have;
3. the folders of a card as a tree, for `DeleteFolder` and `CleanupTarget`.
