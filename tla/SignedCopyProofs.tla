--------------------------- MODULE SignedCopyProofs ---------------------------
(***************************************************************************)
(* The pipelined copy to a Memory Card, for lists of any length; then the  *)
(* handshake of card and MechaCon, and the signing of files with them,     *)
(* while it runs.                                                          *)
(***************************************************************************)
EXTENDS SignedCopy, TLAPS

(* The lists of an installation: they have no empty files, and end with a  *)
(* file.  (The end of a list is waited for as a file.)                     *)
ProperLists ==
  \A l \in Lists :
    /\ Len(l) > 0 /\ l[Len(l)] # "dir"
    /\ \A n \in DOMAIN l : l[n] # "empty"

Index == 1 .. Len(list)

Types ==
  /\ list \in Seq(Kind) /\ list \in Lists
  /\ i \in 1 .. Len(list) + 1
  /\ PrevFileSize \in {0, 1} /\ McFileFD \in Fd \cup {NoFd}
  /\ buffer \in 0 .. Len(list) /\ NextFileBuf \in 0 .. Len(list)
  /\ live \subseteq Index
  /\ pc \in {"loop", "mkdir", "made", "read", "sign", "opened", "sync", "close", "done"}
  /\ after \in {"loop", "mkdir", "sign", "done"}
  /\ result \in {"ok", "error"}
  /\ cmd \in [op : Op, arg : NoFd .. Len(list) \cup Fd, buf : 0 .. Len(list)]
  /\ answer \in {Pending, NoFd, 0, 1} \cup Fd
  /\ open \in [Fd -> 0 .. Len(list)]
  /\ card \in [Index -> {Absent, Partial} \cup Index]

(* What is open on the card, by the command that libmc has. *)
NoneOpen   == \A f \in Fd : open[f] = 0
Only(f, k) == f \in Fd /\ open[f] = k /\ \A g \in Fd : g # f => open[g] = 0

CmdInv ==
  /\ cmd.op = "none" => cmd = None /\ NoneOpen
  /\ cmd.op = "write" =>
       /\ cmd.arg = McFileFD /\ cmd.buf = buffer /\ buffer \in live
       /\ list[buffer] \in {"file", "kelf"}
       /\ Only(McFileFD, buffer)
  /\ cmd.op = "open" =>
       /\ pc = "opened" /\ cmd.arg = i /\ answer \in Fd \cup {Pending, NoFd}
       /\ IF answer \in Fd THEN Only(answer, i) ELSE NoneOpen
  /\ cmd.op = "close" =>
       /\ pc = "close" /\ cmd.arg = McFileFD
       /\ IF answer = Pending THEN Only(McFileFD, buffer) ELSE NoneOpen
  /\ cmd.op = "mkdir" =>
       pc = "made" /\ cmd.arg = i /\ answer \in {Pending, NoFd, 0} /\ NoneOpen

(* The entry before: a file that is being written, or a directory. *)
Prior ==
  \/ /\ PrevFileSize = 1 /\ i > 1
     /\ cmd.op = "write" /\ buffer = i - 1 /\ live = {i - 1}
  \/ /\ PrevFileSize = 0 /\ (i > 1 => list[i - 1] = "dir")
     /\ cmd = None /\ live = {}

Entry(kinds) == i <= Len(list) /\ list[i] \in kinds
FileKinds == {"file", "kelf"}

Onward ==
  /\ PrevFileSize = 1 /\ i > 1
  /\ CASE after = "mkdir" -> Entry({"dir"})
       [] after = "sign"  -> Entry(FileKinds) /\ NextFileBuf = i
       [] after = "done"  -> i = Len(list) + 1
       [] OTHER -> FALSE

FlowInv ==
  /\ pc = "loop" => IF result = "ok" THEN Prior ELSE cmd = None
  /\ pc = "read" => Prior /\ Entry(FileKinds)
  /\ pc \in {"mkdir", "made"} => PrevFileSize = 0 /\ live = {} /\ Entry({"dir"})
  /\ pc = "mkdir" => cmd = None
  /\ pc = "made" => cmd.op = "mkdir"
  /\ pc \in {"sign", "opened"} => live = {i} /\ Entry(FileKinds)
  /\ pc = "sign" => cmd = None /\ NextFileBuf = i
  /\ pc = "opened" => cmd.op = "open" /\ buffer = i
  /\ pc = "sync" =>
       /\ Onward /\ cmd.op = "write" /\ buffer = i - 1
       /\ live = {i - 1} \cup (IF after = "sign" THEN {i} ELSE {})
  /\ pc = "close" =>
       /\ Onward /\ cmd.op = "close" /\ buffer = i - 1
       /\ live = IF after = "sign" THEN {i} ELSE {}
  /\ pc = "done" /\ result = "ok" => cmd = None /\ live = {} /\ i = Len(list) + 1
  /\ result = "error" => pc \in {"loop", "close", "done"}
  /\ ~ freedTwice

(* The entries before are on the card, the last of them perhaps not yet. *)
Arrived(n) == \A k \in Index : k <= n => card[k] = k

CardInv ==
  result = "ok" =>
    /\ pc \in {"loop", "read", "sync"} /\ PrevFileSize = 1 =>
         Arrived(i - 2) /\ (answer = 1 => card[i - 1] = i - 1)
    /\ pc \in {"loop", "read", "mkdir", "made"} /\ PrevFileSize = 0 => Arrived(i - 1)
    /\ pc = "made" /\ answer = 0 => card[i] = i
    /\ pc \in {"sign", "opened", "close", "done"} => Arrived(i - 1)

IInv == ProperLists /\ Types /\ CmdInv /\ FlowInv /\ CardInv

LEMMA InitInv == ProperLists /\ Init => IInv
  <1> SUFFICES ASSUME ProperLists, Init PROVE IInv
    OBVIOUS
  <1>1. Types
    BY ListsAssumption, FdsAssumption
       DEF Init, Types, Index, Fd, NoFd, Absent, Partial, Pending, None, Op
  <1>2. CmdInv /\ FlowInv /\ CardInv
    BY ListsAssumption
       DEF Init, CmdInv, FlowInv, CardInv, NoneOpen, Prior, Arrived, None, Index
  <1>3. QED
    BY <1>1, <1>2 DEF IInv

LEMMA TypesStep ==
  ASSUME IInv, [Next]_vars
  PROVE  Types'
  <1> USE FdsAssumption
      DEF IInv, Types, Index, Kind, Fd, NoFd, Absent, Partial, Pending, None, Op
  <1>1. CASE SyncWrite
    <2>1. /\ UNCHANGED <<list, i, PrevFileSize, McFileFD, buffer, NextFileBuf, after, open, card>>
          /\ pc' = "close" /\ result' \in {"ok", "error"}
      BY <1>1 DEF SyncWrite
    <2>2. live' \subseteq Index
      BY <1>1 DEF SyncWrite, Free
    <2>3. \/ cmd' = [op |-> "close", arg |-> McFileFD, buf |-> 0] /\ answer' = Pending
          \/ UNCHANGED <<cmd, answer>>
      BY <1>1 DEF SyncWrite, Closed
    <2>4. cmd' \in [op : Op, arg : NoFd .. Len(list) \cup Fd, buf : 0 .. Len(list)]
      <3>1. Len(list) \in Nat
        OBVIOUS
      <3>2. McFileFD \in NoFd .. Len(list) \cup Fd /\ 0 \in 0 .. Len(list)
        BY <3>1
      <3>3. CASE cmd' = [op |-> "close", arg |-> McFileFD, buf |-> 0]
        BY <3>2, <3>3
      <3>4. CASE cmd' = cmd
        <4>1. Len(list') = Len(list)
          BY <2>1
        <4>2. QED
          BY <3>4
      <3>5. QED
        BY <2>3, <3>3, <3>4
    <2>5. answer' \in {Pending, NoFd, 0, 1} \cup Fd
      BY <2>3
    <2>6. QED
      BY <2>1, <2>2, <2>4, <2>5, SMTT(60)
  <1>2. CASE SyncClose
    <2>1. /\ UNCHANGED <<list, i, McFileFD, buffer, NextFileBuf, live, after, result, open, card>>
          /\ PrevFileSize' \in {0, PrevFileSize} /\ pc' \in {after, "done"}
      BY <1>2 DEF SyncClose
    <2>2. cmd' = None /\ answer' = Pending
      BY <1>2 DEF SyncClose, Taken
    <2>3. cmd' \in [op : Op, arg : NoFd .. Len(list) \cup Fd, buf : 0 .. Len(list)]
      BY <2>2
    <2>4. QED
      BY <2>1, <2>2, <2>3, SMTT(60)
  <1>3. CASE Loop
    <2>1. UNCHANGED <<list, i, PrevFileSize, McFileFD, buffer, NextFileBuf, live, result, cmd,
                      answer, open, card>>
      BY <1>3 DEF Loop, libmc
    <2>2. pc' \in {"sync", "mkdir", "read", "done"} /\ after' \in {after, "mkdir", "done"}
      BY <1>3 DEF Loop, SyncThen
    <2>3. QED
      BY <2>1, <2>2, SMTT(60)
  <1>4. CASE MkDir
    <2>1. UNCHANGED <<list, PrevFileSize, McFileFD, buffer, NextFileBuf, live, after, result,
                      open, card>>
      BY <1>4 DEF MkDir
    <2>2. i \in Index /\ i' \in {i, i + 1} /\ pc' \in {"made", "loop"}
      BY <1>4 DEF MkDir, NextEntry, FlowInv, Entry
    <2>3. \/ cmd' = [op |-> "mkdir", arg |-> i, buf |-> 0] /\ answer' = Pending
          \/ UNCHANGED <<cmd, answer>>
      BY <1>4 DEF MkDir, Call
    <2>4. cmd' \in [op : Op, arg : NoFd .. Len(list) \cup Fd, buf : 0 .. Len(list)]
      <3>1. i \in NoFd .. Len(list) \cup Fd /\ 0 \in 0 .. Len(list) /\ "mkdir" \in Op
        BY <2>2
      <3>2. CASE cmd' = [op |-> "mkdir", arg |-> i, buf |-> 0]
        BY <3>1, <3>2
      <3>3. CASE cmd' = cmd
        <4>1. Len(list') = Len(list)
          BY <2>1
        <4>2. QED
          BY <3>3
      <3>4. QED
        BY <2>3, <3>2, <3>3
    <2>5. i' \in 1 .. Len(list) + 1
      BY <2>2
    <2>6. answer' \in {Pending, NoFd, 0, 1} \cup Fd
      BY <2>3
    <2>7. QED
      BY <2>1, <2>2, <2>4, <2>5, <2>6, SMTT(60)
  <1>5. CASE MkDirDone
    BY <1>5, SMTT(60) DEF MkDirDone, Synced, Taken, NextEntry, FlowInv, Entry, CmdInv
  <1>6. CASE ReadFile
    <2>1. i \in Index
      BY <1>6 DEF ReadFile, FlowInv, Entry
    <2>2. UNCHANGED <<list, i, PrevFileSize, McFileFD, buffer, cmd, answer, open, card>>
      BY <1>6 DEF ReadFile, libmc
    <2>3. /\ NextFileBuf' \in {NextFileBuf, i} /\ live' \in {live, live \cup {i}}
          /\ result' \in {result, "error"}
          /\ pc' \in {"sync", "sign", "done"} /\ after' \in {after, "sign"}
      BY <1>6 DEF ReadFile, SyncThen
    <2>4. NextFileBuf' \in 0 .. Len(list) /\ live' \subseteq Index
      BY <2>1, <2>3
    <2>5. pc' \in {"sync", "sign", "done"} /\ after' \in {"loop", "mkdir", "sign", "done"}
          /\ result' \in {"ok", "error"}
      BY <2>3
    <2>6. QED
      BY <2>2, <2>4, <2>5, SMTT(60)
  <1>7. CASE SignFile
    <2>1. i \in Index
      BY <1>7 DEF SignFile, FlowInv, Entry
    <2>2. UNCHANGED <<list, i, PrevFileSize, McFileFD, NextFileBuf, after, open, card>>
      BY <1>7 DEF SignFile
    <2>3. /\ buffer' \in {buffer, NextFileBuf} /\ pc' \in {"opened", "done"}
          /\ result' \in {result, "error"}
      BY <1>7 DEF SignFile
    <2>4. live' \subseteq Index
      BY <1>7 DEF SignFile, Free
    <2>5. \/ cmd' = [op |-> "open", arg |-> i, buf |-> 0] /\ answer' = Pending
          \/ UNCHANGED <<cmd, answer>>
      BY <1>7 DEF SignFile, Call
    <2>6. cmd' \in [op : Op, arg : NoFd .. Len(list) \cup Fd, buf : 0 .. Len(list)]
      <3>1. CASE UNCHANGED cmd
        BY <3>1
      <3>2. "open" \in Op /\ i \in NoFd .. Len(list) \cup Fd /\ 0 \in 0 .. Len(list)
        BY <2>1 DEF NoFd, Op
      <3>3. CASE cmd' = [op |-> "open", arg |-> i, buf |-> 0]
        BY <3>2, <3>3
      <3>4. QED
        BY <2>5, <3>1, <3>3
    <2>7. answer' \in {Pending, NoFd, 0, 1} \cup Fd
      BY <2>5
    <2>8. QED
      BY <2>2, <2>3, <2>4, <2>6, <2>7, SMTT(60)
  <1>8. CASE WriteFile
    <2>1. i \in Index /\ answer \in Fd \cup {NoFd}
      BY <1>8 DEF WriteFile, Synced, FlowInv, Entry, CmdInv
    <2>2. PrevFileSize' \in {0, 1} /\ answer' = Pending
      BY <1>8 DEF WriteFile, Taken, Size
    <2>3. cmd' \in [op : Op, arg : NoFd .. Len(list) \cup Fd, buf : 0 .. Len(list)]
      <3>1. \/ cmd' = [op |-> "none", arg |-> 0, buf |-> 0]
            \/ cmd' = [op |-> "write", arg |-> answer, buf |-> buffer]
        BY <1>8 DEF WriteFile, Taken, None
      <3>2. {"none", "write"} \subseteq Op /\ buffer \in 0 .. Len(list)
        BY DEF Op
      <3>3. {0, answer} \subseteq NoFd .. Len(list) \cup Fd /\ 0 \in 0 .. Len(list)
        BY <2>1 DEF NoFd, Fd
      <3>4. CASE cmd' = [op |-> "none", arg |-> 0, buf |-> 0]
        BY <3>2, <3>3, <3>4
      <3>5. CASE cmd' = [op |-> "write", arg |-> answer, buf |-> buffer]
        BY <3>2, <3>3, <3>5
      <3>6. QED
        BY <3>1, <3>4, <3>5
    <2>4. QED
      BY <1>8, <2>1, <2>2, <2>3, SMTT(60) DEF WriteFile, NextEntry
  <1>9. CASE Serve /\ ServeOpen
    <2>1. cmd.arg \in Index
      BY <1>9 DEF ServeOpen, CmdInv, FlowInv, Entry
    <2>2. CASE answer' = NoFd /\ UNCHANGED <<open, card>>
      BY <1>9, <2>2, SMTT(60) DEF Serve, ServeOpen
    <2>3. ASSUME NEW f \in Fd, answer' = f, open' = [open EXCEPT ![f] = cmd.arg],
                 card' = [card EXCEPT ![cmd.arg] = IF Size(cmd.arg) = 0 THEN cmd.arg ELSE Partial]
          PROVE  Types'
      BY <1>9, <2>1, <2>3 DEF Serve, ServeOpen
    <2>4. QED
      BY <1>9, <2>2, <2>3, SMTT(60) DEF ServeOpen
  <1>10. CASE Serve /\ ServeWrite
    <2>1. UNCHANGED <<list, i, PrevFileSize, McFileFD, buffer, NextFileBuf, live, pc, after, result,
                      cmd, open>>
      BY <1>10 DEF Serve, ServeWrite
    <2>2. answer' \in {NoFd, 0, 1}
      BY <1>10 DEF ServeWrite, Size
    <2>3. card' \in [Index -> {Absent, Partial} \cup Index]
      BY <1>10 DEF ServeWrite, CmdInv, Only, Contents
    <2>4. QED
      BY <2>1, <2>2, <2>3, SMTT(60)
  <1>11. CASE Serve /\ ServeClose
    <2>1. UNCHANGED <<list, i, PrevFileSize, McFileFD, buffer, NextFileBuf, live, pc, after, result,
                      cmd, card>>
      BY <1>11 DEF Serve, ServeClose
    <2>2. answer' \in {NoFd, 0}
      BY <1>11 DEF ServeClose
    <2>3. open' \in [Fd -> 0 .. Len(list)]
      BY <1>11 DEF ServeClose
    <2>4. QED
      BY <2>1, <2>2, <2>3, SMTT(60)
  <1>12. CASE Serve /\ ServeMkDir
    <2>1. cmd.arg \in Index
      BY <1>12 DEF ServeMkDir, CmdInv, FlowInv, Entry
    <2>2. UNCHANGED <<list, i, PrevFileSize, McFileFD, buffer, NextFileBuf, live, pc, after, result,
                      cmd, open>>
      BY <1>12 DEF Serve, ServeMkDir
    <2>3. answer' \in {NoFd, 0}
      BY <1>12 DEF ServeMkDir
    <2>4. card' \in [Index -> {Absent, Partial} \cup Index]
      BY <1>12, <2>1 DEF ServeMkDir
    <2>5. QED
      BY <2>2, <2>3, <2>4, SMTT(60)
  <1>13. CASE UNCHANGED vars
    BY <1>13, SMTT(60) DEF vars, libmc
  <1>14. QED
    BY <1>1, <1>2, <1>3, <1>4, <1>5, <1>6, <1>7, <1>8, <1>9, <1>10, <1>11, <1>12, <1>13
       DEF Next, Program, Serve

LEMMA CmdStep ==
  ASSUME IInv, [Next]_vars
  PROVE  CmdInv'
  <1> USE FdsAssumption
      DEF IInv, Types, CmdInv, FlowInv, Index, Fd, NoFd, Pending, None, Op, NoneOpen, Only,
             Entry, FileKinds, Prior, Onward
  <1>1. CASE SyncWrite
    BY <1>1, SMTT(60) DEF SyncWrite, WaitsFor, Synced, WriteDone, Closed, Free
  <1>2. CASE SyncClose
    BY <1>2, SMTT(60) DEF SyncClose, Synced, Taken
  <1>3. CASE Loop
    BY <1>3, SMTT(60) DEF Loop, SyncThen, SyncFirst, libmc
  <1>4. CASE MkDir
    BY <1>4, SMTT(60) DEF MkDir, Call, NextEntry
  <1>5. CASE MkDirDone
    BY <1>5, SMTT(60) DEF MkDirDone, Synced, Taken, NextEntry
  <1>6. CASE ReadFile
    BY <1>6, SMTT(60) DEF ReadFile, SyncThen, SyncFirst, libmc
  <1>7. CASE SignFile
    BY <1>7, SMTT(60) DEF SignFile, Call, Free
  <1>8. CASE WriteFile
    BY <1>8, SMTT(60) DEF WriteFile, Synced, Taken, NextEntry, Size
  <1>9. CASE Serve /\ ServeOpen
    BY <1>9, SMTT(60) DEF Serve, ServeOpen
  <1>10. CASE Serve /\ ServeWrite
    BY <1>10, SMTT(60) DEF Serve, ServeWrite
  <1>11. CASE Serve /\ ServeClose
    BY <1>11, SMTT(60) DEF Serve, ServeClose
  <1>12. CASE Serve /\ ServeMkDir
    BY <1>12, SMTT(60) DEF Serve, ServeMkDir
  <1>13. CASE UNCHANGED vars
    BY <1>13, SMTT(60) DEF vars, libmc
  <1>14. QED
    BY <1>1, <1>2, <1>3, <1>4, <1>5, <1>6, <1>7, <1>8, <1>9, <1>10, <1>11, <1>12, <1>13, SMTT(60)
       DEF Next, Program, Serve

LEMMA FlowStep ==
  ASSUME IInv, [Next]_vars
  PROVE  FlowInv'
  <1> USE FdsAssumption
      DEF IInv, ProperLists, Types, CmdInv, FlowInv, Index, Kind, NoFd, Pending, None, Entry,
             FileKinds, Prior, Onward
  <1>1. CASE SyncWrite
    <2>1. /\ buffer \in live /\ buffer # 0 /\ Onward /\ buffer = i - 1 /\ result = "ok"
          /\ live = {i - 1} \cup (IF after = "sign" THEN {i} ELSE {})
      BY <1>1 DEF SyncWrite
    <2>2. cmd' = [op |-> "close", arg |-> McFileFD, buf |-> 0]
      BY <1>1 DEF SyncWrite, WaitsFor, Closed
    <2>3. ~ freedTwice' /\ live' = IF after = "sign" THEN {i} ELSE {}
      <3>1. live' = live \ {buffer} /\ freedTwice' = FALSE
        BY <1>1, <2>1 DEF SyncWrite, Free
      <3>2. i - 1 # i
        OBVIOUS
      <3>3. live \ {i - 1} = IF after = "sign" THEN {i} ELSE {}
        BY <2>1, <3>2
      <3>4. QED
        BY <2>1, <3>1, <3>3
    <2>4. QED
      BY <1>1, <2>1, <2>2, <2>3 DEF SyncWrite
  <1>2. CASE SyncClose
    BY <1>2 DEF SyncClose, Synced, Taken
  <1>3. CASE Loop
    BY <1>3 DEF Loop, SyncThen, SyncFirst, libmc
  <1>4. CASE MkDir
    BY <1>4 DEF MkDir, Call, NextEntry
  <1>5. CASE MkDirDone
    BY <1>5 DEF MkDirDone, Synced, Taken, NextEntry
  <1>6. CASE ReadFile
    BY <1>6 DEF ReadFile, SyncThen, SyncFirst, libmc
  <1>7. CASE SignFile
    <2>1. CASE pc' = "opened"
      BY <1>7, <2>1 DEF SignFile, Call
    <2>2. CASE pc' = "done"
      BY <1>7, <2>2 DEF SignFile, Free
    <2>3. QED
      BY <1>7, <2>1, <2>2 DEF SignFile
  <1>8. CASE WriteFile
    BY <1>8 DEF WriteFile, Synced, Taken, NextEntry, Size
  <1>9. CASE Serve /\ ServeOpen
    BY <1>9 DEF Serve, ServeOpen
  <1>10. CASE Serve /\ ServeWrite
    BY <1>10 DEF Serve, ServeWrite
  <1>11. CASE Serve /\ ServeClose
    BY <1>11 DEF Serve, ServeClose
  <1>12. CASE Serve /\ ServeMkDir
    BY <1>12 DEF Serve, ServeMkDir
  <1>13. CASE UNCHANGED vars
    BY <1>13 DEF vars, libmc
  <1>14. QED
    BY <1>1, <1>2, <1>3, <1>4, <1>5, <1>6, <1>7, <1>8, <1>9, <1>10, <1>11, <1>12, <1>13
       DEF Next, Program, Serve

LEMMA CardStep ==
  ASSUME IInv, [Next]_vars
  PROVE  CardInv'
  <1> USE FdsAssumption
      DEF IInv, ProperLists, Types, CmdInv, FlowInv, CardInv, Arrived, Index, Kind, Fd, NoFd,
             Pending, Partial, None, Entry, FileKinds, Prior, Onward, Only
  <1>1. CASE SyncWrite
    BY <1>1 DEF SyncWrite, WaitsFor, Synced, WriteDone, Closed, Free
  <1>2. CASE SyncClose
    BY <1>2 DEF SyncClose, Synced, Taken
  <1>3. CASE Loop
    BY <1>3 DEF Loop, SyncThen, SyncFirst, libmc
  <1>4. CASE MkDir
    BY <1>4 DEF MkDir, Call, NextEntry
  <1>5. CASE MkDirDone
    <2>1. answer # NoFd => answer = 0
      BY <1>5 DEF MkDirDone, Synced
    <2>2. QED
      BY <1>5, <2>1 DEF MkDirDone, NextEntry
  <1>6. CASE ReadFile
    BY <1>6 DEF ReadFile, SyncThen, SyncFirst, libmc
  <1>7. CASE SignFile
    BY <1>7 DEF SignFile, Call, Free
  <1>8. CASE WriteFile
    BY <1>8 DEF WriteFile, Synced, Taken, NextEntry, Size
  <1>9. CASE Serve /\ ServeOpen
    BY <1>9 DEF Serve, ServeOpen, Size
  <1>10. CASE Serve /\ ServeWrite
    BY <1>10 DEF Serve, ServeWrite, Size, Contents
  <1>11. CASE Serve /\ ServeClose
    BY <1>11 DEF Serve, ServeClose
  <1>12. CASE Serve /\ ServeMkDir
    BY <1>12 DEF Serve, ServeMkDir
  <1>13. CASE UNCHANGED vars
    BY <1>13 DEF vars, libmc
  <1>14. QED
    BY <1>1, <1>2, <1>3, <1>4, <1>5, <1>6, <1>7, <1>8, <1>9, <1>10, <1>11, <1>12, <1>13
       DEF Next, Program, Serve

LEMMA Step ==
  ASSUME IInv, [Next]_vars
  PROVE  IInv'
  BY TypesStep, CmdStep, FlowStep, CardStep DEF IInv, ProperLists

(* The invariant holds in every state of a copy. *)
THEOREM Invariant ==
  ASSUME ProperLists
  PROVE  Spec => []IInv
  <1>1. Init => IInv
    BY InitInv
  <1>2. QED
    BY <1>1, Step, PTL DEF Spec

(***************************************************************************)
(* The copy with the signing of its files and the driver of the card is a  *)
(* copy: what they do is a step of CopyFiles, or touches none of it.       *)
(***************************************************************************)
LEMMA CopyParts == [CopyNext]_copyVars => [Next]_vars
  <1> SUFFICES ASSUME [CopyNext]_copyVars PROVE [Next]_vars
    OBVIOUS
  <1> USE DEF Next, Program
  <1>1. CASE CopyStep BY <1>1 DEF CopyStep
  <1>2. CASE StartSigning BY <1>2 DEF StartSigning
  <1>3. CASE SignStep BY <1>3 DEF SignStep
  <1>4. CASE EndSigning BY <1>4 DEF EndSigning
  <1>5. CASE DriverAuth BY <1>5 DEF DriverAuth, Carrying
  <1>6. CASE DriverServes BY <1>6 DEF DriverServes
  <1>7. CASE DriverStep BY <1>7 DEF DriverStep
  <1>8. CASE Hardware BY <1>8 DEF Hardware
  <1>9. CASE UNCHANGED copyVars BY <1>9 DEF copyVars
  <1>10. QED
    BY <1>1, <1>2, <1>3, <1>4, <1>5, <1>6, <1>7, <1>8, <1>9 DEF CopyNext

(* Signing and authentication do not disturb the copy (system.c:1714-1868, *)
(* libsecr.c:137-186).                                                     *)
THEOREM SigningFitsIn == CopySpec => Spec
  <1>1. CopyInit => Init
    BY DEF CopyInit
  <1>2. QED
    BY <1>1, CopyParts, PTL DEF CopySpec, Spec

(* An installation that is announced as complete has every file of its     *)
(* list on the card, for a list of any length (system.c:1751-1775,         *)
(* 1833-1868).                                                             *)
THEOREM EveryFileArrives ==
  ASSUME ProperLists
  PROVE  CopySpec => []CopiesArrive
  <1>1. IInv => CopiesArrive
    BY DEF IInv, Types, FlowInv, CardInv, Arrived, Index, CopiesArrive
  <1>2. QED
    BY Invariant, SigningFitsIn, <1>1, PTL

(* The IOP writes from a buffer that is the file's own, until it has       *)
(* answered (system.c:1760, 1857).                                         *)
THEOREM BuffersAreHeld ==
  ASSUME ProperLists
  PROVE  CopySpec => []BufferHeld
  <1>1. IInv => BufferHeld
    BY DEF IInv, CmdInv, BufferHeld
  <1>2. QED
    BY Invariant, SigningFitsIn, <1>1, PTL

(* No command is on its way to the card when a file is signed with it      *)
(* (system.c:1834-1842).                                                   *)
THEOREM SignsUndisturbed ==
  ASSUME ProperLists
  PROVE  CopySpec => []SignsAlone
  <1>1. IInv => SignsAlone
    BY DEF IInv, FlowInv, SignsAlone
  <1>2. QED
    BY Invariant, SigningFitsIn, <1>1, PTL

(* A copy that succeeds leaves no command, no open file and no buffer      *)
(* (system.c:1878-1880).                                                   *)
THEOREM LeavesNothing ==
  ASSUME ProperLists
  PROVE  CopySpec => []NothingLeft
  <1>1. IInv => NothingLeft
    BY DEF IInv, FlowInv, CmdInv, NoneOpen, None, NothingLeft
  <1>2. QED
    BY Invariant, SigningFitsIn, <1>1, PTL

(***************************************************************************)
(* The handshake.  What AuthScript is, command by command.                 *)
(***************************************************************************)
LEMMA ScriptSteps == Steps = 1 .. 34 /\ Len(AuthScript) = 34
BY DEF Steps, AuthScript, Introduce, AskChallenge, Challenge, LastChallenge, Respond

LEMMA ScriptCommands ==
  /\ AuthScript[1].cmd = "60" /\ AuthScript[2].cmd = "80" /\ AuthScript[3].cmd = "F7"
  /\ AuthScript[4].cmd = "00" /\ AuthScript[5].cmd = "81" /\ AuthScript[6].cmd = "01"
  /\ AuthScript[7].cmd = "02" /\ AuthScript[8].cmd = "82" /\ AuthScript[9].cmd = "03"
  /\ AuthScript[10].cmd = "04" /\ AuthScript[11].cmd = "83" /\ AuthScript[12].cmd = "05"
  /\ AuthScript[13].cmd = "8F" /\ AuthScript[14].cmd = "84" /\ AuthScript[15].cmd = "85"
  /\ AuthScript[16].cmd = "06" /\ AuthScript[17].cmd = "07" /\ AuthScript[18].cmd = "08"
  /\ AuthScript[19].cmd = "09" /\ AuthScript[20].cmd = "0A" /\ AuthScript[21].cmd = "0B"
  /\ AuthScript[22].cmd = "0C" /\ AuthScript[23].cmd = "0D" /\ AuthScript[24].cmd = "0E"
  /\ AuthScript[25].cmd = "0F" /\ AuthScript[26].cmd = "10" /\ AuthScript[27].cmd = "11"
  /\ AuthScript[28].cmd = "86" /\ AuthScript[29].cmd = "12" /\ AuthScript[30].cmd = "13"
  /\ AuthScript[31].cmd = "87" /\ AuthScript[32].cmd = "8F" /\ AuthScript[33].cmd = "14"
  /\ AuthScript[34].cmd = "88"
BY DEF AuthScript, Introduce, AskChallenge, Challenge, LastChallenge, Respond,
       card_auth_60, card_auth_key_change, card_auth, card_auth_read, card_auth_write,
       mechacon_auth, mechacon_auth_to, mechacon_auth_from, pol_cal_cmplt, Command

LEMMA ScriptEnds ==
  /\ AuthScript[1].to = "card" /\ AuthScript[2].to = "mecha"
  /\ AuthScript[33].to = "card" /\ AuthScript[34].to = "mecha"
BY DEF AuthScript, Introduce, AskChallenge, Challenge, LastChallenge, Respond,
       card_auth_60, card_auth_key_change, card_auth, card_auth_read, card_auth_write,
       mechacon_auth, mechacon_auth_to, mechacon_auth_from, pol_cal_cmplt, Command

LEMMA ExpectsIs ==
  /\ Expects("82") = <<"CardIV", "CardMaterial">>
  /\ Expects("83") = <<"CardNonce">>
  /\ Expects("06") = <<"MechaChallenge3">>
  /\ Expects("07") = <<"MechaChallenge2a", "MechaChallenge2b">>
  /\ Expects("0B") = <<"MechaChallenge1">>
  /\ Expects("86") = <<"CardResponse1", "CardResponse2">>
  /\ Expects("87") = <<"CardResponse3">>
BY DEF Expects

LEMMA ExpectsNothing ==
  \A c : c \notin {"82", "83", "06", "07", "0B", "86", "87"} => Expects(c) = <<>>
BY DEF Expects

(* Every command tells its side what it is for. *)
Right(x) == x.to \in Side /\ x.put = Expects(x.cmd)
Quiet(x) == x.put = <<>>

Telling == {8, 11, 16, 17, 21, 28, 31}

LEMMA ScriptSides ==
  /\ AuthScript[1].to \in Side /\ AuthScript[2].to \in Side /\ AuthScript[3].to \in Side
  /\ AuthScript[4].to \in Side /\ AuthScript[5].to \in Side /\ AuthScript[6].to \in Side
  /\ AuthScript[7].to \in Side /\ AuthScript[8].to \in Side /\ AuthScript[9].to \in Side
  /\ AuthScript[10].to \in Side /\ AuthScript[11].to \in Side /\ AuthScript[12].to \in Side
  /\ AuthScript[13].to \in Side /\ AuthScript[14].to \in Side /\ AuthScript[15].to \in Side
  /\ AuthScript[16].to \in Side /\ AuthScript[17].to \in Side /\ AuthScript[18].to \in Side
  /\ AuthScript[19].to \in Side /\ AuthScript[20].to \in Side /\ AuthScript[21].to \in Side
  /\ AuthScript[22].to \in Side /\ AuthScript[23].to \in Side /\ AuthScript[24].to \in Side
  /\ AuthScript[25].to \in Side /\ AuthScript[26].to \in Side /\ AuthScript[27].to \in Side
  /\ AuthScript[28].to \in Side /\ AuthScript[29].to \in Side /\ AuthScript[30].to \in Side
  /\ AuthScript[31].to \in Side /\ AuthScript[32].to \in Side /\ AuthScript[33].to \in Side
  /\ AuthScript[34].to \in Side
BY DEF Side, AuthScript, Introduce, AskChallenge, Challenge, LastChallenge, Respond,
       card_auth_60, card_auth_key_change, card_auth, card_auth_read, card_auth_write,
       mechacon_auth, mechacon_auth_to, mechacon_auth_from, pol_cal_cmplt, Command

LEMMA ScriptQuiet ==
  /\ Quiet(AuthScript[1]) /\ Quiet(AuthScript[2]) /\ Quiet(AuthScript[3]) /\ Quiet(AuthScript[4])
  /\ Quiet(AuthScript[5]) /\ Quiet(AuthScript[6]) /\ Quiet(AuthScript[7]) 
  /\ Quiet(AuthScript[9]) /\ Quiet(AuthScript[10])  /\ Quiet(AuthScript[12])
  /\ Quiet(AuthScript[13]) /\ Quiet(AuthScript[14]) /\ Quiet(AuthScript[15]) 
   /\ Quiet(AuthScript[18]) /\ Quiet(AuthScript[19]) /\ Quiet(AuthScript[20])
   /\ Quiet(AuthScript[22]) /\ Quiet(AuthScript[23]) /\ Quiet(AuthScript[24])
  /\ Quiet(AuthScript[25]) /\ Quiet(AuthScript[26]) /\ Quiet(AuthScript[27]) 
  /\ Quiet(AuthScript[29]) /\ Quiet(AuthScript[30])  /\ Quiet(AuthScript[32])
  /\ Quiet(AuthScript[33]) /\ Quiet(AuthScript[34])
BY DEF Quiet, AuthScript, Introduce, AskChallenge, Challenge, LastChallenge, Respond,
       card_auth_60, card_auth_key_change, card_auth, card_auth_read, card_auth_write,
       mechacon_auth, mechacon_auth_to, mechacon_auth_from, pol_cal_cmplt, Command

LEMMA ScriptTells ==
  /\ AuthScript[8].put = <<"CardIV", "CardMaterial">>
  /\ AuthScript[11].put = <<"CardNonce">>
  /\ AuthScript[16].put = <<"MechaChallenge3">>
  /\ AuthScript[17].put = <<"MechaChallenge2a", "MechaChallenge2b">>
  /\ AuthScript[21].put = <<"MechaChallenge1">>
  /\ AuthScript[28].put = <<"CardResponse1", "CardResponse2">>
  /\ AuthScript[31].put = <<"CardResponse3">>
BY DEF AuthScript, Introduce, AskChallenge, Challenge, LastChallenge, Respond,
       card_auth_60, card_auth_key_change, card_auth, card_auth_read, card_auth_write,
       mechacon_auth, mechacon_auth_to, mechacon_auth_from, pol_cal_cmplt, Command

LEMMA ScriptRight == \A k \in 1 .. 34 : Right(AuthScript[k])
<1>1. \A k \in 1 .. 34 : AuthScript[k].to \in Side
  BY ScriptSides
<1>2. \A k \in 1 .. 34 : k \notin Telling =>
        Quiet(AuthScript[k]) /\ AuthScript[k].cmd \notin {"82", "83", "06", "07", "0B", "86", "87"}
  <2>1. \A k \in 1 .. 34 : k \notin Telling => Quiet(AuthScript[k])
    BY ScriptQuiet DEF Telling
  <2> QED
    BY <2>1, ScriptCommands DEF Telling
<1>3. \A k \in Telling : AuthScript[k].put = Expects(AuthScript[k].cmd)
  BY ScriptTells, ScriptCommands, ExpectsIs DEF Telling
<1> QED
  BY <1>1, <1>2, <1>3, ExpectsNothing DEF Right, Quiet

LEMMA ScriptResets ==
  \A k \in 1 .. 34 : IsReset(AuthScript[k]) <=> k \in {1, 2}
BY ScriptCommands DEF IsReset

LEMMA ScriptPolls ==
  \A k \in 1 .. 34 : k \notin {13, 32} => AuthScript[k] # pol_cal_cmplt
<1>1. pol_cal_cmplt.cmd = "8F"
  BY DEF pol_cal_cmplt, Command
<1>2. \A k \in 1 .. 34 : k \notin {13, 32} => AuthScript[k].cmd # "8F"
  BY ScriptCommands
<1> QED
  BY <1>1, <1>2

(* What the code reads with command k, and what it tells. *)
Reads(k) == Range(AuthScript[k].get)
Tells(k) == Range(AuthScript[k].put)

LEMMA RangeOf ==
  /\ Range(<<>>) = {}
  /\ \A a : Range(<<a>>) = {a}
  /\ \A a, b : Range(<<a, b>>) = {a, b}
BY DEF Range

LEMMA TellsIs ==
  /\ Tells(8) = {"CardIV", "CardMaterial"}
  /\ Tells(11) = {"CardNonce"}
  /\ Tells(16) = {"MechaChallenge3"}
  /\ Tells(17) = {"MechaChallenge2a", "MechaChallenge2b"}
  /\ Tells(21) = {"MechaChallenge1"}
  /\ Tells(28) = {"CardResponse1", "CardResponse2"}
  /\ Tells(31) = {"CardResponse3"}
BY ScriptTells, RangeOf DEF Tells

LEMMA TellsNothing == \A k \in 1 .. 34 : k \notin Telling => Tells(k) = {}
<1>1. \A k \in 1 .. 34 : k \notin Telling => Quiet(AuthScript[k])
  BY ScriptQuiet DEF Telling
<1> QED
  BY <1>1, RangeOf DEF Quiet, Tells

LEMMA ReadsIs ==
  /\ "CardIV" \in Reads(6) /\ "CardMaterial" \in Reads(7) /\ "CardNonce" \in Reads(10)
  /\ "MechaChallenge1" \in Reads(14) /\ "MechaChallenge2a" \in Reads(14)
  /\ "MechaChallenge2b" \in Reads(15) /\ "MechaChallenge3" \in Reads(15)
  /\ "CardResponse1" \in Reads(25) /\ "CardResponse2" \in Reads(27)
  /\ "CardResponse3" \in Reads(30)
BY RangeOf DEF Reads, AuthScript, Introduce, AskChallenge, Challenge, LastChallenge, Respond,
       card_auth_60, card_auth_key_change, card_auth, card_auth_read, card_auth_write,
       mechacon_auth, mechacon_auth_to, mechacon_auth_from, pol_cal_cmplt, Command

(* Only what was read before is told, and everything is told. *)
LEMMA ReadBeforeTold ==
  \A k \in 1 .. 34 : \A b \in Tells(k) : b \in AuthValue /\ \E j \in 3 .. k - 1 : b \in Reads(j)
BY TellsIs, TellsNothing, ReadsIs DEF Telling, AuthValue, CardMade, MechaMade

LEMMA AllAreTold == \A b \in AuthValue : \E j \in 3 .. 33 : b \in Tells(j)
BY TellsIs DEF AuthValue, CardMade, MechaMade

(* Where a side is in the script. *)
LEMMA LatestIs ==
  ASSUME NEW S \in SUBSET Nat, NEW m \in S, \A j \in S : j <= m
  PROVE  Latest(S) = m
<1>1. \A k \in S : (\A j \in S : j <= k) => k = m
  OBVIOUS
<1>2. Latest(S) = CHOOSE k \in S : \A j \in S : j <= k
  BY DEF Latest
<1> QED
  BY <1>1, <1>2

LEMMA BeforeNext ==
  ASSUME NEW s \in Side, NEW k \in 1 .. 34
  PROVE  Before(s, k + 1) = IF k \in Own(s) THEN k ELSE Before(s, k)
<1>1. CASE k \in Own(s)
  <2>1. {j \in Own(s) : j < k + 1} \in SUBSET Nat /\ k \in {j \in Own(s) : j < k + 1}
    BY <1>1, ScriptSteps DEF Own
  <2>2. \A j \in {n \in Own(s) : n < k + 1} : j <= k
    BY ScriptSteps DEF Own
  <2> QED
    BY <1>1, <2>1, <2>2, LatestIs DEF Before
<1>2. CASE k \notin Own(s)
  <2>1. {j \in Own(s) : j < k + 1} = {j \in Own(s) : j < k}
    BY <1>2, ScriptSteps DEF Own
  <2> QED
    BY <1>2, <2>1 DEF Before
<1> QED
  BY <1>1, <1>2

LEMMA OwnIs ==
  ASSUME NEW s \in Side, NEW k \in 1 .. 34, AuthScript[k] # pol_cal_cmplt
  PROVE  k \in Own(s) <=> AuthScript[k].to = s
BY ScriptSteps DEF Own

LEMMA ThroughIs == Through("card") = 33 /\ Through("mecha") = 34
<1>1. Own("card") \in SUBSET Nat /\ Own("mecha") \in SUBSET Nat
  BY ScriptSteps DEF Own
<1>2. 33 \in Own("card") /\ 34 \in Own("mecha") /\ 34 \notin Own("card")
  BY ScriptEnds, ScriptSteps, ScriptPolls DEF Own
<1>3. (\A j \in Own("card") : j <= 33) /\ \A j \in Own("mecha") : j <= 34
  BY <1>2, ScriptSteps DEF Own
<1> QED
  BY <1>1, <1>2, <1>3, LatestIs DEF Through

(***************************************************************************)
(* Its invariant.  The MechaCon is where the code is.  So is the card, or  *)
(* it has been taken out, and then it takes no command but a reset.  While *)
(* it is in, everything that was read and told is of this session.         *)
(***************************************************************************)
Current(S, f) == \A b \in AuthValue : b \in S => f[b] = "current"

AuthPlaces ==
  /\ proc = "auth" /\ step >= 2 =>
       Before("card", step) \in 1 .. step - 1 /\ at["card"] \in {0, Before("card", step)}
  /\ proc = "auth" /\ step >= 3 =>
       Before("mecha", step) \in 1 .. step - 1 /\ at["mecha"] = Before("mecha", step)
  /\ proc = "undo_card" => step = 1 /\ at["mecha"] <= 5
  /\ proc = "undo" => step \in {1, 2} /\ (step = 2 /\ unreset = {} => at["card"] <= 1)

AuthValues ==
  proc = "auth" /\ step >= 2 /\ at["card"] # 0 =>
    \A j \in 3 .. step - 1 : Current(Reads(j), buf) /\ Current(Tells(j), heard)

AuthInv == AuthTypeOK /\ AuthPlaces /\ AuthValues /\ AuthAgreed /\ FailureForgets

LEMMA PollsAreQuiet == pol_cal_cmplt.put = <<>> /\ pol_cal_cmplt.get = <<>> /\ Range(<<>>) = {}
BY RangeOf DEF pol_cal_cmplt, Command

LEMMA AgesKept ==
  ASSUME NEW s \in Side, NEW f \in [AuthValue -> Age]
  PROVE  Aged(s, f) \in [AuthValue -> Age] /\ Forgot(s, f) \in [AuthValue -> Age]
BY DEF Aged, Forgot, Age

(* A command after the resets is carried out. *)
LEMMA CommandCarried ==
  ASSUME AuthInv, proc = "auth", step >= 3, AuthScript[step] # pol_cal_cmplt,
         Carried(AuthScript[step], step)
  PROVE  /\ at["card"] # 0 => \A j \in 3 .. step : Current(Tells(j), heard')
         /\ at' \in [Side -> 0 .. 34] /\ heard' \in [AuthValue -> Age]
         /\ at'["card"] \in {0, Before("card", step + 1)} /\ at'["mecha"] = Before("mecha", step + 1)
         /\ at'["card"] # 0 => at["card"] # 0
         /\ busy' \in BOOLEAN
<1> DEFINE x == AuthScript[step]
<1>1. step \in 3 .. 34 /\ x.to \in Side /\ ~ IsReset(x) /\ x.put = Expects(x.cmd)
  BY ScriptSteps, ScriptRight, ScriptResets DEF AuthInv, AuthTypeOK, Right
<1>2. Obey(x, step) /\ at' = [at EXCEPT ![x.to] = step]
  BY <1>1 DEF Carried
<1>3. at \in [Side -> 0 .. 34] /\ buf \in [AuthValue -> Age] /\ heard \in [AuthValue -> Age]
      /\ busy \in BOOLEAN
  BY ScriptSteps DEF AuthInv, AuthTypeOK
<1>4. at[x.to] = Before(x.to, step)
      /\ heard' = [b \in AuthValue |-> IF b \in Tells(step) THEN buf[b] ELSE heard[b]]
      /\ busy' \in BOOLEAN
  BY <1>1, <1>2, <1>3 DEF Obey, Tells
<1>5. heard' \in [AuthValue -> Age]
  BY <1>3, <1>4
<1>6. at' \in [Side -> 0 .. 34]
  BY <1>1, <1>2, <1>3
<1>7. ASSUME at["card"] # 0, NEW j \in 3 .. step, NEW b \in AuthValue, b \in Tells(j)
      PROVE  heard'[b] = "current"
  <2>1. \E n \in 3 .. j - 1 : b \in Reads(n)
    BY <1>1, <1>7, ReadBeforeTold
  <2>2. \A n \in 3 .. step - 1 : Current(Reads(n), buf) /\ Current(Tells(n), heard)
    BY <1>1, <1>7 DEF AuthInv, AuthValues
  <2>3. buf[b] = "current"
    BY <1>1, <2>1, <2>2 DEF Current
  <2>4. CASE b \in Tells(step)
    BY <1>4, <1>7, <2>3, <2>4
  <2>5. CASE b \notin Tells(step)
    <3>1. j \in 3 .. step - 1
      BY <1>1, <1>7, <2>5
    <3>2. heard[b] = "current"
      BY <1>7, <2>2, <3>1 DEF Current
    <3> QED
      BY <1>4, <1>7, <2>5, <3>2
  <2> QED
    BY <2>4, <2>5
<1>8. at["card"] \in {0, Before("card", step)} /\ at["mecha"] = Before("mecha", step)
      /\ Before("card", step) \in 1 .. step - 1
  BY <1>1 DEF AuthInv, AuthPlaces
<1>9. \A s \in Side : Before(s, step + 1) = IF s = x.to THEN step ELSE Before(s, step)
  BY <1>1, BeforeNext, OwnIs
<1>10. /\ at'["card"] \in {0, Before("card", step + 1)} /\ at'["mecha"] = Before("mecha", step + 1)
       /\ at'["card"] # 0 => at["card"] # 0
  BY <1>1, <1>2, <1>3, <1>4, <1>8, <1>9 DEF Side
<1> QED
  BY <1>4, <1>5, <1>6, <1>7, <1>10 DEF Current

(* Once all is told, the values of both sides are of this session. *)
LEMMA ToldIsAgreed ==
  ASSUME NEW f, \A j \in 3 .. 34 : Current(Tells(j), f)
  PROVE  \A b \in AuthValue : f[b] = "current"
BY AllAreTold DEF Current

LEMMA SecrAuthCardKeeps == AuthInv /\ (SecrAuthCard \/ SecrResetAuthCard) => AuthInv'
<1> SUFFICES ASSUME AuthInv, SecrAuthCard \/ SecrResetAuthCard PROVE AuthInv'
  OBVIOUS
<1>1. AuthTypeOK'
  BY ScriptSteps DEF AuthInv, AuthTypeOK, SecrAuthCard, SecrResetAuthCard, Age
<1>2. AuthPlaces'
  BY DEF AuthPlaces, SecrAuthCard, SecrResetAuthCard
<1>3. AuthValues'
  BY DEF AuthValues, SecrAuthCard, SecrResetAuthCard
<1>4. AuthAgreed' /\ FailureForgets'
  BY DEF AuthInv, AuthAgreed, FailureForgets, Through, SecrAuthCard, SecrResetAuthCard
<1> QED
  BY <1>1, <1>2, <1>3, <1>4 DEF AuthInv

(* The resets. *)
LEMMA ResetCarried ==
  ASSUME AuthInv, NEW k \in {1, 2}, Carried(AuthScript[k], k)
  PROVE  /\ at' = [at EXCEPT ![IF k = 1 THEN "card" ELSE "mecha"] = k]
         /\ heard' \in [AuthValue -> Age] /\ busy' \in BOOLEAN
<1>1. IsReset(AuthScript[k]) /\ AuthScript[k].to = IF k = 1 THEN "card" ELSE "mecha"
  BY ScriptResets, ScriptEnds
<1>2. Reset(AuthScript[k])
  BY <1>1 DEF Carried
<1> QED
  BY <1>1, <1>2, AgesKept DEF Carried, Reset, AuthInv, AuthTypeOK, Side

LEMMA BuffersKept ==
  ASSUME AuthInv, NEW k \in 1 .. 34
  PROVE  Kept(AuthScript[k]) \in [AuthValue -> Age] /\ Filled(AuthScript[k]) \in [AuthValue -> Age]
<1>1. buf \in [AuthValue -> Age] /\ AuthScript[k].to \in Side
  BY ScriptRight DEF AuthInv, AuthTypeOK, Right
<1>2. Kept(AuthScript[k]) \in [AuthValue -> Age]
  BY <1>1, AgesKept DEF Kept
<1> QED
  BY <1>2 DEF Filled, Age

LEMMA ResetPlaces ==
  /\ 1 \in Own("card") /\ 2 \in Own("mecha") /\ 1 \notin Own("mecha") /\ 2 \notin Own("card")
  /\ Before("card", 2) = 1 /\ Before("card", 3) = 1 /\ Before("mecha", 3) = 2
<1>1. /\ 1 \in Own("card") /\ 2 \in Own("mecha") /\ 1 \notin Own("mecha") /\ 2 \notin Own("card")
  BY ScriptEnds, ScriptPolls, OwnIs DEF Side
<1>2. Before("card", 1 + 1) = 1 /\ Before("card", 2 + 1) = Before("card", 2) /\ Before("mecha", 2 + 1) = 2
  BY <1>1, BeforeNext DEF Side
<1> QED
  BY <1>1, <1>2

LEMMA AnsweredKeeps ==
  ASSUME AuthInv, proc = "auth", Answered(AuthScript[step], step),
         IF step = Len(AuthScript)
           THEN proc' = "none" /\ step' = 1 /\ granted' = TRUE
           ELSE step' = step + 1 /\ UNCHANGED <<proc, granted>>,
         UNCHANGED <<unreset, pulls>>
  PROVE  AuthInv'
<1> DEFINE x == AuthScript[step]
<1>0. step \in 1 .. 34 /\ Len(AuthScript) = 34
  BY ScriptSteps DEF AuthInv, AuthTypeOK
<1>1. CASE step \in {1, 2}
  <2>1. Carried(x, step) /\ buf' = Filled(x)
    BY <1>0, <1>1, ScriptPolls DEF Answered
  <2>2. at' = [at EXCEPT ![IF step = 1 THEN "card" ELSE "mecha"] = step]
        /\ heard' \in [AuthValue -> Age] /\ busy' \in BOOLEAN
    BY <1>1, <2>1, ResetCarried
  <2>3. proc' = "auth" /\ step' = step + 1 /\ granted' = granted
    BY <1>0, <1>1
  <2>4. at' \in [Side -> 0 .. 34]
    BY <1>1, <2>2, ScriptSteps DEF AuthInv, AuthTypeOK, Side
  <2>5. AuthTypeOK'
    BY <1>0, <1>1, <2>1, <2>2, <2>3, <2>4, BuffersKept, ScriptSteps DEF AuthInv, AuthTypeOK
  <2>6. at'["card"] \in {0, 1} /\ (step = 2 => at'["mecha"] = 2)
    BY <1>1, <2>2, ResetPlaces DEF AuthInv, AuthTypeOK, AuthPlaces, Side
  <2>7. AuthPlaces'
    BY <1>1, <2>3, <2>6, ResetPlaces DEF AuthPlaces
  <2>8. AuthValues'
    BY <1>1, <2>3 DEF AuthValues
  <2>9. AuthAgreed' /\ FailureForgets'
    BY <2>3, <2>6, ThroughIs DEF AuthAgreed, FailureForgets, Side
  <2> QED
    BY <2>5, <2>7, <2>8, <2>9 DEF AuthInv
<1>2. CASE step >= 3 /\ x = pol_cal_cmplt
  <2>1. UNCHANGED <<at, buf, heard, busy>> /\ step \in {13, 32}
    BY <1>0, <1>2, ScriptPolls DEF Answered
  <2>2. proc' = "auth" /\ step' = step + 1 /\ granted' = granted
    BY <1>0, <2>1
  <2>3. Before("card", step + 1) = Before("card", step) /\ Before("mecha", step + 1) = Before("mecha", step)
    BY <1>0, <1>2, BeforeNext DEF Own, Side
  <2>4. Reads(step) = {} /\ Tells(step) = {}
    BY <1>2, PollsAreQuiet DEF Reads, Tells
  <2>5. AuthTypeOK'
    BY <1>0, <2>1, <2>2, ScriptSteps DEF AuthInv, AuthTypeOK
  <2>6. AuthPlaces'
    BY <1>0, <1>2, <2>1, <2>2, <2>3 DEF AuthInv, AuthPlaces
  <2>7. AuthValues'
    BY <1>0, <1>2, <2>1, <2>2, <2>4 DEF AuthInv, AuthValues, Current
  <2>8. AuthAgreed' /\ FailureForgets'
    BY <2>1, <2>2 DEF AuthInv, AuthAgreed, FailureForgets, Through
  <2> QED
    BY <2>5, <2>6, <2>7, <2>8 DEF AuthInv
<1>3. CASE step >= 3 /\ x # pol_cal_cmplt
  <2>1. Carried(x, step) /\ buf' = Filled(x)
    BY <1>3 DEF Answered
  <2>2. /\ at["card"] # 0 => \A j \in 3 .. step : Current(Tells(j), heard')
        /\ at' \in [Side -> 0 .. 34] /\ heard' \in [AuthValue -> Age]
        /\ at'["card"] \in {0, Before("card", step + 1)} /\ at'["mecha"] = Before("mecha", step + 1)
        /\ at'["card"] # 0 => at["card"] # 0
        /\ busy' \in BOOLEAN
    BY <1>3, <2>1, CommandCarried
  <2>3. step' \in Steps
    BY <1>0, ScriptSteps
  <2>4. AuthTypeOK'
    BY <1>0, <2>1, <2>2, <2>3, BuffersKept, ScriptSteps DEF AuthInv, AuthTypeOK
  <2>5. Before("card", step + 1) \in 1 .. step /\ Before("mecha", step + 1) \in 1 .. step
    BY <1>0, <1>3, BeforeNext DEF AuthInv, AuthPlaces, Side
  <2>6. AuthPlaces'
    BY <1>0, <2>2, <2>5 DEF AuthPlaces
  <2>7. ~ IsReset(x) /\ buf' = [b \in AuthValue |-> IF b \in Reads(step) THEN "current" ELSE buf[b]]
    BY <1>0, <1>3, <2>1, ScriptResets DEF Filled, Kept, Reads
  <2>9. at["card"] # 0 => \A j \in 3 .. step : Current(Reads(j), buf')
    BY <1>0, <1>3, <2>7 DEF AuthInv, AuthValues, Current
  <2>10. AuthValues'
    BY <1>0, <2>2, <2>9 DEF AuthValues
  <2>11. AuthAgreed'
    <3>1. CASE step = 34
      BY <2>2, <3>1, ToldIsAgreed, ThroughIs DEF AuthAgreed, Side
    <3>2. CASE step # 34
      BY <1>0, <2>2, <2>5, <3>2, ThroughIs DEF AuthAgreed, Side
    <3> QED
      BY <3>1, <3>2
  <2>12. FailureForgets'
    BY <1>0 DEF FailureForgets
  <2> QED
    BY <2>4, <2>6, <2>10, <2>11, <2>12 DEF AuthInv
<1> QED
  BY <1>0, <1>1, <1>2, <1>3

LEMMA UnansweredKeeps ==
  ASSUME AuthInv, proc = "auth", Unanswered(AuthScript[step], step),
         proc' = WayOut(step), step' = 1, granted' = FALSE,
         unreset' = IF IsReset(AuthScript[step]) THEN {AuthScript[step].to} ELSE {},
         UNCHANGED pulls
  PROVE  AuthInv'
<1> DEFINE x == AuthScript[step]
<1>0. step \in 1 .. 34 /\ x.to \in Side
  BY ScriptSteps, ScriptRight DEF AuthInv, AuthTypeOK, Right
<1>1. proc' \in {"none", "undo", "undo_card"} /\ unreset' \in SUBSET Side /\ step' \in Steps
      /\ (proc' = "none" <=> step \in {1, 2}) /\ (proc' = "undo_card" => step <= 5)
  BY <1>0, ScriptSteps DEF WayOut
<1>2. AuthValues' /\ (proc' = "none" => unreset' # {})
  BY <1>0, <1>1, ScriptResets DEF AuthValues
<1>3. CASE UNCHANGED <<at, buf, heard, busy>>
  <2>1. AuthTypeOK'
    BY <1>1, <1>3 DEF AuthInv, AuthTypeOK
  <2>2. AuthPlaces'
    BY <1>0, <1>1, <1>3 DEF AuthInv, AuthPlaces
  <2>3. AuthAgreed'
    BY <1>3 DEF AuthInv, AuthAgreed, Through
  <2>4. FailureForgets'
    BY <1>2 DEF FailureForgets
  <2> QED
    BY <1>2, <2>1, <2>2, <2>3, <2>4 DEF AuthInv
<1>4. CASE step \in {1, 2} /\ Carried(x, step) /\ buf' = Kept(x)
  <2>1. at' = [at EXCEPT ![IF step = 1 THEN "card" ELSE "mecha"] = step]
        /\ heard' \in [AuthValue -> Age] /\ busy' \in BOOLEAN
    BY <1>4, ResetCarried
  <2>2. at' \in [Side -> 0 .. 34]
    BY <1>4, <2>1, ScriptSteps DEF AuthInv, AuthTypeOK, Side
  <2>3. AuthTypeOK'
    BY <1>0, <1>1, <1>4, <2>1, <2>2, BuffersKept, ScriptSteps DEF AuthInv, AuthTypeOK
  <2>4. AuthPlaces' /\ FailureForgets'
    BY <1>1, <1>2, <1>4 DEF AuthPlaces, FailureForgets
  <2>5. at'["card"] \in {0, 1}
    BY <1>4, <2>1, ResetPlaces DEF AuthInv, AuthTypeOK, AuthPlaces, Side
  <2>6. AuthAgreed'
    BY <2>5, ThroughIs DEF AuthAgreed, Side
  <2> QED
    BY <1>2, <2>3, <2>4, <2>6 DEF AuthInv
<1>5. CASE step >= 3 /\ x # pol_cal_cmplt /\ Carried(x, step) /\ buf' = Kept(x)
  <2>1. /\ at["card"] # 0 => \A j \in 3 .. step : Current(Tells(j), heard')
        /\ at' \in [Side -> 0 .. 34] /\ heard' \in [AuthValue -> Age]
        /\ at'["card"] \in {0, Before("card", step + 1)} /\ at'["mecha"] = Before("mecha", step + 1)
        /\ at'["card"] # 0 => at["card"] # 0
        /\ busy' \in BOOLEAN
    BY <1>5, CommandCarried
  <2>2. Before("mecha", step + 1) \in 1 .. step
    BY <1>0, <1>5, BeforeNext DEF AuthInv, AuthPlaces, Side
  <2>3. AuthTypeOK'
    BY <1>0, <1>1, <1>5, <2>1, BuffersKept, ScriptSteps DEF AuthInv, AuthTypeOK
  <2>4. AuthPlaces' /\ FailureForgets'
    BY <1>0, <1>1, <1>2, <1>5, <2>1, <2>2 DEF AuthPlaces, FailureForgets
  <2>5. AuthAgreed'
    <3>1. CASE step = 34
      BY <2>1, <3>1, ToldIsAgreed, ThroughIs DEF AuthAgreed, Side
    <3>2. CASE step # 34
      BY <1>0, <2>1, <2>2, <3>2, ThroughIs DEF AuthAgreed, Side
    <3> QED
      BY <3>1, <3>2
  <2> QED
    BY <1>2, <2>3, <2>4, <2>5 DEF AuthInv
<1> QED
  BY <1>0, <1>3, <1>4, <1>5 DEF Unanswered

LEMMA AuthStepKeeps == AuthInv /\ AuthStep => AuthInv'
<1> SUFFICES ASSUME AuthInv, AuthStep PROVE AuthInv'
  OBVIOUS
<1>1. CASE /\ Answered(AuthScript[step], step)
           /\ IF step = Len(AuthScript)
                THEN proc' = "none" /\ step' = 1 /\ granted' = TRUE
                ELSE step' = step + 1 /\ UNCHANGED <<proc, granted>>
           /\ UNCHANGED unreset
  <2>1. proc = "auth" /\ UNCHANGED <<unreset, pulls>>
    BY <1>1 DEF AuthStep
  <2> QED
    BY <1>1, <2>1, AnsweredKeeps
<1>2. CASE /\ Unanswered(AuthScript[step], step)
           /\ proc' = WayOut(step) /\ step' = 1
           /\ granted' = FALSE
           /\ unreset' = IF IsReset(AuthScript[step]) THEN {AuthScript[step].to} ELSE {}
  <2>1. proc = "auth" /\ UNCHANGED pulls
    BY DEF AuthStep
  <2> QED
    BY <1>2, <2>1, UnansweredKeeps
<1> QED
  BY <1>1, <1>2 DEF AuthStep

LEMMA UndoStepKeeps == AuthInv /\ UndoStep => AuthInv'
<1> SUFFICES ASSUME AuthInv, UndoStep PROVE AuthInv'
  OBVIOUS
<1> DEFINE x == AuthScript[step]
<1>1. step \in {1, 2} /\ step \in 1 .. 34 /\ (proc = "undo_card" => step = 1)
  BY DEF AuthInv, AuthPlaces, UndoStep
<1>2. x # pol_cal_cmplt /\ x.to = (IF step = 1 THEN "card" ELSE "mecha") /\ x.to \in Side
  BY <1>1, ScriptPolls, ScriptEnds DEF Side
<1>3. /\ proc' = (IF proc = "undo" /\ step = 1 THEN "undo" ELSE "none")
      /\ step' = (IF proc = "undo" /\ step = 1 THEN 2 ELSE 1)
      /\ granted' = FALSE /\ pulls' = pulls
  BY DEF UndoStep
<1>4. /\ AuthValues' /\ step' \in Steps
      /\ proc' \in {"none", "auth", "undo", "undo_card"} /\ granted' \in BOOLEAN /\ pulls' \in 0 .. MaxPulls
  <2>1. AuthValues'
    BY <1>3 DEF AuthValues
  <2>2. pulls' \in 0 .. MaxPulls
    BY <1>3 DEF AuthInv, AuthTypeOK
  <2>3. step' \in Steps
    BY <1>3, ScriptSteps
  <2>4. proc' \in {"none", "auth", "undo", "undo_card"} /\ granted' \in BOOLEAN
    BY <1>3
  <2> QED
    BY <2>1, <2>2, <2>3, <2>4
<1>5. CASE Carried(x, step) /\ buf' \in {Filled(x), Kept(x)} /\ unreset' \in {unreset, unreset \cup {x.to}}
  <2>1. at' = [at EXCEPT ![x.to] = step] /\ heard' \in [AuthValue -> Age] /\ busy' \in BOOLEAN
    BY <1>1, <1>2, <1>5, ResetCarried
  <2>2. at' \in [Side -> 0 .. 34] /\ buf' \in [AuthValue -> Age] /\ unreset' \in SUBSET Side
    BY <1>1, <1>2, <1>5, <2>1, BuffersKept, ScriptSteps DEF AuthInv, AuthTypeOK
  <2>3. AuthTypeOK'
    BY <1>4, <2>1, <2>2, ScriptSteps DEF AuthTypeOK
  <2>4. IF step = 1 THEN at'["card"] = 1 /\ at'["mecha"] = at["mecha"]
                    ELSE at'["mecha"] = 2 /\ at'["card"] = at["card"]
    BY <1>1, <1>2, <2>1 DEF AuthInv, AuthTypeOK, Side
  <2>5. AuthPlaces'
    BY <1>1, <1>3, <2>4 DEF AuthPlaces
  <2>6. AuthAgreed'
    BY <1>1, <2>4, ThroughIs DEF AuthAgreed, Side
  <2>7. FailureForgets'
    BY <1>1, <1>2, <1>3, <1>5, <2>4 DEF FailureForgets, AuthInv, AuthPlaces, UndoStep
  <2> QED
    BY <1>4, <2>3, <2>5, <2>6, <2>7 DEF AuthInv
<1>6. CASE UNCHANGED <<at, buf, heard, busy>> /\ unreset' = unreset \cup {x.to}
  <2>1. AuthTypeOK'
    BY <1>2, <1>4, <1>6 DEF AuthInv, AuthTypeOK
  <2>2. AuthPlaces' /\ FailureForgets'
    BY <1>3, <1>6 DEF AuthPlaces, FailureForgets
  <2>3. AuthAgreed'
    BY <1>6 DEF AuthInv, AuthAgreed, Through
  <2> QED
    BY <1>4, <2>1, <2>2, <2>3 DEF AuthInv
<1>7. \/ Carried(x, step) /\ buf' \in {Filled(x), Kept(x)} /\ unreset' \in {unreset, unreset \cup {x.to}}
      \/ UNCHANGED <<at, buf, heard, busy>> /\ unreset' = unreset \cup {x.to}
  BY <1>2 DEF UndoStep, Answered, Unanswered
<1> QED
  BY <1>5, <1>6, <1>7

LEMMA PullKeeps == AuthInv /\ Pull => AuthInv'
<1> SUFFICES ASSUME AuthInv, Pull PROVE AuthInv'
  OBVIOUS
<1>1. at' = [at EXCEPT !["card"] = 0] /\ at' \in [Side -> 0 .. 34] /\ at'["card"] = 0 /\ at'["mecha"] = at["mecha"]
  BY ScriptSteps DEF AuthInv, AuthTypeOK, Pull, Side
<1>2. buf' \in [AuthValue -> Age] /\ heard' \in [AuthValue -> Age] /\ pulls' \in 0 .. MaxPulls
  BY AgesKept, PullsAssumption DEF AuthInv, AuthTypeOK, Pull, Side
<1>3. AuthTypeOK'
  BY <1>1, <1>2, ScriptSteps DEF AuthInv, AuthTypeOK, Pull
<1>4. AuthPlaces' /\ AuthValues'
  BY <1>1 DEF AuthInv, AuthPlaces, AuthValues, Pull, Before, Own, Latest
<1>5. AuthAgreed' /\ FailureForgets'
  BY <1>1, ThroughIs DEF AuthInv, AuthAgreed, FailureForgets, Pull, Side
<1> QED
  BY <1>3, <1>4, <1>5 DEF AuthInv

(* The invariant does not speak of what the MechaCon computes. *)
LEMMA ComputeKeeps ==
  ASSUME AuthInv, UNCHANGED <<proc, step, at, buf, heard, granted, unreset, pulls>>,
  busy' \in BOOLEAN
  PROVE  AuthInv'
<1>1. AuthTypeOK' /\ AuthAgreed' /\ FailureForgets'
  BY DEF AuthInv, AuthTypeOK, AuthAgreed, FailureForgets, Through
<1>2. AuthPlaces' /\ AuthValues'
  BY DEF AuthInv, AuthPlaces, AuthValues, Before
<1> QED
  BY <1>1, <1>2 DEF AuthInv

LEMMA AuthKeeps == AuthInv /\ [AuthNext]_authVars => AuthInv'
<1> SUFFICES ASSUME AuthInv, [AuthNext]_authVars PROVE AuthInv'
  OBVIOUS
<1>1. busy \in BOOLEAN
  BY DEF AuthInv, AuthTypeOK
<1>2. CASE Compute
  BY <1>2, ComputeKeeps DEF Compute
<1>3. CASE UNCHANGED authVars
  BY <1>1, <1>3, ComputeKeeps DEF authVars
<1> QED
  BY <1>2, <1>3, SecrAuthCardKeeps, AuthStepKeeps, UndoStepKeeps, PullKeeps DEF AuthNext

LEMMA AuthStarts == AuthInit => AuthInv
<1> SUFFICES ASSUME AuthInit PROVE AuthInv
  OBVIOUS
<1>1. AuthTypeOK
  <2>1. step \in Steps /\ pulls \in 0 .. MaxPulls /\ at \in [Side -> 0 .. Len(AuthScript)]
    BY ScriptSteps, PullsAssumption DEF AuthInit
  <2> QED
    BY <2>1 DEF AuthInit, AuthTypeOK, Age
<1>2. AuthPlaces /\ AuthValues
  BY DEF AuthInit, AuthPlaces, AuthValues
<1>3. AuthAgreed /\ FailureForgets
  BY ThroughIs DEF AuthInit, AuthAgreed, FailureForgets, Side
<1> QED
  BY <1>1, <1>2, <1>3 DEF AuthInv

(***************************************************************************)
(* The handshake by itself, called by anybody at any time, keeps to its    *)
(* invariant (secrman.c:587-852).                                          *)
(***************************************************************************)
THEOREM HandshakeInvariant == AuthSpec => []AuthInv
BY AuthStarts, AuthKeeps, PTL DEF AuthSpec

(***************************************************************************)
(* The signing.  First, the MechaCon gets what it was told of.  While a    *)
(* block is written, what is left has either been counted down exactly, or *)
(* it has passed zero, and the next pass is refused.                       *)
(***************************************************************************)
LEMMA Mod ==
  ASSUME NEW n \in Nat \ {0}
  PROVE  /\ \A a \in 0 .. n - 1 : a % n = a
         /\ \A a \in n .. 2 * n - 1 : a % n = a - n
         /\ \A a \in 1 - n .. -1 : a % n = a + n
         /\ \A q, a \in Nat : a < n => (q * n + a) % n = a
OBVIOUS

Overrun == left \in UInt - Piece + 1 .. UInt - 1

(* The length that is left then is refused. *)
LEMMA OverrunIsRefused == ASSUME Overrun PROVE left % UShort > Piece
<1> USE PieceAssumption
<1>1. PICK q \in Nat : UInt = q * UShort
  OBVIOUS
<1>2. PICK a \in 1 .. Piece - 1 : left = UInt - a
  BY DEF Overrun
<1>3. q >= 1 /\ q - 1 \in Nat /\ UShort - a \in Nat /\ UShort - a < UShort
  BY <1>1, <1>2
<1>4. left = (q - 1) * UShort + (UShort - a)
  BY <1>1, <1>2
<1>5. left % UShort = UShort - a
  BY <1>3, <1>4, Mod
<1> QED
  BY <1>2, <1>5

Stages == {"idle", "header", "write_header", "poll_header", "read_bit", "block", "write_block",
           "poll_block", "keys", "twin", "signed", "failed"}

FedInv ==
  /\ stage \in Stages /\ kelf \in Kelfs
  /\ left \in Nat /\ told \in Nat /\ fed \in Nat /\ blk \in Nat \ {0}
  /\ stage = "write_header" => fed + left = told
  /\ stage = "write_block" => left < UInt /\ (fed + left = told \/ Overrun)
  /\ FedAsTold

(* The blocks that are signed, of all files, are shorter than the numbers  *)
(* of 16 bits that the MechaCon is told their lengths with.                *)
ShortBlocks ==
  \A f \in Kelfs : \A n \in DOMAIN f.blocks : f.blocks[n].signed => f.blocks[n].size < UShort

LEMMA SetHeaderFeeds == FedInv /\ secr_set_header => FedInv'
<1> SUFFICES ASSUME FedInv, secr_set_header PROVE FedInv'
  OBVIOUS
<1> USE PieceAssumption
<1>1. CASE left = 0
  BY <1>1 DEF FedInv, secr_set_header, Stages, FedAsTold
<1>2. CASE left # 0
  <2>1. /\ stage' = "write_header" /\ kelf' = kelf /\ told' = told /\ blk' = blk
        /\ Got(Chunk) /\ left' = IF left >= Piece THEN left - Piece ELSE 0
    BY <1>2 DEF secr_set_header
  <2>2. fed' \in Nat /\ left' \in Nat /\ fed' + left' = told
    BY <2>1 DEF FedInv, secr_set_header, Got, Chunk
  <2> QED
    BY <2>1, <2>2 DEF FedInv, Stages, FedAsTold
<1> QED
  BY <1>1, <1>2

LEMMA BlockFeeds == FedInv /\ SecrDownloadBlock => FedInv'
<1> SUFFICES ASSUME FedInv, SecrDownloadBlock PROVE FedInv'
  OBVIOUS
<1> USE PieceAssumption
<1>0. /\ stage = "write_block" /\ kelf' = kelf /\ told' = told /\ blk' = blk
      /\ left \in 0 .. UInt - 1 /\ told \in Nat /\ fed \in Nat
      /\ fed + left = told \/ Overrun
  BY DEF FedInv, SecrDownloadBlock
<1>1. CASE left = 0
  <2>1. stage' = "poll_block" /\ fed' = fed /\ left' = left
    BY <1>1 DEF SecrDownloadBlock
  <2>2. fed = told
    BY <1>0, <1>1 DEF Overrun
  <2> QED
    BY <2>1, <2>2, <1>0 DEF FedInv, Stages, FedAsTold
<1>2. CASE Overrun
  <2>1. left # 0 /\ left + Piece - 1 \in UInt .. 2 * UInt - 1
    BY <1>0, <1>2 DEF Overrun
  <2>2. (left + Piece - 1) % UInt < Piece
    BY <1>0, <2>1, Mod
  <2>3. WriteRest
    BY <2>1, <2>2 DEF SecrDownloadBlock
  <2>4. stage' = "failed" /\ UNCHANGED <<left, fed>>
    <3>1. left % UShort > Piece /\ left % UShort \in Int
      BY <1>0, <1>2, OverrunIsRefused
    <3> QED
      BY <2>3, <3>1 DEF WriteRest
  <2> QED
    BY <2>4, <1>0 DEF FedInv, Stages, FedAsTold
<1>3. CASE left # 0 /\ ~ Overrun /\ left < Piece
  <2>1. (left + Piece - 1) % UInt = left + Piece - 1
    BY <1>0, <1>3, Mod DEF Overrun
  <2>2. LastPiece
    BY <1>0, <1>3, <2>1 DEF SecrDownloadBlock
  <2>3. left' = left - Piece + UInt /\ stage' = stage
    <3>1. left - Piece \in 1 - UInt .. -1
      BY <1>0, <1>3
    <3>2. (left - Piece) % UInt = left - Piece + UInt
      BY <3>1, Mod
    <3> QED
      BY <2>2, <3>2 DEF LastPiece
  <2>4. Overrun' /\ left' \in Nat /\ left' < UInt
    BY <1>0, <1>3, <2>3 DEF Overrun
  <2>5. fed' \in Nat
    BY <1>0, <2>2 DEF LastPiece, Got
  <2> QED
    BY <1>0, <2>3, <2>4, <2>5 DEF FedInv, Stages, FedAsTold
<1>4. CASE left # 0 /\ ~ Overrun /\ left >= Piece
  <2>1. (left + Piece - 1) % UInt = left + Piece - 1
    <3>1. left + Piece - 1 \in 0 .. UInt - 1
      BY <1>0, <1>4 DEF Overrun
    <3> QED
      BY <3>1, Mod
  <2>2. left' = left - Piece /\ Got(Piece) /\ stage' = stage
    BY <1>0, <1>4, <2>1 DEF SecrDownloadBlock
  <2>3. fed' + left' = told /\ fed' \in Nat /\ left' \in Nat /\ left' < UInt
    BY <1>0, <1>4, <2>2 DEF Got
  <2> QED
    BY <1>0, <2>2, <2>3 DEF FedInv, Stages, FedAsTold
<1>5. left = 0 \/ Overrun \/ left < Piece \/ left >= Piece
  BY <1>0
<1> QED
  BY <1>1, <1>2, <1>3, <1>4, <1>5

LEMMA KelfIs ==
  ASSUME NEW f \in Kelfs
  PROVE  /\ f.header \in Nat /\ f.blocks \in Seq([size : 0 .. UInt - 1, signed : BOOLEAN])
         /\ Len(f.blocks) \in Nat
         /\ \A n \in DOMAIN f.blocks : f.blocks[n].size \in 0 .. UInt - 1
<1> DEFINE Block == [size : 0 .. UInt - 1, signed : BOOLEAN]
<1>1. f \in [header : 0 .. UShort - 1, icvps2 : BOOLEAN, blocks : Seq(Block)]
  BY KelfsAssumption
<1>2. f.blocks \in Seq(Block) /\ f.header \in Nat
  BY <1>1, PieceAssumption
<1>3. \A n \in DOMAIN f.blocks : f.blocks[n] \in Block
  <2> HIDE DEF Block
  <2> QED
    BY <1>2
<1>4. Len(f.blocks) \in Nat
  BY <1>2
<1>5. \A n \in DOMAIN f.blocks : f.blocks[n].size \in 0 .. UInt - 1
  BY <1>3
<1> QED
  BY <1>2, <1>4, <1>5

LEMMA NextBlockFeeds == ASSUME ShortBlocks PROVE FedInv /\ NextBlock => FedInv'
<1> SUFFICES ASSUME FedInv, NextBlock PROVE FedInv'
  OBVIOUS
<1>1. CASE stage' # "write_block"
  BY <1>1 DEF FedInv, NextBlock, Stages, FedAsTold
<1>2. CASE stage' = "write_block"
  <2>1. /\ blk \in DOMAIN kelf.blocks /\ kelf.blocks[blk].signed
        /\ left' = kelf.blocks[blk].size /\ told' = left' % UShort /\ fed' = 0
        /\ kelf' = kelf /\ blk' = blk
    BY <1>2, KelfIs DEF FedInv, NextBlock
  <2>2. left' \in 0 .. UInt - 1 /\ left' < UShort
    BY <2>1, KelfIs DEF ShortBlocks, FedInv
  <2>3. told' = left'
    BY <2>1, <2>2, Mod, PieceAssumption
  <2> QED
    BY <1>2, <2>1, <2>2, <2>3, PieceAssumption DEF FedInv, Stages, FedAsTold
<1> QED
  BY <1>1, <1>2

LEMMA FedKeeps == ASSUME ShortBlocks PROVE FedInv /\ [CopyNext]_copyVars => FedInv'
<1> SUFFICES ASSUME FedInv, [CopyNext]_copyVars PROVE FedInv'
  OBVIOUS
<1> USE DEF Stages, FedAsTold
<1>0. CASE UNCHANGED <<stage, kelf, left, told, fed, blk>>
  BY <1>0 DEF FedInv, Overrun
<1>1. CASE write_HD_start
  BY <1>1, KelfIs DEF FedInv, write_HD_start
<1>2. CASE PollHeader
  <2>1. left' \in Nat
    <3>1. Len(kelf.blocks) \in Nat /\ Piece \in Nat
      BY KelfIs, PieceAssumption DEF FedInv
    <3>2. Piece \div 2 \in Nat /\ Piece * Len(kelf.blocks) \in Nat
      BY <3>1
    <3> QED
      BY <1>2, <3>2 DEF PollHeader
  <2> QED
    BY <1>2, <2>1 DEF FedInv, PollHeader, Polled
<1>3. CASE Read_BIT
  BY <1>3, PieceAssumption DEF FedInv, Read_BIT
<1>4. CASE PollBlock
  BY <1>4 DEF FedInv, PollBlock, Polled
<1>5. CASE GetKeys
  BY <1>5 DEF FedInv, GetKeys
<1>6. CASE CopyKeys
  BY <1>6 DEF FedInv, CopyKeys
<1>7. CASE SignFails
  BY <1>7 DEF FedInv, SignFails
<1>8. CASE SignKELF
  BY <1>8 DEF FedInv, SignKELF
<1>9. CASE EndSigning
  BY <1>9 DEF FedInv, EndSigning
<1>10. CASE SignStep
  BY <1>1, <1>2, <1>3, <1>4, <1>5, <1>6, <1>7, <1>10, SetHeaderFeeds, BlockFeeds,
     NextBlockFeeds DEF SignStep, Sign
<1>11. [CopyNext]_copyVars => StartSigning \/ SignStep \/ EndSigning \/ UNCHANGED <<stage, kelf, left, told, fed, blk>>
  BY DEF CopyNext, copyVars, signVars, CopyStep, DriverAuth, DriverServes, DriverStep, Hardware
<1> QED
  BY <1>0, <1>8, <1>9, <1>10, <1>11 DEF StartSigning

(***************************************************************************)
(* Then, the keys.  What the driver does with the card, it does for a      *)
(* command of libmc, and there is none while a file is signed: the card    *)
(* that was taken out stays unauthenticated, and the halves that are       *)
(* encrypted are of one session.                                           *)
(***************************************************************************)
DriverInv ==
  /\ proc # "none" => cmd # None /\ answer = Pending
  /\ stage # "idle" => IsKelf

Alone == stage # "idle" => proc = "none" /\ cmd = None

LEMMA DriverStarts == CopyInit => DriverInv
BY DEF CopyInit, SignInit, DriverInv

LEMMA DriverKeeps == DriverInv /\ [CopyNext]_copyVars => DriverInv'
<1> SUFFICES ASSUME DriverInv, [CopyNext]_copyVars PROVE DriverInv'
  OBVIOUS
<1> USE DEF DriverInv
<1>0. CASE UNCHANGED copyVars
  BY <1>0 DEF copyVars, vars, libmc, authVars, signVars, IsKelf
<1>1. CASE CopyStep
  <2>1. cmd # None /\ answer = Pending => UNCHANGED <<cmd, answer>>
    BY <1>1 DEF CopyStep, Program, SyncWrite, SyncClose, Loop, MkDir, MkDirDone, ReadFile, SignFile,
                WriteFile, Synced, WaitsFor, Call, libmc
  <2> QED
    BY <1>1, <2>1 DEF CopyStep, authVars, signVars
<1>2. CASE StartSigning
  BY <1>2 DEF StartSigning, SignKELF, vars, libmc, authVars, IsKelf
<1>3. CASE SignStep
  <2>1. UNCHANGED <<proc, cmd, answer, pc, list, i>> /\ stage # "idle"
    BY <1>3 DEF SignStep, Sign, SignFails, write_HD_start, secr_set_header, PollHeader, Polled,
           Read_BIT,
                NextBlock, SecrDownloadBlock, PollBlock, GetKeys, CopyKeys, UnchangedAuth,
                authVars, vars, libmc
  <2> QED
    BY <2>1 DEF IsKelf
<1>4. CASE EndSigning
  BY <1>4 DEF EndSigning, SignFile, Call, authVars
<1>5. CASE DriverAuth
  BY <1>5 DEF DriverAuth, Carrying, vars, libmc, signVars, IsKelf
<1>6. CASE DriverServes
  BY <1>6 DEF DriverServes, Serve, authVars, signVars, IsKelf
<1>7. CASE DriverStep
  BY <1>7 DEF DriverStep, AuthStep, UndoStep, vars, libmc, IsKelf
<1>8. CASE Hardware
  BY <1>8 DEF Hardware, Compute, Pull, vars, libmc, signVars, IsKelf
<1> QED
  BY <1>0, <1>1, <1>2, <1>3, <1>4, <1>5, <1>6, <1>7, <1>8 DEF CopyNext

LEMMA SigningIsAlone == IInv /\ DriverInv => Alone
BY DEF IInv, FlowInv, DriverInv, IsKelf, Alone

LEMMA KeyScriptIs ==
  /\ Len(KeyScript) \in {8, 9}
  /\ KeyScript[1] = "94" /\ KeyScript[2] = "95" /\ KeyScript[3] = "kbit1" /\ KeyScript[4] = "kbit2"
  /\ KeyScript[5] = "96" /\ KeyScript[6] = "97" /\ KeyScript[7] = "kc1" /\ KeyScript[8] = "kc2"
  /\ Len(KeyScript) = 9 => KeyScript[9] = "98"
<1>1. CASE kelf.icvps2
  BY <1>1 DEF KeyScript, GetKbit, GetKc, ICVPS2
<1>2. CASE ~ kelf.icvps2
  BY <1>2 DEF KeyScript, GetKbit, GetKc, ICVPS2
<1> QED
  BY <1>1, <1>2

LEMMA MadeByIs ==
  /\ MadeBy("94") = {"kbit1"} /\ MadeBy("95") = {"kbit2"}
  /\ MadeBy("96") = {"kc1"} /\ MadeBy("97") = {"kc2"} /\ MadeBy("98") = {}
BY DEF MadeBy

(* The steps of KeyScript that make each half, and that encrypt it. *)
MadeAt  == [kbit1 |-> 1, kbit2 |-> 2, kc1 |-> 5, kc2 |-> 6]
CryptAt == [kbit1 |-> 3, kbit2 |-> 4, kc1 |-> 7, kc2 |-> 8]

OneCard(S, f) == \A h \in S : f[h] \in Nat /\ f[h] = f["kbit1"]

KeysInv ==
  /\ pulls \in Nat /\ target \in Buffers
  /\ half \in [Half -> Int] /\ key \in [Buffers -> [Half -> Int]] /\ keyStep \in Nat
  /\ stage # "idle" => (target = IF twin THEN "ps2" ELSE "own")
  /\ stage = "keys" =>
       /\ keyStep \in 1 .. Len(KeyScript) + 1
       /\ OneCard({h \in Half : CryptAt[h] < keyStep}, half)
       /\ at["card"] # 0 => \A h \in Half : CryptAt[h] < keyStep => half[h] = pulls
       /\ \A h \in Half : MadeAt[h] < keyStep /\ keyStep <= CryptAt[h] => half[h] = Raw
  /\ stage = "twin" => OneCard(Half, key["ps2"])
  /\ stage = "signed" => OneCard(Half, key["own"])

(* One step of KeyScript. *)
LEMMA KeyCommandKeeps ==
  ASSUME KeysInv, stage = "keys", keyStep <= Len(KeyScript), KeyCommand(KeyScript[keyStep]),
         UNCHANGED <<stage, kelf, target, twin, key, at, pulls>>, keyStep' = keyStep + 1
  PROVE  KeysInv'
<1> DEFINE c == KeyScript[keyStep]
<1>1. keyStep \in 1 .. 9 /\ Len(KeyScript) \in Nat /\ Len(KeyScript)' = Len(KeyScript)
  BY KeyScriptIs DEF KeysInv, KeyScript, ICVPS2
<1>2. half \in [Half -> Int] /\ pulls \in Nat
  BY DEF KeysInv
<1>3. \A h \in Half : MadeAt[h] < keyStep /\ keyStep <= CryptAt[h] => half[h] = Raw
  BY DEF KeysInv
<1>4. \A h \in Half : CryptAt[h] < keyStep => half[h] \in Nat /\ half[h] = half["kbit1"]
  BY DEF KeysInv, OneCard
<1>5. at["card"] # 0 => \A h \in Half : CryptAt[h] < keyStep => half[h] = pulls
  BY DEF KeysInv
<1>6. CASE keyStep \in {3, 4, 7, 8}
  <2>1. c \in Half /\ CryptAt[c] = keyStep /\ MadeAt[c] < keyStep
    BY <1>6, KeyScriptIs DEF Half, CryptAt, MadeAt
  <2>2. at["card"] # 0 /\ half' = [half EXCEPT ![c] = pulls]
    <3>1. half[c] = Raw
      BY <1>1, <1>3, <1>6, <2>1
    <3>2. card_encrypt(c)
      BY <2>1 DEF KeyCommand
    <3> QED
      BY <3>1, <3>2, ThroughIs DEF card_encrypt
  <2>3. /\ \A h \in Half : CryptAt[h] < keyStep + 1 => half'[h] = pulls
        /\ \A h \in Half : MadeAt[h] < keyStep + 1 /\ keyStep + 1 <= CryptAt[h] => half'[h] = Raw
    BY <1>1, <1>2, <1>3, <1>5, <1>6, <2>1, <2>2 DEF Half, CryptAt, MadeAt
  <2>4. OneCard({h \in Half : CryptAt[h] < keyStep + 1}, half')
    <3>1. CryptAt["kbit1"] < keyStep + 1 /\ "kbit1" \in Half
      BY <1>6 DEF CryptAt, Half
    <3> QED
      BY <1>2, <2>3, <3>1 DEF OneCard
  <2>5. half' \in [Half -> Int]
    BY <1>2, <2>1, <2>2
  <2> QED
    BY <1>1, <2>3, <2>4, <2>5 DEF KeysInv
<1>7. CASE keyStep \in {1, 2, 5, 6, 9}
  <2>1. c \notin Half /\ \A h \in Half : h \in MadeBy(c) <=> MadeAt[h] = keyStep
    BY <1>1, <1>7, KeyScriptIs, MadeByIs DEF Half, MadeAt
  <2>2. half' = [h \in Half |-> IF MadeAt[h] = keyStep THEN Raw ELSE half[h]]
    BY <2>1 DEF KeyCommand
  <2>3. /\ \A h \in Half : CryptAt[h] < keyStep + 1 => CryptAt[h] < keyStep /\ MadeAt[h] # keyStep
        /\ \A h \in Half : MadeAt[h] < keyStep + 1 /\ keyStep + 1 <= CryptAt[h] =>
              MadeAt[h] = keyStep \/ (MadeAt[h] < keyStep /\ keyStep <= CryptAt[h])
        /\ \A h \in Half : CryptAt[h] < keyStep => MadeAt["kbit1"] # keyStep
        /\ "kbit1" \in Half
    BY <1>7 DEF Half, CryptAt, MadeAt
  <2>4. /\ \A h \in Half : CryptAt[h] < keyStep + 1 => half'[h] = half[h] /\ half'["kbit1"] = half["kbit1"]
        /\ \A h \in Half : MadeAt[h] < keyStep + 1 /\ keyStep + 1 <= CryptAt[h] => half'[h] = Raw
    BY <1>3, <2>2, <2>3
  <2>5. OneCard({h \in Half : CryptAt[h] < keyStep + 1}, half')
    BY <1>4, <2>3, <2>4 DEF OneCard
  <2>6. half' \in [Half -> Int]
    BY <1>2, <2>2 DEF Raw
  <2>7. at'["card"] # 0 => \A h \in Half : CryptAt[h] < keyStep + 1 => half'[h] = pulls
    BY <1>5, <2>3, <2>4
  <2> QED
    BY <1>1, <2>4, <2>5, <2>6, <2>7 DEF KeysInv
<1> QED
  BY <1>1, <1>6, <1>7

LEMMA GetKeysKeeps == KeysInv /\ GetKeys => KeysInv'
<1> SUFFICES ASSUME KeysInv, GetKeys PROVE KeysInv'
  OBVIOUS
<1>1. CASE keyStep <= Len(KeyScript)
  BY <1>1, KeyCommandKeeps DEF GetKeys, authVars
<1>2. CASE ~ (keyStep <= Len(KeyScript))
  <2>1. /\ key' = [key EXCEPT ![target] = half] /\ stage' = (IF twin THEN "twin" ELSE "signed")
        /\ UNCHANGED <<target, twin, half, keyStep, pulls>> /\ stage = "keys"
    BY <1>2 DEF GetKeys, authVars
  <2>2. half \in [Half -> Int] /\ key \in [Buffers -> [Half -> Int]] /\ target \in Buffers
        /\ target = (IF twin THEN "ps2" ELSE "own")
    BY <2>1 DEF KeysInv
  <2>3. keyStep >= 9
    BY <1>2, <2>1, KeyScriptIs DEF KeysInv
  <2>4. \A h \in Half : CryptAt[h] < keyStep
    BY <2>1, <2>3 DEF KeysInv, Half, CryptAt
  <2>5. OneCard(Half, half)
    BY <2>1, <2>4 DEF KeysInv, OneCard
  <2>6. key' \in [Buffers -> [Half -> Int]] /\ key'[target] = half
    BY <2>1, <2>2
  <2> QED
    BY <2>1, <2>2, <2>5, <2>6 DEF KeysInv
<1> QED
  BY <1>1, <1>2

LEMMA CopyKeysKeeps == KeysInv /\ CopyKeys => KeysInv'
<1> SUFFICES ASSUME KeysInv, CopyKeys PROVE KeysInv'
  OBVIOUS
<1>1. key' \in [Buffers -> [Half -> Int]] /\ key'["own"] = key["ps2"]
  BY DEF KeysInv, CopyKeys, Buffers
<1> QED
  BY <1>1 DEF KeysInv, CopyKeys, authVars

(* All other steps leave the keys alone; a card that is taken out stays    *)
(* unauthenticated while a file is signed.                                 *)
KeysStay ==
  /\ UNCHANGED <<target, twin, half, key>> /\ keyStep' \in Nat /\ pulls' \in Nat
  /\ stage' \in {"twin", "signed"} => stage' = stage
  /\ stage' # "idle" => stage # "idle"
  /\ stage' = "keys" =>
       \/ keyStep' = 1
       \/ /\ stage = "keys" /\ UNCHANGED <<kelf, keyStep>>
          /\ at'["card"] # 0 => at["card"] # 0 /\ UNCHANGED pulls

LEMMA KeysStayKeeps == KeysInv /\ KeysStay => KeysInv'
<1> SUFFICES ASSUME KeysInv, KeysStay PROVE KeysInv'
  OBVIOUS
<1>1. /\ pulls' \in Nat /\ target' \in Buffers
      /\ half' \in [Half -> Int] /\ key' \in [Buffers -> [Half -> Int]] /\ keyStep' \in Nat
      /\ stage' # "idle" => (target' = IF twin' THEN "ps2" ELSE "own")
      /\ stage' = "twin" => OneCard(Half, key'["ps2"])
      /\ stage' = "signed" => OneCard(Half, key'["own"])
  BY DEF KeysInv, KeysStay
<1> DEFINE Keys ==
      /\ keyStep \in 1 .. Len(KeyScript) + 1
      /\ OneCard({h \in Half : CryptAt[h] < keyStep}, half)
      /\ at["card"] # 0 => \A h \in Half : CryptAt[h] < keyStep => half[h] = pulls
      /\ \A h \in Half : MadeAt[h] < keyStep /\ keyStep <= CryptAt[h] => half[h] = Raw
<1>2. ASSUME stage' = "keys", keyStep' = 1 PROVE Keys'
  <2>1. \A h \in Half : ~ (CryptAt[h] < 1) /\ ~ (MadeAt[h] < 1)
    BY DEF Half, CryptAt, MadeAt
  <2>2. Len(KeyScript)' \in Nat
    BY KeyScriptIs DEF KeyScript, ICVPS2, GetKbit, GetKc
  <2> QED
    BY <1>2, <2>1, <2>2 DEF OneCard
<1>3. ASSUME stage' = "keys", keyStep' # 1 PROVE Keys'
  <2>1. stage = "keys" /\ UNCHANGED <<kelf, keyStep, half>> /\ Len(KeyScript)' = Len(KeyScript)
        /\ (at'["card"] # 0 => at["card"] # 0 /\ UNCHANGED pulls)
    BY <1>3 DEF KeyScript, ICVPS2, KeysStay
  <2>2. Keys
    BY <2>1 DEF KeysInv
  <2> QED
    BY <2>1, <2>2
<1>4. stage' = "keys" => Keys'
  BY <1>2, <1>3
<1> QED
  BY <1>1, <1>4 DEF KeysInv

LEMMA KeysKeeps == ASSUME Alone, AuthTypeOK, AuthTypeOK', KeysInv,
[CopyNext]_copyVars PROVE KeysInv'
<1>0. pulls' \in Nat /\ keyStep \in Nat /\ at \in [Side -> Nat]
  <2>1. pulls' \in 0 .. MaxPulls
    BY DEF AuthTypeOK
  <2>2. at \in [Side -> 0 .. 34]
    BY ScriptSteps DEF AuthTypeOK
  <2>3. keyStep \in Nat
    BY DEF KeysInv
  <2> QED
    BY <2>1, <2>2, <2>3, PullsAssumption
<1>1. CASE UNCHANGED <<signVars, at, pulls>>
  BY <1>0, <1>1, KeysStayKeeps DEF KeysStay, signVars
<1>2. CASE SignKELF
  <2>1. target' \in Buffers /\ target' = (IF twin' THEN "ps2" ELSE "own") /\ stage' = "header"
        /\ half' \in [Half -> Int] /\ key' \in [Buffers -> [Half -> Int]] /\ keyStep' \in Nat
    BY <1>2 DEF SignKELF, Unkeyed, NoKey, Buffers
  <2> QED
    BY <1>0, <2>1 DEF KeysInv
<1>3. CASE SignStep
  <2>1. CASE GetKeys \/ CopyKeys
    BY <2>1, GetKeysKeeps, CopyKeysKeeps
  <2>2. CASE NextBlock
    BY <1>0, <2>2, KeysStayKeeps DEF KeysStay, NextBlock, authVars
  <2>3. CASE SignFails
    BY <1>0, <2>3, KeysStayKeeps DEF KeysStay, SignFails, authVars
  <2>4. CASE write_HD_start \/ secr_set_header \/ PollHeader \/ Read_BIT \/ SecrDownloadBlock \/ PollBlock
    <3>1. /\ UNCHANGED <<target, twin, half, key, keyStep>> /\ stage # "idle"
          /\ stage' \notin {"twin", "signed", "keys"}
      BY <2>4 DEF write_HD_start, secr_set_header, PollHeader, Polled, Read_BIT, SecrDownloadBlock,
                  WriteRest, LastPiece, PollBlock
    <3> QED
      BY <1>0, <3>1, KeysStayKeeps DEF KeysStay
  <2> QED
    BY <1>3, <2>1, <2>2, <2>3, <2>4 DEF SignStep, Sign
<1>4. CASE EndSigning
  <2>1. /\ half' \in [Half -> Int] /\ key' \in [Buffers -> [Half -> Int]] /\ keyStep' \in Nat
        /\ stage' = "idle" /\ target' = target
    BY <1>4 DEF EndSigning, Unkeyed, NoKey
  <2> QED
    BY <1>0, <2>1 DEF KeysInv
<1>5. CASE DriverStep
  <2>1. stage = "idle"
    BY <1>5 DEF DriverStep, AuthStep, UndoStep, Alone
  <2> QED
    BY <1>0, <1>5, <2>1, KeysStayKeeps DEF KeysStay, DriverStep
<1>6. CASE Pull /\ UNCHANGED signVars
  <2>1. at'["card"] = 0
    BY <1>0, <1>6 DEF Pull, Side
  <2> QED
    BY <1>0, <1>6, <2>1, KeysStayKeeps DEF KeysStay, signVars
<1>7. SignKELF \/ SignStep \/ EndSigning \/ DriverStep \/ (Pull /\ UNCHANGED signVars)
        \/ UNCHANGED <<signVars, at, pulls>>
  BY DEF CopyNext, copyVars, authVars, CopyStep, StartSigning, DriverAuth, SecrAuthCard,
         SecrResetAuthCard,
         DriverServes, Hardware, Compute
<1> QED
  BY <1>1, <1>2, <1>3, <1>4, <1>5, <1>6, <1>7

(***************************************************************************)
(* All of it together.                                                     *)
(***************************************************************************)
SignInv == AuthInv /\ DriverInv /\ KeysInv

LEMMA SignStarts == CopyInit => SignInv
<1> SUFFICES ASSUME CopyInit PROVE SignInv
  OBVIOUS
<1>1. AuthTypeOK
  <2>1. step \in Steps /\ pulls \in 0 .. MaxPulls /\ at \in [Side -> 0 .. Len(AuthScript)]
    BY ScriptSteps, ThroughIs, PullsAssumption DEF CopyInit, Side
  <2> QED
    BY <2>1 DEF CopyInit, AuthTypeOK, Age
<1>2. AuthPlaces /\ AuthValues /\ AuthAgreed /\ FailureForgets
  BY DEF CopyInit, AuthPlaces, AuthValues, AuthAgreed, FailureForgets
<1>3. KeysInv
  <2>1. half \in [Half -> Int] /\ key \in [Buffers -> [Half -> Int]]
    BY DEF CopyInit, SignInit, Unkeyed, NoKey
  <2> QED
    BY <2>1 DEF CopyInit, SignInit, KeysInv, Buffers
<1> QED
  BY <1>1, <1>2, <1>3, DriverStarts DEF SignInv, AuthInv

(* To the handshake, the steps of the others are steps that leave it alone *)
(* or make the MechaCon compute.                                           *)
LEMMA CopyAuthKeeps == AuthInv /\ [CopyNext]_copyVars => AuthInv'
<1> SUFFICES ASSUME AuthInv, [CopyNext]_copyVars PROVE AuthInv'
  OBVIOUS
<1>1. busy \in BOOLEAN
  BY DEF AuthInv, AuthTypeOK
<1>2. CASE [AuthNext]_authVars
  BY <1>2, AuthKeeps
<1>3. CASE secr_set_header \/ SecrDownloadBlock
  <2>1. busy' \in BOOLEAN
    BY <1>1, <1>3 DEF secr_set_header, SecrDownloadBlock, GiveAll, WriteRest, LastPiece
  <2>2. UNCHANGED <<proc, step, at, buf, heard, granted, unreset, pulls>>
    BY <1>3 DEF secr_set_header, SecrDownloadBlock, UnchangedAuth
  <2> QED
    BY <2>1, <2>2, ComputeKeeps
<1>4. CASE UNCHANGED authVars
  BY <1>4, AuthKeeps
<1>5. [AuthNext]_authVars \/ secr_set_header \/ SecrDownloadBlock \/ UNCHANGED authVars
  <2>1. CASE SignStep
    BY <2>1 DEF SignStep, Sign, SignFails, write_HD_start, PollHeader, Polled, Read_BIT,
           NextBlock, PollBlock,
                GetKeys, CopyKeys
  <2>2. CASE ~ SignStep
    BY <2>2 DEF CopyNext, copyVars, CopyStep, StartSigning, SignKELF, EndSigning, DriverAuth,
           DriverServes,
                DriverStep, Hardware, AuthNext
  <2> QED
    BY <2>1, <2>2
<1> QED
  BY <1>2, <1>3, <1>4, <1>5

LEMMA SignKeeps == IInv /\ SignInv /\ [CopyNext]_copyVars => SignInv'
<1> SUFFICES ASSUME IInv, SignInv, [CopyNext]_copyVars PROVE SignInv'
  OBVIOUS
<1>1. AuthInv' /\ DriverInv'
  BY CopyAuthKeeps, DriverKeeps DEF SignInv
<1>2. KeysInv'
  BY <1>1, SigningIsAlone, KeysKeeps DEF SignInv, AuthInv
<1> QED
  BY <1>1, <1>2 DEF SignInv

(* The handshake and the keys, while files are copied.                     *)
THEOREM SigningInvariant ==
  ASSUME ProperLists
  PROVE  CopySpec => []SignInv
<1>1. SignInv /\ IInv /\ [CopyNext]_copyVars => SignInv'
  BY SignKeeps
<1> QED
  BY <1>1, SignStarts, Invariant, SigningFitsIn, PTL DEF CopySpec

(* Card and MechaCon that have come through the handshake were told what   *)
(* the other said in this session, whatever failed before and whenever the *)
(* card was taken out (secrman.c:587-852).                                 *)
THEOREM HandshakeAgrees == CopySpec => []AuthAgreed
<1>1. CopyInit => AuthInv
  BY SignStarts DEF SignInv
<1>2. AuthInv => AuthAgreed
  BY DEF AuthInv
<1> QED
  BY <1>1, <1>2, CopyAuthKeeps, PTL DEF CopySpec

(* A handshake that failed is forgotten by both sides, if they answered to *)
(* their last reset (secrman.c:822-852).                                   *)
THEOREM FailureIsForgotten == CopySpec => []FailureForgets
<1>1. CopyInit => AuthInv
  BY SignStarts DEF SignInv
<1>2. AuthInv => FailureForgets
  BY DEF AuthInv
<1> QED
  BY <1>1, <1>2, CopyAuthKeeps, PTL DEF CopySpec

(* A file that counts as signed has keys that one card encrypted in one    *)
(* session, for any number of times that the card is taken out             *)
(* (secrman.c:1065-1071, system.c:456-458).                                *)
THEOREM KeysAreOfOneCard ==
  ASSUME ProperLists
  PROVE  CopySpec => []SignedForOneCard
<1>1. SignInv => SignedForOneCard
  BY DEF SignInv, KeysInv, OneCard, SignedForOneCard, Half
<1> QED
  BY <1>1, SigningInvariant, PTL

(* The MechaCon gets as many bytes as it was told of, for headers and      *)
(* blocks of any length that it can be told of (secrman.c:874-893,         *)
(* 982-995).                                                               *)
THEOREM MechaConIsFed ==
  ASSUME ShortBlocks
  PROVE  CopySpec => []FedAsTold
<1>1. CopyInit => FedInv
  BY DEF CopyInit, SignInit, FedInv, Stages, FedAsTold
<1>2. FedInv => FedAsTold
  BY DEF FedInv
<1> QED
  BY <1>1, <1>2, FedKeeps, PTL DEF CopySpec

=============================================================================
