---------------------------- MODULE KelfSigning ----------------------------
(***************************************************************************)
(* How a program file (KELF) is signed for the card that it goes to.       *)
(*   system.c    SignKELF, TwinSignKELF                                    *)
(*   libsecr.c, secrsif.c                 SecrDownloadFile, by RPC         *)
(*   irx/source/secrman/src/secrman.c     SecrDownloadHeader, ...Block,    *)
(*     ...GetKbit, ...GetKc, ...GetICVPS2, and MechaAuth.c, keyman.c       *)
(*                                                                         *)
(* The MechaCon is fed the header and the signed blocks of the file, and   *)
(* makes two keys of two halves; the card encrypts each half; then they    *)
(* are put into the file.  The card and the MechaCon must have come        *)
(* through the handshake of CardAuth, and the MechaCon must not have been  *)
(* reset since it took the header; MechaCon and card are external.         *)
(***************************************************************************)
EXTENDS Integers, CardAuth

CONSTANTS
  Kelfs,      \* files: the length of the header, the blocks, with an ICVPS2 or not
  Piece,      \* the MechaCon takes so many bytes at once
  UShort,     \* numbers of 16 bits, and
  UInt        \* of 32 bits, are modulo these

ASSUME PieceAssumption ==
  /\ Piece \in Nat \ {0} /\ UShort \in Nat \ {0} /\ UInt \in Nat \ {0}
  /\ UShort >= 2 * Piece /\ UInt % UShort = 0
ASSUME KelfsAssumption ==
  Kelfs \subseteq [header : 0 .. UShort - 1, icvps2 : BOOLEAN,
                   blocks : Seq([size : 0 .. UInt - 1, signed : BOOLEAN])]

Half    == {"kbit1", "kbit2", "kc1", "kc2"}
NoKey   == -2     \* not one of this card
Raw     == -1     \* made by the MechaCon, not encrypted yet; else the card's session
Buffers == {"own", "ps2"}   \* the file to be written, and the one TwinSignKELF reads

VARIABLES
  stage,          \* what SecrDownloadFile does, "idle" between files
  kelf,         \* the file it is given
  target,       \* and the buffer that is in
  twin,         \* INSTALL_MODE_FLAG_CROSS_PSX
  left,         \* bytes that a loop has to do
  blk,          \* the block, from 1
  keyStep,      \* the next step of KeyScript
  told, fed,    \* MechaCon: how many bytes it was told of, and has got
  download,     \* MechaCon: has taken a header since its reset
  half,         \* kbit and kcontent
  key           \* the keys in each buffer

signVars == <<stage, kelf, target, twin, left, blk, keyStep, told, fed, download, half, key>>

Unkeyed == [h \in Half |-> NoKey]

SignInit ==
  /\ stage = "idle" /\ kelf \in Kelfs /\ target = "own"
  /\ left = 0 /\ blk = 1 /\ keyStep = 1
  /\ told = 0 /\ fed = 0 /\ download = FALSE
  /\ half = Unkeyed /\ key = [b \in Buffers |-> Unkeyed]

Authenticated == \A s \in Side : at[s] = Through(s)

(* A handshake makes the MechaCon forget the header. *)
Remembers == download /\ at'["mecha"] = Through("mecha")

(***************************************************************************)
(* SignKELF and TwinSignKELF begin.  The latter reads a file of its own.   *)
(***************************************************************************)
SignKELF ==
  /\ stage = "idle"
  /\ \E f \in Kelfs : kelf' = f
  /\ target' = IF twin THEN "ps2" ELSE "own"
  /\ key' = [b \in Buffers |-> Unkeyed]
  /\ half' = Unkeyed /\ blk' = 1 /\ keyStep' = 1
  /\ stage' = "header"
  /\ UNCHANGED <<twin, left, told, fed, download, authVars>>

(* Anything fails: the file read by TwinSignKELF, an RPC, a command.       *)
SignFails ==
  /\ stage \notin {"idle", "signed", "failed"}
  /\ stage' = "failed"
  /\ UNCHANGED <<kelf, target, twin, left, blk, keyStep, told, fed, download, half, key, authVars>>

(***************************************************************************)
(* The header, and the table of blocks that the MechaCon finds in it.      *)
(***************************************************************************)
write_HD_start ==
  /\ stage = "header" /\ Authenticated
  /\ told' = kelf.header /\ fed' = 0 /\ left' = kelf.header
  /\ download' = TRUE
  /\ stage' = "write_header"
  /\ UNCHANGED <<kelf, target, twin, blk, keyStep, half, key, authVars>>

(* One pass of the loop of secr_set_header. *)
Chunk_Full == Piece        \* mutant: the last pass writes 16 bytes, too
Chunk == IF left >= Piece THEN Piece ELSE left

(* The MechaCon counts what it gets, as far as it matters. *)
Got(n) == fed' = IF fed + n > told THEN told + 1 ELSE fed + n

(* It computes, once it has got all. *)
GiveAll == busy' = (busy \/ (left' = 0))
UnchangedAuth == UNCHANGED <<proc, step, at, buf, heard, granted, unreset, pulls>>

secr_set_header ==
  /\ stage = "write_header" /\ download
  /\ IF left = 0 THEN stage' = "poll_header" /\ UNCHANGED <<left, fed, busy>>
     ELSE /\ Got(Chunk)
          /\ left' = IF left >= Piece THEN left - Piece ELSE 0
          /\ GiveAll
          /\ UNCHANGED stage
  /\ UnchangedAuth
  /\ UNCHANGED <<kelf, target, twin, blk, keyStep, told, download, half, key>>

(* pol_cal_cmplt: the rest of the loop is Compute of CardAuth. *)
Polled(there) ==
  /\ download /\ ~ busy
  /\ stage' = there
  /\ UNCHANGED <<kelf, target, twin, keyStep, told, fed, download, half, key, authVars>>

PollHeader ==
  /\ stage = "poll_header"
  /\ left' = Piece \div 2 + Piece * Len(kelf.blocks)     \* BitLength
  /\ UNCHANGED blk
  /\ Polled("read_bit")

Read_BIT ==
  /\ stage = "read_bit" /\ download
  /\ IF left = 0 THEN stage' = "block" /\ blk' = 1 /\ UNCHANGED left
     ELSE left' = (IF left >= Piece THEN left - Piece ELSE 0) /\ UNCHANGED <<stage, blk>>
  /\ UNCHANGED <<kelf, target, twin, keyStep, told, fed, download, half, key, authVars>>

(***************************************************************************)
(* The blocks.                                                             *)
(***************************************************************************)
NextBlock ==
  /\ stage = "block"
  /\ IF blk > Len(kelf.blocks) THEN stage' = "keys" /\ keyStep' = 1 /\ UNCHANGED <<blk, left, told, fed>>
     ELSE IF ~ kelf.blocks[blk].signed THEN blk' = blk + 1 /\ UNCHANGED <<stage, keyStep, left, told, fed>>
     ELSE /\ download                                  \* mechacon_set_block_size
          /\ left' = kelf.blocks[blk].size
          /\ told' = left' % UShort /\ fed' = 0
          /\ stage' = "write_block"
          /\ UNCHANGED <<blk, keyStep>>
  /\ UNCHANGED <<kelf, target, twin, download, half, key, authVars>>

(* Less than a piece is left.  The sum does not overflow, so 16 bytes are  *)
(* written, and the subtraction does; the next sum overflows, and          *)
(* write_data refuses the length.                                          *)
LastPiece ==
  /\ left' = (left - Piece) % UInt /\ Got(Piece)
  /\ UNCHANGED <<stage, busy>>

(* Mutant: a length that write_data refuses is not noticed. *)
WriteRest_Unnoticed == left' = (left - Piece) % UInt /\ UNCHANGED <<stage, fed, busy>>

WriteRest ==
  IF left % UShort <= Piece
    THEN left' = 0 /\ Got(left % UShort) /\ busy' = TRUE /\ UNCHANGED stage
    ELSE stage' = "failed" /\ UNCHANGED <<left, fed, busy>>

(* One pass of the loop of func_00000b5c. *)
SecrDownloadBlock ==
  /\ stage = "write_block" /\ download
  /\ IF left = 0 THEN stage' = "poll_block" /\ UNCHANGED <<left, fed, busy>>
     ELSE IF (left + Piece - 1) % UInt < Piece THEN WriteRest
     ELSE IF left < Piece THEN LastPiece
     ELSE left' = left - Piece /\ Got(Piece) /\ GiveAll /\ UNCHANGED stage
  /\ UnchangedAuth
  /\ UNCHANGED <<kelf, target, twin, blk, keyStep, told, download, half, key>>

PollBlock ==
  /\ stage = "poll_block"
  /\ blk' = blk + 1
  /\ UNCHANGED left
  /\ Polled("block")

(***************************************************************************)
(* The keys.                                                               *)
(***************************************************************************)
GetKc_NoEncrypt == <<"96", "97", "kc1">>   \* mutant: one half is not encrypted

GetKbit == <<"94", "95", "kbit1", "kbit2">>
GetKc   == <<"96", "97", "kc1", "kc2">>
ICVPS2  == IF kelf.icvps2 THEN <<"98">> ELSE <<>>

KeyScript == GetKbit \o GetKc \o ICVPS2

MadeBy(c) == CASE c = "94" -> {"kbit1"} [] c = "95" -> {"kbit2"}
               [] c = "96" -> {"kc1"}   [] c = "97" -> {"kc2"} [] OTHER -> {}

(* card_encrypt: 50, 51, 52, 53.  The card keeps its own key of the        *)
(* session, and refuses when it is not authenticated.                      *)
card_encrypt(h) ==
  /\ at["card"] = Through("card")
  /\ half' = [half EXCEPT ![h] = IF half[h] = Raw THEN pulls ELSE NoKey]

KeyCommand(c) ==
  IF c \in Half THEN card_encrypt(c)
  ELSE download /\ half' = [h \in Half |-> IF h \in MadeBy(c) THEN Raw ELSE half[h]]

GetKeys ==
  /\ stage = "keys"
  /\ IF keyStep <= Len(KeyScript)
       THEN KeyCommand(KeyScript[keyStep]) /\ keyStep' = keyStep + 1 /\ UNCHANGED <<stage, key>>
       ELSE /\ key' = [key EXCEPT ![target] = half]     \* store_kbit, store_kc
            /\ stage' = IF twin THEN "twin" ELSE "signed"
            /\ UNCHANGED <<keyStep, half>>
  /\ UNCHANGED <<kelf, target, twin, left, blk, told, fed, download, authVars>>

(* GetKbitAndKc, SetKbitAndKc *)
CopyKeys ==
  /\ stage = "twin"
  /\ key' = [key EXCEPT !["own"] = key["ps2"]]
  /\ stage' = "signed"
  /\ UNCHANGED <<kelf, target, twin, left, blk, keyStep, told, fed, download, half, authVars>>

Sign ==
  \/ write_HD_start \/ secr_set_header \/ PollHeader \/ Read_BIT
  \/ NextBlock \/ SecrDownloadBlock \/ PollBlock \/ GetKeys \/ CopyKeys

Signing == stage \notin {"idle", "signed", "failed"}

(***************************************************************************)
(* Properties.                                                             *)
(***************************************************************************)
SignTypeOK ==
  /\ kelf \in Kelfs /\ target \in Buffers /\ twin \in BOOLEAN
  /\ left \in 0 .. UInt - 1 /\ blk \in 1 .. Len(kelf.blocks) + 1
  /\ keyStep \in 1 .. Len(KeyScript) + 1
  /\ told \in 0 .. UShort - 1 /\ fed \in Nat /\ download \in BOOLEAN
  /\ half \in [Half -> {NoKey, Raw} \cup 0 .. MaxPulls]
  /\ key \in [Buffers -> [Half -> {NoKey, Raw} \cup 0 .. MaxPulls]]

(* A file that counts as signed has four halves of keys that one card      *)
(* encrypted in one session, whichever command failed and whenever the     *)
(* card was taken out (secrman.c:1065-1071, system.c:456-458).             *)
SignedForOneCard ==
  stage = "signed" => key["own"]["kbit1"] >= 0 /\ \A h \in Half : key["own"][h] = key["own"]["kbit1"]

(* The MechaCon is asked to go on only when it has got as many bytes of a  *)
(* header or a block as it was told of (secrman.c:874-893, 982-995).       *)
FedAsTold == stage \in {"poll_header", "poll_block"} => fed = told

(* The signing of a file comes to an end, with or without success: the     *)
(* loops that count down in unsigned numbers, and the polling              *)
(* (secrman.c:981-995, MechaAuth.c:150-158).                               *)
SigningEnds == stage = "header" ~> ~ Signing
=============================================================================
