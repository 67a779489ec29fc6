-------------------------------- MODULE Sota --------------------------------
(***************************************************************************)
(* The over-the-air update (components/ota/sota/sota.c with the flags of   *)
(* components/ota/flag_operate).  The server announces a version, the      *)
(* device asks for its blocks one by one and hands them to the package     *)
(* device (OtaPackage); when the whole is verified the server orders the   *)
(* update, the flags say so to the bootloader, and the device restarts.    *)
(*                                                                         *)
(* Messages may be lost, repeated or late: any message may arrive at any   *)
(* time.  The device may lose power at any step.  The two flags, of the    *)
(* bootloader and of the application, share a page of flash that is read,  *)
(* changed and written as a whole; a power loss may leave that page        *)
(* unwritten, erased, or with only the bootloader's half, which comes      *)
(* first and has a checksum, complete.                                     *)
(*                                                                         *)
(* The download timer is not modelled: tmr_ticks and download_tmr have 8   *)
(* bits, so their difference never exceeds DOWNLOADTIME_LIMIT and          *)
(* sota_timeout_handler changes nothing.                                   *)
(***************************************************************************)
EXTENDS OtaPackage

CONSTANTS
  PieceLen,    \* block_size of the protocol, in cells
  RunMode,     \* g_flash_op.run_mode
  MaxFaults    \* bound: how many writes to flash fail

ASSUME SotaAssumption ==
  /\ PieceLen \in Nat \ {0} /\ MaxFaults \in Nat
  /\ RunMode \in {"APP", "BOOTLOADER"}

VARIABLES
  rec,      \* g_at_update_record
  todo,     \* what the running handler has still to send or to write to the flags
  page,     \* OTA_UPDATE_INFO: the two flags
  dev,      \* g_pack_storage_device
  flash,    \* the area of the downloaded image
  on,       \* sota_init has run since the last restart
  verified, \* history: the last write_software_end found the package good
  faults    \* how many writes to flash have failed

vars == <<rec, todo, page, dev, flash, on, verified, faults>>

Blocks(v) == (PackLen[v] + PieceLen - 1) \div PieceLen

Piece(v, n) == SubSeq(Package(v), n * PieceLen + 1, Min({(n + 1) * PieceLen, PackLen[v]}))

NoRecord == [state |-> "IDLE", ver |-> NoVersion, num |-> 0, len |-> 0]

\* block_tolen is only compared with the length of a package: a bound beyond all of them.
LenCap == Max({PackLen[v] : v \in Version}) + 1

NoFlag == [valid |-> TRUE, state |-> "IDLE", size |-> 0]

Init ==
  /\ rec = NoRecord /\ todo = <<>>
  /\ page = [boot |-> NoFlag, app |-> NoRecord]
  /\ dev = NoDevice /\ flash = Erased
  /\ on = FALSE /\ verified = FALSE /\ faults = 0
-----------------------------------------------------------------------------
(* What a handler does after it has changed the record *)

Send(msg)    == [act |-> "SEND", msg |-> msg]
SetApp(r)    == [act |-> "APP", val |-> r]
SetBoot(f)   == [act |-> "BOOT", val |-> f]
Flag(s, len) == [valid |-> TRUE, state |-> s, size |-> len]

\* flag_write: the half of the page that is not written keeps what it had.
Written(e) ==
  IF e.act = "APP" THEN [page EXCEPT !.app = e.val] ELSE [page EXCEPT !.boot = e.val]

Ready == on /\ todo = <<>>

DoSend ==
  /\ todo # <<>> /\ Head(todo).act = "SEND"
  /\ todo' = Tail(todo)
  /\ UNCHANGED <<rec, page, dev, flash, on, verified, faults>>

DoWrite ==
  /\ todo # <<>> /\ Head(todo).act # "SEND"
  /\ page' = Written(Head(todo))
  /\ todo' = Tail(todo)
  /\ UNCHANGED <<rec, dev, flash, on, verified, faults>>

\* Only active_software looks at the result of flag_write.
DoWriteFails ==
  /\ todo # <<>> /\ Head(todo).act # "SEND" /\ faults < MaxFaults
  /\ faults' = faults + 1
  /\ todo' = IF Head(todo).act = "BOOT" /\ Head(todo).val.state = "NEED_UPGRADE"
             THEN <<Send("EXC_FAILED")>> ELSE Tail(todo)
  /\ UNCHANGED <<rec, page, dev, flash, on, verified>>
-----------------------------------------------------------------------------
(* Messages of the server: sota_process_main *)

GetVer ==
  /\ Ready /\ rec.state = "IDLE"
  /\ todo' = <<Send("VER")>>
  /\ UNCHANGED <<rec, page, dev, flash, on, verified, faults>>

\* The download of a version that was given up goes on where it stopped.  In the bootloader's
\* mode the device restarts to ask for the block.
NotifyNewVer(v) ==
  /\ Ready /\ rec.state = "IDLE"
  /\ rec' = IF rec.ver = v THEN [rec EXCEPT !.state = "DOWNLOADING"]
            ELSE [rec EXCEPT !.state = "DOWNLOADING", !.ver = v, !.num = 0]
  /\ todo' = <<Send("NOTIFIED"), SetApp(rec')>>
             \o IF RunMode = "APP" THEN <<Send("GET_BLOCK")>> ELSE <<>>
  /\ UNCHANGED <<page, dev, flash, on, verified, faults>>

OtherWhenIdle ==
  /\ Ready /\ rec.state = "IDLE"
  /\ todo' = <<Send("REFUSED")>>
  /\ UNCHANGED <<rec, page, dev, flash, on, verified, faults>>

\* Anything but the block that is due ends the download.
WrongWhenDownloading ==
  /\ Ready /\ rec.state = "DOWNLOADING"
  /\ rec' = [rec EXCEPT !.state = "IDLE"]
  /\ todo' = <<Send("BLOCK_FAILED")>>
  /\ UNCHANGED <<page, dev, flash, on, verified, faults>>

BlockNotWritten(w) ==
  /\ dev' = w.d /\ flash' = w.flash
  /\ todo' = <<Send("BLOCK_FAILED")>>
  /\ UNCHANGED <<rec, verified>>

\* The state is DOWNLOADED before write_software_end has verified the package.
BlockWritten(w, len, broken) ==
  LET got == [rec EXCEPT !.num = @ + 1, !.len = Min({@ + len, LenCap})]
      end == WriteSoftwareEnd(w.d, w.flash, got.len, broken)
  IN  IF got.num < Blocks(rec.ver)
      THEN /\ rec' = got /\ dev' = w.d /\ flash' = w.flash
           /\ todo' = <<Send("GET_BLOCK")>>
           /\ UNCHANGED verified
      ELSE /\ rec' = [got EXCEPT !.state = "DOWNLOADED"]
           /\ dev' = end.d /\ flash' = end.flash /\ verified' = end.ok
           /\ todo' = <<Send(IF end.ok THEN "VERIFIED" ELSE "BLOCK_FAILED")>>

\* The block with the number that is due, of version v, which a late answer may make another
\* than the one asked for.  A message does not name the version.
GetBlock(v, broken) ==
  /\ Ready /\ rec.state = "DOWNLOADING" /\ rec.num < Blocks(v)
  /\ broken => faults < MaxFaults
  /\ faults' = IF broken THEN faults + 1 ELSE faults
  /\ LET piece == Piece(v, rec.num)
         w     == WriteSoftware(dev, flash, rec.num * PieceLen, piece, broken)
     IN  IF w.ok THEN BlockWritten(w, Len(piece), broken) ELSE BlockNotWritten(w)
  /\ UNCHANGED <<page, on>>

\* active_software orders the bootloader to install the image.
ActiveSoftware == SetBoot(Flag("NEED_UPGRADE", dev.total))

\* The order to install is obeyed also when the verification has failed: only the state counts.
ExcUpdate ==
  /\ Ready /\ rec.state = "DOWNLOADED"
  /\ rec' = [rec EXCEPT !.state = "UPDATING"]
  /\ todo' = <<Send("EXC_OK"), SetApp(rec'), ActiveSoftware>>
  /\ UNCHANGED <<page, dev, flash, on, verified, faults>>
-----------------------------------------------------------------------------
(* Restarts *)

\* What a power loss makes of the page while e is written.
Torn(e) ==
  LET erased == [NoRecord EXCEPT !.state = "ERASED"]
  IN  {[boot |-> [NoFlag EXCEPT !.valid = FALSE], app |-> erased],
       [boot |-> Written(e).boot, app |-> erased]}

\* The device restarts, by itself after an update was ordered, or because it lost power.
Restart ==
  /\ on
  /\ page' \in {page} \cup (IF todo # <<>> /\ Head(todo).act # "SEND" THEN Torn(Head(todo)) ELSE {})
  /\ on' = FALSE /\ todo' = <<>> /\ rec' = NoRecord /\ dev' = NoDevice
  /\ UNCHANGED <<flash, verified, faults>>

NeedUpgrade == page.boot.valid /\ page.boot.state = "NEED_UPGRADE"

\* External: the bootloader installs the image and says how it went
\* (flag_upgrade_set_result).
Bootloader ==
  /\ ~on /\ NeedUpgrade
  /\ \E s \in {"SUCCEED", "FAILED"} : page' = [page EXCEPT !.boot.state = s]
  /\ UNCHANGED <<rec, todo, dev, flash, on, verified, faults>>

\* flag_upgrade_init replaces a bootloader flag that is not valid.
Repair == IF page.boot.valid THEN <<>> ELSE <<SetBoot(NoFlag)>>

\* flag_upgrade_get_result clears what it reads.
FetchResult == <<SetBoot(Flag("IDLE", page.boot.size))>>

\* Mutant: the record of a download survives a restart of the application.
SotaInit_KeepsRecord ==
  /\ ~on /\ ~NeedUpgrade
  /\ on' = TRUE
  /\ IF page.app.state = "DOWNLOADING"
     THEN rec' = page.app /\ todo' = Repair \o <<Send("GET_BLOCK")>>
     ELSE rec' = NoRecord /\ todo' = Repair \o FetchResult \o <<SetApp(NoRecord)>>
  /\ UNCHANGED <<page, dev, flash, verified, faults>>

\* sota_init: a download goes on only in the bootloader's mode; otherwise a success is
\* reported, once the flag that tells of it is cleared, and the record is cleared.
sota_init ==
  /\ ~on /\ ~NeedUpgrade
  /\ on' = TRUE
  /\ LET success == page.boot.valid /\ page.boot.state = "SUCCEED"
     IN  IF page.app.state = "DOWNLOADING" /\ RunMode = "BOOTLOADER"
         THEN rec' = page.app /\ todo' = Repair \o <<Send("GET_BLOCK")>>
         ELSE /\ rec' = NoRecord
              /\ todo' = Repair \o FetchResult
                         \o (IF success THEN <<Send("UPDATED")>> ELSE <<>>) \o <<SetApp(NoRecord)>>
  /\ UNCHANGED <<page, dev, flash, verified, faults>>
-----------------------------------------------------------------------------
Message ==
  \/ GetVer \/ OtherWhenIdle \/ WrongWhenDownloading \/ ExcUpdate
  \/ \E v \in Version : NotifyNewVer(v) \/ \E broken \in BOOLEAN : GetBlock(v, broken)

Handler == DoSend \/ DoWrite \/ sota_init

Next == Message \/ Handler \/ DoWriteFails \/ Restart \/ Bootloader

Spec == Init /\ [][Next]_vars
-----------------------------------------------------------------------------
(* Properties *)

\* What write_software_end finds good is good when it is installed: when the flags order the
\* bootloader to install a package it verified, the image area holds the whole image of one
\* version and the flags its length, whatever blocks of other versions, failing writes and
\* restarts came before.  (A package found bad is installed too if the server orders it.)
UpgradeIntact ==
  NeedUpgrade /\ verified => \E v \in Version :
    /\ page.boot.size = PackLen[v]
    /\ SubSeq(flash, 1, PackLen[v] - HeadLen) = Image(v)

\* While a package comes in, the cells the checksum has seen are those that are in flash or,
\* of the block being filled, in the buffer, up to the place it has reached: what is verified
\* in the end is what will be installed, also when a short last block of another version has
\* left a gap.
ChecksumCoversFlash ==
  LET stored == IF dev.filling THEN Write(flash, dev.block, dev.buffer) ELSE flash
  IN  rec.num > 0 /\ rec.state \in {"IDLE", "DOWNLOADING"} =>
        /\ Len(dev.digest) = dev.sum
        /\ SubSeq(stored, 1, dev.sum - HeadLen) = SubSeq(dev.digest, HeadLen + 1, dev.sum)

\* A block the device asked for is written, if flash can be written: the package device and
\* the record agree on where the download stands.
RequestedBlockAccepted ==
  [][GetBlock(rec.ver, FALSE) => rec'.num = rec.num + 1]_vars
=============================================================================
