----------------------------- MODULE OtaPackage -----------------------------
(***************************************************************************)
(* The package writer of the update (components/ota/package).  A package   *)
(* is a head, which holds the length and the signature of the whole, and   *)
(* the image.  It arrives in pieces whose offsets are those of the         *)
(* package; the head is kept, the image goes to flash one erase block at a *)
(* time, through a buffer when a piece does not fill a block, and a        *)
(* checksum follows both.                                                  *)
(*                                                                         *)
(* A package is a sequence of cells <<v, n>>: the n-th unit of the package *)
(* of version v.  The head is its first cell.  That the checksum agrees    *)
(* means that the cells it has seen are those of the package.  Allocation  *)
(* does not fail; a write to flash may.                                    *)
(***************************************************************************)
EXTENDS Naturals, Sequences, SequencesExt

CONSTANTS
  Version,
  PackLen,     \* [Version -> Nat]: the cells of a package, its head included
  EraseBlock,  \* flash_block_size, in cells
  NoVersion

HeadLen == 1

ASSUME PackageAssumption ==
  /\ NoVersion \notin Version
  /\ PackLen \in [Version -> Nat \ 0 .. HeadLen]
  /\ EraseBlock \in Nat \ {0}

Cell       == Version \X Nat
Package(v) == [n \in 1 .. PackLen[v] |-> <<v, n - 1>>]
Image(v)   == SubSeq(Package(v), HeadLen + 1, PackLen[v])

ImageRoom == Max({PackLen[v] : v \in Version}) - HeadLen

\* pack_storage_device_s: the head it keeps; the writer's buffer (as long as
\* buffer_stored_len), the offset of its block and offset_flag; the checksum, which has seen
\* the cells of digest and expects the next at sum; device->total_len.
NoDevice ==
  [head |-> NoVersion, buffer |-> <<>>, block |-> 0, filling |-> FALSE,
   digest |-> <<>>, sum |-> 0, total |-> 0]

Erased == [n \in 1 .. ImageRoom |-> <<NoVersion, 0>>]

\* The flash after cells have been written at an offset.
Write(flash, offset, cells) ==
  SubSeq(flash, 1, offset) \o cells \o SubSeq(flash, offset + Len(cells) + 1, Len(flash))
-----------------------------------------------------------------------------
(* The writer: each operator yields the device, the flash and whether it succeeded. *)

Result(d, flash, ok) == [d |-> d, flash |-> flash, ok |-> ok]

\* pack_wr_write_stored_data
WriteStored(d, flash, broken) ==
  IF broken THEN Result(d, flash, FALSE)
  ELSE Result([d EXCEPT !.filling = FALSE], Write(flash, d.block, d.buffer), TRUE)

\* Mutant: the buffer continues at the wrong cell when its block was written before.
BeginNotAligned_Empty(d, flash, offset, cells, broken) ==
  LET begin  == EraseBlock * (offset \div EraseBlock)
      before == IF d.filling THEN d.buffer ELSE <<>>
      filled == [d EXCEPT !.buffer = before \o cells, !.filling = TRUE, !.block = begin]
  IN  IF Len(filled.buffer) < EraseBlock THEN Result(filled, flash, TRUE)
      ELSE WriteStored(filled, flash, broken)

\* pack_wr_begin_not_aligned, for cells that do not pass the end of their block: they join
\* the buffer if it holds what precedes them, else that is read back from flash.
BeginNotAligned(d, flash, offset, cells, broken) ==
  LET begin  == EraseBlock * (offset \div EraseBlock)
      before == IF d.filling THEN d.buffer ELSE SubSeq(flash, begin + 1, offset)
      filled == [d EXCEPT !.buffer = before \o cells, !.filling = TRUE, !.block = begin]
  IN  IF Len(filled.buffer) < EraseBlock THEN Result(filled, flash, TRUE)
      ELSE WriteStored(filled, flash, broken)

\* pack_wr_entire_blocks, then pack_wr_end_not_aligned_block: what does not fill a block is
\* buffered.
EntireBlocks(d, flash, offset, cells, broken) ==
  LET whole == EraseBlock * (Len(cells) \div EraseBlock)
      rest  == SubSeq(cells, whole + 1, Len(cells))
  IN  IF whole > 0 /\ broken THEN Result(d, flash, FALSE)
      ELSE Result(IF rest = <<>> THEN d
                  ELSE [d EXCEPT !.buffer = rest, !.filling = TRUE, !.block = offset + whole],
                  Write(flash, offset, SubSeq(cells, 1, whole)), TRUE)

\* pack_wr_write
PackWrite(d, flash, offset, cells, broken) ==
  LET moved == d.filling /\ d.buffer # <<>> /\ d.block + Len(d.buffer) # offset
      a     == IF moved THEN WriteStored(d, flash, broken) ELSE Result(d, flash, TRUE)
      into  == (EraseBlock - (offset % EraseBlock)) % EraseBlock
      now   == Min({into, Len(cells)})
      b     == IF ~a.ok \/ now = 0 THEN a
               ELSE BeginNotAligned(a.d, a.flash, offset, SubSeq(cells, 1, now), broken)
  IN  IF ~b.ok \/ now = Len(cells) THEN b
      ELSE EntireBlocks(b.d, b.flash, offset + now, SubSeq(cells, now + 1, Len(cells)), broken)
-----------------------------------------------------------------------------
(* The storage device *)

\* pack_checksum_update_data: a piece that does not continue the last one makes it start
\* over, with the head and what is in flash.
ChecksumUpdate(d, flash, offset, cells) ==
  LET before == IF d.sum = offset \/ offset = HeadLen THEN d.digest
                ELSE <<<<d.head, 0>>>> \o SubSeq(flash, 1, offset)
  IN  [d EXCEPT !.digest = before \o cells, !.sum = offset + Len(cells)]

\* pack_storage_write_software.  The piece at offset 0 brings the head, with which the
\* checksum starts; no other piece is accepted before.
WriteSoftware(d, flash, offset, cells, broken) ==
  LET headed == IF offset = 0
                THEN [d EXCEPT !.head = Head(cells)[1], !.digest = <<Head(cells)>>, !.sum = 0]
                ELSE d
      used   == IF offset = 0 THEN HeadLen ELSE 0
      data   == SubSeq(cells, used + 1, Len(cells))
      from   == offset + used
      w      == PackWrite(headed, flash, from - HeadLen, data, broken)
  IN  IF headed.head = NoVersion THEN Result(d, flash, FALSE)
      ELSE IF data = <<>> THEN Result(headed, flash, TRUE)
      ELSE IF ~w.ok THEN w
      ELSE Result(ChecksumUpdate(w.d, w.flash, from, data), w.flash, TRUE)

\* pack_head_check
HeadCheck(d, len) ==
  /\ d.head # NoVersion /\ len = PackLen[d.head]
  /\ d.digest = Package(d.head)

\* Mutant: the block being filled is not written.
WriteSoftwareEnd_NoFlush(d, flash, len, broken) ==
  Result([NoDevice EXCEPT !.total = len], flash, HeadCheck(d, len))

\* pack_storage_write_software_end: what it kept of the download is dropped, whether the
\* package is good or not.
WriteSoftwareEnd(d, flash, len, broken) ==
  LET w == IF d.buffer = <<>> THEN Result(d, flash, TRUE) ELSE WriteStored(d, flash, broken)
  IN  Result([NoDevice EXCEPT !.total = len], w.flash, w.ok /\ HeadCheck(w.d, len))
=============================================================================
