----------------------------- MODULE Z80Blocks -----------------------------
(***************************************************************************)
(* load_z80's way through a .z80 file.  It reads the file in pieces of     *)
(* szRead's size; versions 2 and 3 of the format have one block for each   *)
(* page of memory, each with a header (the length of its data, the number  *)
(* of its page), and the blocks begin and end anywhere in the pieces.      *)
(*                                                                         *)
(* A byte of the file is its position in it: block_header has positions,   *)
(* addr is the position of the byte it was set from, a call of             *)
(* load_compressed_data_block_z80 (write_buf_mem, for what is not          *)
(* compressed) has the range it was given.  The lengths of the blocks      *)
(* become known when their headers are read.  begin and end, which the     *)
(* code does not have, say where the data of the last block so found are.  *)
(***************************************************************************)
EXTENDS Integers

CONSTANTS
  ChunkSize,               \* sizeof(szRead), 256
  DATA_BLOCK_HEADER_SIZE,  \* 3
  SizeMod,                 \* the number of values of an alt_u16
  MinBlock, MaxBlock,      \* the lengths of a page's data, at least 260
  Offsets,                 \* the values of get_data_offset
  FileSizes                \* the lengths of the files

ASSUME SizesAssumption ==
  /\ ChunkSize \in Nat /\ DATA_BLOCK_HEADER_SIZE \in Nat /\ SizeMod \in Nat
  /\ MinBlock \in Nat /\ MaxBlock \in Nat
  /\ 0 < DATA_BLOCK_HEADER_SIZE /\ 0 < MinBlock
  /\ DATA_BLOCK_HEADER_SIZE <= ChunkSize
  /\ MaxBlock < SizeMod /\ MaxBlock >= 2 * MinBlock + DATA_BLOCK_HEADER_SIZE
\* The block behind a header that a piece has whole does not end in it.
ASSUME MinBlockAssumption == MinBlock + DATA_BLOCK_HEADER_SIZE >= ChunkSize
\* The first piece has all headers before the data.
ASSUME OffsetsAssumption ==
  Offsets \subseteq {n \in Nat : n + DATA_BLOCK_HEADER_SIZE <= ChunkSize}
ASSUME FileSizesAssumption == FileSizes \subseteq Nat

VARIABLES
  is_v1_data_format, nFileSize, offset,    \* the file; offset is where its data begin
  begin, end,                              \* the data of the block in progress
  pc,                                      \* what load_z80 does next
  first_block,
  nTotalReadSize, nReadSize, data_offset,  \* the piece and the position in it
  block_header, block_header_obtained_size, data_block_size,
  addr,                                    \* the position of the page's number
  call                                     \* the last range given to the decoder

file   == <<is_v1_data_format, nFileSize, offset>>
block  == <<begin, end, block_header, block_header_obtained_size, data_block_size, addr>>
piece  == <<nTotalReadSize, nReadSize>>
vars   == <<file, block, piece, pc, first_block, data_offset, call>>

-----------------------------------------------------------------------------
HeaderIndex == 0 .. DATA_BLOCK_HEADER_SIZE - 1
Left        == nReadSize - data_offset
Lesser(a, b) == IF a < b THEN a ELSE b

\* The lengths the block whose data begin at b can have: another one follows
\* it, or the file ends.
Lengths(b) ==
  {n \in MinBlock .. MaxBlock :
     \/ b + n = nFileSize
     \/ b + n + DATA_BLOCK_HEADER_SIZE + MinBlock <= nFileSize}

\* block_header with n bytes, from index from on, of the piece at data_offset.
Header(from, n) ==
  [i \in HeaderIndex |->
     IF i \in from .. from + n - 1 THEN nTotalReadSize + data_offset + i - from
                                   ELSE block_header[i]]

(***************************************************************************)
(* data_block_size and addr are set from a header that is complete.  With  *)
(* the bytes at the end of the block before, it is the next block's.       *)
(***************************************************************************)
UseHeader(header) ==
  /\ addr' = header[DATA_BLOCK_HEADER_SIZE - 1]
  /\ IF header = [i \in HeaderIndex |-> end + i]
     THEN /\ begin' = end + DATA_BLOCK_HEADER_SIZE
          /\ data_block_size' \in Lengths(begin')
          /\ end' = begin' + data_block_size'
     ELSE /\ data_block_size' \in 0 .. SizeMod - 1
          /\ UNCHANGED <<begin, end>>

\* load_compressed_data_block_z80(addr, szRead, data_offset, size).
Call(size) ==
  /\ call' = [from |-> nTotalReadSize + data_offset,
              to   |-> nTotalReadSize + data_offset + size,
              addr |-> addr]
  /\ data_offset' = data_offset + size

Init ==
  /\ is_v1_data_format \in BOOLEAN
  /\ nFileSize \in FileSizes /\ offset \in Offsets
  /\ IF is_v1_data_format
     THEN offset < nFileSize
     ELSE offset + DATA_BLOCK_HEADER_SIZE + MinBlock <= nFileSize
  /\ begin = offset
  /\ end = IF is_v1_data_format THEN nFileSize ELSE offset
  /\ pc = "loop" /\ first_block = TRUE
  /\ nTotalReadSize = 0 /\ nReadSize = 0 /\ data_offset = 0
  /\ block_header = [i \in HeaderIndex |-> 0] /\ block_header_obtained_size = 0
  /\ data_block_size = 0 /\ addr = 0
  /\ call = [from |-> offset, to |-> offset, addr |-> 0]

\* file_read.
ReadChunk ==
  /\ pc = "loop" /\ nTotalReadSize < nFileSize
  /\ nReadSize' = Lesser(ChunkSize, nFileSize - nTotalReadSize)
  /\ data_offset' = 0
  /\ pc' = IF first_block THEN "first block" ELSE "header"
  /\ UNCHANGED <<file, block, nTotalReadSize, first_block, call>>

\* "Failed to read the file": what has been loaded is started all the same.
ReadFails ==
  /\ pc = "loop" /\ nTotalReadSize < nFileSize
  /\ pc' = "failed"
  /\ UNCHANGED <<file, block, piece, first_block, data_offset, call>>

\* is_48k is false.
Refuse ==
  /\ pc = "first block" /\ pc' = "refused"
  /\ UNCHANGED <<file, block, piece, first_block, data_offset, call>>

\* The headers of the file and, in versions 2 and 3, of its first block.
FirstBlockV1 ==
  /\ pc = "first block" /\ is_v1_data_format
  /\ data_offset' = offset
  /\ first_block' = FALSE /\ pc' = "data"
  /\ UNCHANGED <<file, block, piece, call>>

FirstBlock ==
  /\ pc = "first block" /\ ~is_v1_data_format
  /\ block_header' = [i \in HeaderIndex |-> nTotalReadSize + offset + i]
  /\ data_offset' = offset + DATA_BLOCK_HEADER_SIZE
  /\ block_header_obtained_size' = DATA_BLOCK_HEADER_SIZE
  /\ UseHeader(block_header')
  /\ first_block' = FALSE /\ pc' = "data"
  /\ UNCHANGED <<file, piece, call>>

\* Mutant: the whole header is taken again.
ContinueHeader_Again ==
  /\ pc = "header" /\ pc' = "data"
  /\ IF ~is_v1_data_format /\ block_header_obtained_size < DATA_BLOCK_HEADER_SIZE
     THEN /\ block_header' = Header(0, DATA_BLOCK_HEADER_SIZE)
          /\ data_offset' = data_offset + DATA_BLOCK_HEADER_SIZE
          /\ block_header_obtained_size' = DATA_BLOCK_HEADER_SIZE
          /\ UseHeader(block_header')
     ELSE UNCHANGED <<block, data_offset>>
  /\ UNCHANGED <<file, piece, first_block, call>>

\* The rest of a header that the piece before began.
ContinueHeader ==
  /\ pc = "header" /\ pc' = "data"
  /\ IF ~is_v1_data_format /\ block_header_obtained_size < DATA_BLOCK_HEADER_SIZE
     THEN LET missing == DATA_BLOCK_HEADER_SIZE - block_header_obtained_size
          IN  /\ block_header' = Header(block_header_obtained_size, missing)
              /\ data_offset' = data_offset + missing
              /\ block_header_obtained_size' = DATA_BLOCK_HEADER_SIZE
              /\ UseHeader(block_header')
     ELSE UNCHANGED <<block, data_offset>>
  /\ UNCHANGED <<file, piece, first_block, call>>

\* Mutant: the block is taken to fill the piece.
LoadData_WholePiece ==
  /\ pc = "data"
  /\ Call(Left)
  /\ IF is_v1_data_format THEN UNCHANGED data_block_size
                          ELSE data_block_size' = (data_block_size - Left) % SizeMod
  /\ pc' = IF ~is_v1_data_format /\ data_block_size' = 0 THEN "new header" ELSE "next"
  /\ UNCHANGED <<file, piece, begin, end, block_header, block_header_obtained_size,
                 addr, first_block>>

\* The data of the block in progress that the piece has.
LoadData ==
  /\ pc = "data"
  /\ LET read_size == IF is_v1_data_format THEN Left ELSE Lesser(data_block_size, Left)
     IN  /\ Call(read_size)
         /\ IF is_v1_data_format
            THEN UNCHANGED data_block_size
            ELSE data_block_size' = (data_block_size - read_size) % SizeMod
  /\ pc' = IF ~is_v1_data_format /\ data_block_size' = 0 THEN "new header" ELSE "next"
  /\ UNCHANGED <<file, piece, begin, end, block_header, block_header_obtained_size,
                 addr, first_block>>

\* Mutant: header_to_obtain is not cut to what the piece has left.
ToObtain_Whole == DATA_BLOCK_HEADER_SIZE

\* header_to_obtain
ToObtain == Lesser(DATA_BLOCK_HEADER_SIZE, Left)

\* The block ends in the piece: as much of the next header as the piece has.
\* addr is set even from one that is not complete.
NewHeader ==
  /\ pc = "new header"
  /\ block_header' = Header(0, ToObtain)
  /\ block_header_obtained_size' = ToObtain
  /\ data_offset' = data_offset + ToObtain
  /\ IF ToObtain = DATA_BLOCK_HEADER_SIZE
     THEN UseHeader(block_header')
     ELSE /\ addr' = block_header'[DATA_BLOCK_HEADER_SIZE - 1]
          /\ UNCHANGED <<begin, end, data_block_size>>
  /\ pc' = IF ToObtain = DATA_BLOCK_HEADER_SIZE /\ Left > ToObtain THEN "rest" ELSE "next"
  /\ UNCHANGED <<file, piece, first_block, call>>

\* Mutant: the data are not counted.
LoadRest_NotCounted ==
  /\ pc = "rest" /\ pc' = "next"
  /\ Call(Left)
  /\ UNCHANGED <<file, block, piece, first_block>>

\* The data behind the new header, all the piece has left.
LoadRest ==
  /\ pc = "rest" /\ pc' = "next"
  /\ Call(Left)
  /\ data_block_size' = (data_block_size - Left) % SizeMod
  /\ UNCHANGED <<file, piece, begin, end, block_header, block_header_obtained_size,
                 addr, first_block>>

\* The end of the body of the loop.
Advance ==
  /\ pc = "next" /\ pc' = "loop"
  /\ nTotalReadSize' = nTotalReadSize + nReadSize
  /\ UNCHANGED <<file, block, nReadSize, first_block, data_offset, call>>

LeaveLoop ==
  /\ pc = "loop" /\ nTotalReadSize >= nFileSize
  /\ pc' = "loaded"
  /\ UNCHANGED <<file, block, piece, first_block, data_offset, call>>

Next ==
  \/ ReadChunk \/ ReadFails \/ Refuse \/ FirstBlockV1 \/ FirstBlock
  \/ ContinueHeader \/ LoadData \/ NewHeader \/ LoadRest \/ Advance \/ LeaveLoop

Spec == Init /\ [][Next]_vars

-----------------------------------------------------------------------------
(* Types of all variables; a position in a piece is not behind its end. *)
TypeOK ==
  /\ is_v1_data_format \in BOOLEAN /\ nFileSize \in FileSizes /\ offset \in Offsets
  /\ begin \in 0 .. nFileSize /\ end \in 0 .. nFileSize
  /\ pc \in {"loop", "first block", "header", "data", "new header", "rest", "next",
             "loaded", "failed", "refused"}
  /\ first_block \in BOOLEAN
  /\ nTotalReadSize \in 0 .. nFileSize
  /\ nReadSize \in 0 .. ChunkSize /\ data_offset \in 0 .. nReadSize
  /\ block_header \in [HeaderIndex -> 0 .. nFileSize]
  /\ block_header_obtained_size \in 0 .. DATA_BLOCK_HEADER_SIZE
  /\ data_block_size \in 0 .. SizeMod - 1
  /\ addr \in 0 .. nFileSize
  /\ call \in [from : 0 .. nFileSize, to : 0 .. nFileSize, addr : 0 .. nFileSize]

(***************************************************************************)
(* The decoder is given data only, to the address of their page: each      *)
(* range follows the one before, over a header where a block begins, and   *)
(* ends in its block, wherever the pieces of the file are cut.             *)
(***************************************************************************)
DataInOrder ==
  [][call' # call =>
       /\ call'.from = IF call.to < begin THEN begin ELSE call.to
       /\ call'.to <= end
       /\ is_v1_data_format \/ call'.addr = begin - 1]_vars

(***************************************************************************)
(* A page is complete before its successor's header is believed, and a     *)
(* file that has been read has its last page complete.                     *)
(***************************************************************************)
PagesComplete ==
  [][/\ begin' # begin => call.to = end
     /\ pc' = "loaded" /\ pc # "loaded" => call.to = nFileSize /\ end = nFileSize]_vars
=============================================================================
