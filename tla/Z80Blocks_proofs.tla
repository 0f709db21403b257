-------------------------- MODULE Z80Blocks_proofs --------------------------
(***************************************************************************)
(* load_z80 finds every page of a well-formed file, whatever the sizes:    *)
(* proofs about Z80Blocks.                                                 *)
(***************************************************************************)
EXTENDS Z80Blocks, TLAPS

H == DATA_BLOCK_HEADER_SIZE

Position == nTotalReadSize + data_offset

(* What load_z80 knows at position p of a file with blocks: it is in the   *)
(* data of a block, and data_block_size of them are left ...               *)
InBlock(p) ==
  /\ block_header_obtained_size = H
  /\ begin <= p /\ p + data_block_size = end /\ begin + MinBlock <= end
  /\ addr = begin - 1
  /\ call.to = p \/ (p = begin /\ call.to < begin)

(* ... or behind the first bytes of the next block's header, and has them. *)
InHeader(p) ==
  /\ block_header_obtained_size < H
  /\ p = end + block_header_obtained_size
  /\ \A i \in 0 .. block_header_obtained_size - 1 : block_header[i] = end + i
  /\ call.to = end

Known(p) ==
  /\ p <= nFileSize
  /\ IF is_v1_data_format THEN begin <= p /\ call.to = p
                          ELSE InBlock(p) \/ InHeader(p)

Start ==
  /\ nTotalReadSize = 0 /\ begin = offset /\ call.to = offset
  /\ ~is_v1_data_format => end = offset

(* The blocks are well-formed up to the one in progress. *)
FileInv ==
  /\ begin <= end /\ end <= nFileSize /\ 0 < nFileSize
  /\ IF is_v1_data_format
     THEN end = nFileSize /\ begin = offset /\ offset < nFileSize
     ELSE /\ offset + H + MinBlock <= nFileSize
          /\ end = nFileSize \/ end + H + MinBlock <= nFileSize

PieceInv ==
  pc \in {"first block", "header", "data", "new header", "rest", "next"} =>
    /\ nTotalReadSize < nFileSize
    /\ nReadSize = Lesser(ChunkSize, nFileSize - nTotalReadSize)
    /\ pc # "first block" => ~first_block

StepInv ==
  /\ pc = "loop" => IF first_block THEN Start ELSE Known(nTotalReadSize)
  /\ pc = "first block" => Start /\ data_offset = 0
  /\ pc = "header" => data_offset = 0 /\ Known(nTotalReadSize)
  /\ pc = "data" => /\ Known(Position)
                    /\ is_v1_data_format \/ InBlock(Position)
  /\ pc = "new header" => /\ ~is_v1_data_format /\ InBlock(Position)
                          /\ data_block_size = 0 /\ call.to = Position
  /\ pc = "rest" => ~is_v1_data_format /\ InBlock(Position) /\ Left <= data_block_size
  /\ pc = "next" => Known(Position) /\ data_offset = nReadSize

Inv == TypeOK /\ FileInv /\ PieceInv /\ StepInv

(* The bodies of DataInOrder and PagesComplete. *)
OrderStep ==
  call' # call =>
    /\ call'.from = IF call.to < begin THEN begin ELSE call.to
    /\ call'.to <= end
    /\ is_v1_data_format \/ call'.addr = begin - 1

CompleteStep ==
  /\ begin' # begin => call.to = end
  /\ pc' = "loaded" /\ pc # "loaded" => call.to = nFileSize /\ end = nFileSize

-----------------------------------------------------------------------------
(* The counter of an alt_u16 that does not underflow is the difference.    *)
LEMMA SmallMod ==
  ASSUME NEW m \in Nat, NEW a \in 0 .. m - 1
  PROVE  a % m = a
OBVIOUS

(* The constants as numbers. *)
LEMMA Constants ==
  /\ ChunkSize \in Nat /\ H \in Nat /\ SizeMod \in Nat /\ MinBlock \in Nat /\ MaxBlock \in Nat
  /\ 0 < H /\ 0 < MinBlock /\ H <= ChunkSize /\ MaxBlock < SizeMod
  /\ MinBlock + H >= ChunkSize
BY SizesAssumption, MinBlockAssumption DEF H

(* The lengths of files and the offsets of their data as numbers. *)
LEMMA FileConstants ==
  /\ \A n \in Offsets : n \in Nat /\ n + H <= ChunkSize
  /\ \A n \in FileSizes : n \in Nat
BY OffsetsAssumption, FileSizesAssumption DEF H

(* The lesser of two numbers. *)
LEMMA LesserFacts ==
  ASSUME NEW a \in Nat, NEW b \in Nat
  PROVE  /\ Lesser(a, b) \in Nat /\ Lesser(a, b) <= a /\ Lesser(a, b) <= b
         /\ Lesser(a, b) = a \/ Lesser(a, b) = b
         /\ Lesser(a, b) \in 0 .. a /\ 0 \in 0 .. Lesser(a, b)
BY DEF Lesser

(* The variables as numbers. *)
LEMMA Numbers ==
  ASSUME TypeOK
  PROVE  /\ nFileSize \in Nat /\ begin \in Nat /\ end \in Nat
         /\ nTotalReadSize \in Nat /\ nReadSize \in Nat /\ data_offset \in Nat
         /\ offset \in Nat /\ offset + H <= ChunkSize
         /\ data_block_size \in Nat /\ block_header_obtained_size \in Nat
         /\ addr \in Nat /\ call.to \in Nat
         /\ data_offset <= nReadSize /\ nReadSize <= ChunkSize
         /\ block_header_obtained_size <= H /\ data_block_size <= SizeMod - 1
<1>1. nFileSize \in FileSizes /\ offset \in Offsets
  BY DEF TypeOK
<1>2. nFileSize \in Nat /\ offset \in Nat /\ offset + H <= ChunkSize
  BY <1>1, FileConstants
<1>3. /\ begin \in 0 .. nFileSize /\ end \in 0 .. nFileSize
      /\ nTotalReadSize \in 0 .. nFileSize /\ nReadSize \in 0 .. ChunkSize
      /\ data_offset \in 0 .. nReadSize /\ block_header_obtained_size \in 0 .. H
      /\ data_block_size \in 0 .. SizeMod - 1 /\ addr \in 0 .. nFileSize
  BY DEF TypeOK, H
<1>4. call.to \in 0 .. nFileSize
  BY DEF TypeOK
<1> QED
  BY <1>2, <1>3, <1>4, Constants

(* A complete header gives the block that follows end its place.           *)
LEMMA HeaderUsed ==
  ASSUME TypeOK, end < nFileSize,
         NEW header, header = [i \in HeaderIndex |-> end + i],
         UseHeader(header)
  PROVE  \E n \in MinBlock .. MaxBlock :
           /\ begin' = end + H /\ end' = end + H + n
           /\ data_block_size' = n /\ addr' = end + (H - 1)
           /\ \/ end + H + n = nFileSize
              \/ end + H + n + H + MinBlock <= nFileSize
<1>1. begin' = end + H /\ end' = begin' + data_block_size'
  BY DEF UseHeader, H
<1>2. data_block_size' \in {n \in MinBlock .. MaxBlock :
        end + H + n = nFileSize \/ end + H + n + H + MinBlock <= nFileSize}
  BY DEF UseHeader, Lengths, H
<1>3. H - 1 \in HeaderIndex
  BY Constants DEF HeaderIndex, H
<1>4. addr' = end + (H - 1)
  BY <1>3 DEF UseHeader, H
<1> QED
  BY <1>1, <1>2, <1>4

(* Invariance holds initially.                                             *)
LEMMA InitInv == Init => Inv
<1> SUFFICES ASSUME Init PROVE Inv
  OBVIOUS
<1>1. nFileSize \in Nat /\ offset \in Nat
  BY FileConstants DEF Init
<1>2. TypeOK
  BY <1>1, Constants DEF Init, TypeOK, H
<1>3. FileInv
  BY <1>1, Constants DEF Init, FileInv, H
<1>4. PieceInv /\ StepInv
  BY <1>1 DEF Init, PieceInv, StepInv, Start
<1> QED
  BY <1>2, <1>3, <1>4 DEF Inv

(* ... and brings load_z80 to its first byte.                              *)
LEMMA HeaderTaken ==
  ASSUME TypeOK, FileInv, ~is_v1_data_format, end < nFileSize, call.to = end,
         block_header' = [i \in HeaderIndex |-> end + i], UseHeader(block_header'),
         block_header_obtained_size' = H, UNCHANGED <<file, call>>
  PROVE  /\ begin' \in 0 .. nFileSize /\ end' \in 0 .. nFileSize
         /\ block_header' \in [HeaderIndex -> 0 .. nFileSize]
         /\ block_header_obtained_size' \in 0 .. H
         /\ data_block_size' \in 0 .. SizeMod - 1
         /\ addr' \in 0 .. nFileSize
         /\ FileInv' /\ MinBlock <= data_block_size'
         /\ \A p : p = end + H => InBlock(p)'
<1>1. PICK n \in MinBlock .. MaxBlock :
           /\ begin' = end + H /\ end' = end + H + n
           /\ data_block_size' = n /\ addr' = end + (H - 1)
           /\ \/ end + H + n = nFileSize
              \/ end + H + n + H + MinBlock <= nFileSize
  BY HeaderUsed
<1>2. nFileSize \in Nat /\ end \in Nat /\ begin \in Nat /\ n \in Nat
  BY <1>1, Numbers, Constants
<1>3. end + H + MinBlock <= nFileSize
  BY <1>2 DEF FileInv
<1>4. MinBlock <= n /\ n \in 0 .. SizeMod - 1
  BY <1>1, <1>2, Constants
<1>5. block_header' \in [HeaderIndex -> 0 .. nFileSize]
  <2>1. \A i \in HeaderIndex : end + i \in 0 .. nFileSize
    BY <1>2, <1>3, Constants DEF HeaderIndex, H
  <2> QED
    BY <2>1
<1>6. end + H + n <= nFileSize
  BY <1>1, <1>2, Constants
<1>7. /\ end + H \in 0 .. nFileSize /\ end + H + n \in 0 .. nFileSize
      /\ end + (H - 1) \in 0 .. nFileSize
  BY <1>2, <1>4, <1>6, Constants
<1>8. FileInv'
  BY <1>1, <1>2, <1>6, Constants DEF FileInv, file
<1>9. ASSUME NEW p, p = end + H PROVE InBlock(p)'
  BY <1>1, <1>2, <1>4, <1>9, Constants DEF InBlock
<1>10. H \in 0 .. H
  BY Constants
<1> QED
  BY <1>1, <1>4, <1>5, <1>7, <1>8, <1>9, <1>10

-----------------------------------------------------------------------------
(* The step of each action keeps the invariant.                            *)
LEMMA ReadChunkStep == Inv /\ ReadChunk => Inv' /\ OrderStep /\ CompleteStep
<1> SUFFICES ASSUME Inv, ReadChunk PROVE Inv' /\ OrderStep /\ CompleteStep
  OBVIOUS
<1> DEFINE size == Lesser(ChunkSize, nFileSize - nTotalReadSize)
<1>1. size \in 0 .. ChunkSize /\ 0 \in 0 .. size
  <2>1. nTotalReadSize \in Nat /\ nFileSize \in Nat
    BY Numbers DEF Inv
  <2>2. nTotalReadSize < nFileSize
    BY DEF ReadChunk
  <2>3. nFileSize - nTotalReadSize \in Nat
    BY <2>1, <2>2
  <2> QED
    BY <2>3, Constants, LesserFacts
<1>2. nReadSize' = size /\ data_offset' = 0 /\ pc' \in {"first block", "header"}
  BY DEF ReadChunk
<1> HIDE DEF size
<1>3. TypeOK'
  <2>1. TypeOK /\ UNCHANGED <<file, block, nTotalReadSize, first_block, call>>
    BY DEF Inv, ReadChunk
  <2>2. nReadSize' \in 0 .. ChunkSize /\ data_offset' \in 0 .. nReadSize'
    BY <1>1, <1>2, Zenon
  <2> QED
    BY <2>1, <2>2, <1>2 DEF TypeOK, file, block
<1>4. FileInv'
  BY DEF Inv, FileInv, ReadChunk, file, block
<1>5. PieceInv'
  BY <1>2 DEF Inv, PieceInv, ReadChunk, file, size
<1>6. StepInv'
  BY <1>2 DEF Inv, StepInv, Start, Known, InBlock, InHeader, ReadChunk, file, block
<1>7. OrderStep /\ CompleteStep
  BY DEF OrderStep, CompleteStep, ReadChunk, block
<1> QED
  BY <1>3, <1>4, <1>5, <1>6, <1>7 DEF Inv

(* Steps that change pc only. *)
LEMMA EndSteps ==
  Inv /\ (ReadFails \/ Refuse \/ LeaveLoop) => Inv' /\ OrderStep /\ CompleteStep
<1> SUFFICES ASSUME Inv, ReadFails \/ Refuse \/ LeaveLoop
             PROVE  Inv' /\ OrderStep /\ CompleteStep
  OBVIOUS
<1> USE DEF ReadFails, Refuse, LeaveLoop, file, block, piece
<1>1. TypeOK'
  BY DEF Inv, TypeOK
<1>2. FileInv'
  <2>1. UNCHANGED <<file, block>>
    OBVIOUS
  <2> QED
    BY <2>1, Zenon DEF Inv, FileInv
<1>6. PieceInv' /\ StepInv'
  <2>1. pc' \in {"failed", "refused", "loaded"}
    OBVIOUS
  <2> QED
    BY <2>1 DEF PieceInv, StepInv
<1>3. OrderStep
  BY DEF OrderStep
<1>4. LeaveLoop => call.to = nFileSize /\ end = nFileSize
  BY Numbers, Constants DEF Inv, TypeOK, FileInv, StepInv, Start, Known, InBlock, InHeader
<1>5. CompleteStep
  BY <1>4 DEF CompleteStep
<1> QED
  BY <1>1, <1>2, <1>6, <1>3, <1>5 DEF Inv

(* The piece has been used up; the next one begins where it ended. *)
LEMMA AdvanceStep == Inv /\ Advance => Inv' /\ OrderStep /\ CompleteStep
<1> SUFFICES ASSUME Inv, Advance PROVE Inv' /\ OrderStep /\ CompleteStep
  OBVIOUS
<1> USE DEF Advance, file, block
<1>1. TypeOK'
  BY Numbers, Constants DEF Inv, TypeOK, PieceInv, Lesser
<1>2. FileInv' /\ PieceInv'
  BY DEF Inv, FileInv, PieceInv
<1>3. StepInv'
  BY Numbers DEF Inv, PieceInv, StepInv, Position, Known, InBlock, InHeader
<1>4. OrderStep /\ CompleteStep
  BY DEF OrderStep, CompleteStep
<1> QED
  BY <1>1, <1>2, <1>3, <1>4 DEF Inv

(* Version 1: all the rest of the file are data. *)
LEMMA FirstBlockV1Step == Inv /\ FirstBlockV1 => Inv' /\ OrderStep /\ CompleteStep
<1> SUFFICES ASSUME Inv, FirstBlockV1 PROVE Inv' /\ OrderStep /\ CompleteStep
  OBVIOUS
<1>1. /\ data_offset' = offset /\ first_block' = FALSE /\ pc' = "data"
      /\ UNCHANGED <<file, block, piece, call>>
  BY DEF FirstBlockV1
<1>2. /\ nTotalReadSize = 0 /\ begin = offset /\ call.to = offset
      /\ is_v1_data_format /\ offset < nFileSize
      /\ nReadSize = Lesser(ChunkSize, nFileSize - nTotalReadSize)
  BY DEF FirstBlockV1, Inv, StepInv, Start, FileInv, PieceInv
<1>3. offset \in 0 .. nReadSize
  <2>1. nFileSize \in Nat /\ offset \in Nat /\ offset + H <= ChunkSize
    BY Numbers DEF Inv
  <2> QED
    BY <2>1, <1>2, Constants DEF Lesser
<1>4. TypeOK'
  <2>1. TypeOK
    BY DEF Inv
  <2>2. data_offset' \in 0 .. nReadSize'
    BY <1>1, <1>3, Zenon DEF piece
  <2> QED
    BY <2>1, <2>2, <1>1 DEF TypeOK, file, block, piece
<1>5. FileInv'
  BY <1>1, Zenon DEF Inv, FileInv, file, block
<1>8. PieceInv'
  BY <1>1 DEF Inv, PieceInv, file, piece, FirstBlockV1
<1>6. StepInv'
  <2>1. nFileSize \in Nat /\ offset \in Nat
    BY Numbers DEF Inv
  <2> QED
    BY <2>1, <1>1, <1>2 DEF StepInv, Known, Position, file, block, piece
<1>7. OrderStep /\ CompleteStep
  BY <1>1 DEF OrderStep, CompleteStep, block
<1> QED
  BY <1>4, <1>5, <1>8, <1>6, <1>7 DEF Inv

(* Versions 2 and 3: the header of the first block is in the first piece. *)
LEMMA FirstBlockStep == Inv /\ FirstBlock => Inv' /\ OrderStep /\ CompleteStep
<1> SUFFICES ASSUME Inv, FirstBlock PROVE Inv' /\ OrderStep /\ CompleteStep
  OBVIOUS
<1>1. /\ data_offset' = offset + H /\ first_block' = FALSE /\ pc' = "data"
      /\ block_header' = [i \in HeaderIndex |-> nTotalReadSize + offset + i]
      /\ block_header_obtained_size' = H /\ UseHeader(block_header')
      /\ UNCHANGED <<file, piece, call>>
  BY DEF FirstBlock, H
<1>2. /\ nTotalReadSize = 0 /\ begin = offset /\ call.to = offset /\ end = offset
      /\ ~is_v1_data_format /\ offset + H + MinBlock <= nFileSize
      /\ nReadSize = Lesser(ChunkSize, nFileSize - nTotalReadSize)
  BY DEF FirstBlock, Inv, StepInv, Start, FileInv, PieceInv
<1>3. nFileSize \in Nat /\ offset \in Nat /\ offset + H <= ChunkSize
  BY Numbers DEF Inv
<1>4. block_header' = [i \in HeaderIndex |-> end + i]
  BY <1>1, <1>2, <1>3
<1>5. end < nFileSize
  BY <1>2, <1>3, Constants
<1>6. /\ begin' \in 0 .. nFileSize /\ end' \in 0 .. nFileSize
      /\ block_header' \in [HeaderIndex -> 0 .. nFileSize]
      /\ block_header_obtained_size' \in 0 .. H
      /\ data_block_size' \in 0 .. SizeMod - 1
      /\ addr' \in 0 .. nFileSize
      /\ FileInv'
      /\ \A p : p = end + H => InBlock(p)'
  BY <1>1, <1>2, <1>4, <1>5, HeaderTaken DEF Inv
<1>7. offset + H \in 0 .. nReadSize /\ offset + H <= nFileSize
  BY <1>2, <1>3, Constants DEF Lesser
<1>8. TypeOK'
  <2>1. TypeOK
    BY DEF Inv
  <2>2. data_offset' \in 0 .. nReadSize'
    BY <1>1, <1>7, Zenon DEF piece
  <2> QED
    BY <2>1, <2>2, <1>1, <1>6 DEF TypeOK, file, piece, H
<1>9. PieceInv'
  BY <1>1 DEF Inv, PieceInv, file, piece, FirstBlock
<1>10. StepInv'
  <2>1. Position' = end + H /\ Position' <= nFileSize
    BY <1>1, <1>2, <1>3, <1>7, Constants DEF Position, piece
  <2>2. InBlock(Position)'
    BY <1>6, <2>1
  <2>3. Known(Position)'
    BY <1>1, <1>2, <2>1, <2>2 DEF Known, file
  <2> QED
    BY <2>2, <2>3, <1>1 DEF StepInv
<1>11. OrderStep /\ CompleteStep
  BY <1>1, <1>2 DEF OrderStep, CompleteStep
<1> QED
  BY <1>6, <1>8, <1>9, <1>10, <1>11 DEF Inv

(* What a piece has left is in the file. *)
LEMMA LeftFacts ==
  ASSUME TypeOK, nTotalReadSize < nFileSize,
         nReadSize = Lesser(ChunkSize, nFileSize - nTotalReadSize)
  PROVE  /\ Left \in Nat /\ Left <= ChunkSize - data_offset
         /\ Position \in Nat /\ Position + Left <= nFileSize
         /\ nReadSize = data_offset + Left
<1>1. /\ nTotalReadSize \in Nat /\ nFileSize \in Nat /\ nReadSize \in Nat
      /\ data_offset \in Nat /\ data_offset <= nReadSize
  BY Numbers
<1>2. nFileSize - nTotalReadSize \in Nat
  BY <1>1
<1>3. nReadSize <= ChunkSize /\ nReadSize <= nFileSize - nTotalReadSize
  BY <1>2, Constants, LesserFacts
<1> QED
  BY <1>1, <1>3, Constants DEF Left, Position

(* The bytes kept from the piece before and the first of this one are one header. *)
LEMMA ContinueHeaderStep == Inv /\ ContinueHeader => Inv' /\ OrderStep /\ CompleteStep
<1> SUFFICES ASSUME Inv, ContinueHeader PROVE Inv' /\ OrderStep /\ CompleteStep
  OBVIOUS
<1>1. /\ pc = "header" /\ pc' = "data"
      /\ UNCHANGED <<file, piece, first_block, call>>
  BY DEF ContinueHeader
<1>2. data_offset = 0 /\ Known(nTotalReadSize) /\ nTotalReadSize < nFileSize
  BY <1>1 DEF Inv, StepInv, PieceInv
<1>3. /\ nFileSize \in Nat /\ end \in Nat /\ nTotalReadSize \in Nat
      /\ block_header_obtained_size \in Nat /\ block_header_obtained_size <= H
  BY Numbers DEF Inv
<1>4. TypeOK /\ FileInv
  BY DEF Inv
<1>5. PieceInv'
  BY <1>1 DEF Inv, PieceInv, file, piece
<1>6. OrderStep
  BY <1>1 DEF OrderStep
<1>7. CASE is_v1_data_format \/ block_header_obtained_size = H
  <2>1. UNCHANGED <<block, data_offset>>
    BY <1>3, <1>7, Constants DEF ContinueHeader, H
  <2>2. TypeOK'
    BY <2>1, <1>1, <1>4 DEF TypeOK, file, block, piece
  <2>3. FileInv'
    BY <2>1, <1>1, <1>4, Zenon DEF FileInv, file, block
  <2>4. Position = nTotalReadSize
    BY <1>2, <1>3 DEF Position
  <2>5. Known(Position) /\ (is_v1_data_format \/ InBlock(Position))
    BY <2>4, <1>2, <1>3, <1>7, Constants DEF Known, InHeader
  <2>6. Known(Position)' /\ (is_v1_data_format' \/ InBlock(Position)')
    BY <2>5, <2>1, <1>1 DEF Known, InBlock, InHeader, Position, file, block, piece
  <2>7. StepInv'
    BY <2>6, <1>1 DEF StepInv
  <2>8. CompleteStep
    BY <2>1, <1>1 DEF CompleteStep, block
  <2> QED
    BY <2>2, <2>3, <2>7, <2>8, <1>5, <1>6 DEF Inv
<1>8. CASE ~is_v1_data_format /\ block_header_obtained_size < H
  <2> DEFINE missing == H - block_header_obtained_size
  <2>1. /\ block_header' = Header(block_header_obtained_size, missing)
        /\ data_offset' = data_offset + missing
        /\ block_header_obtained_size' = H /\ UseHeader(block_header')
    BY <1>8 DEF ContinueHeader, H
  <2>2. InHeader(nTotalReadSize)
    BY <1>2, <1>3, <1>8, Constants DEF Known, InBlock
  <2>3. nTotalReadSize = end + block_header_obtained_size /\ call.to = end
    BY <2>2 DEF InHeader
  <2>4. end < nFileSize /\ end + H + MinBlock <= nFileSize
    BY <2>3, <1>2, <1>3, <1>4, <1>8, Constants DEF FileInv
  <2>5. block_header' = [i \in HeaderIndex |-> end + i]
    <3>1. \A i \in HeaderIndex : i \in Nat /\ i < H
      BY Constants DEF HeaderIndex, H
    <3>2. ASSUME NEW i \in HeaderIndex
          PROVE  (IF i \in block_header_obtained_size .. block_header_obtained_size + missing - 1
                  THEN nTotalReadSize + data_offset + i - block_header_obtained_size
                  ELSE block_header[i]) = end + i
      BY <3>1, <2>2, <2>3, <1>2, <1>3, Constants DEF InHeader
    <3> QED
      BY <2>1, <3>2 DEF Header
  <2>6. /\ begin' \in 0 .. nFileSize /\ end' \in 0 .. nFileSize
        /\ block_header' \in [HeaderIndex -> 0 .. nFileSize]
        /\ block_header_obtained_size' \in 0 .. H
        /\ data_block_size' \in 0 .. SizeMod - 1
        /\ addr' \in 0 .. nFileSize
        /\ FileInv'
        /\ \A p : p = end + H => InBlock(p)'
    BY <1>1, <1>4, <1>8, <2>1, <2>3, <2>4, <2>5, HeaderTaken
  <2>7. nTotalReadSize + missing = end + H /\ end + H <= nFileSize
    BY <2>3, <2>4, <1>3, Constants
  <2>8. data_offset + missing \in 0 .. nReadSize
    <3>1. /\ nReadSize = Lesser(ChunkSize, nFileSize - nTotalReadSize)
      BY <1>1 DEF Inv, PieceInv
    <3> QED
      BY <3>1, <2>3, <2>4, <1>2, <1>3, <1>8, Constants DEF Lesser
  <2>9. TypeOK'
    <3>1. data_offset' \in 0 .. nReadSize'
      BY <2>1, <2>8, <1>1, Zenon DEF piece
    <3> QED
      BY <3>1, <2>6, <1>1, <1>4 DEF TypeOK, file, piece, H
  <2>10. StepInv'
    <3>1. Position' = end + H /\ Position' <= nFileSize
      BY <2>1, <2>7, <1>1, <1>2, <1>3, Constants DEF Position, piece
    <3>2. InBlock(Position)'
      BY <3>1, <2>6
    <3>3. Known(Position)'
      BY <3>1, <3>2, <1>1, <1>8 DEF Known, file
    <3> QED
      BY <3>2, <3>3, <1>1 DEF StepInv
  <2>11. CompleteStep
    BY <2>3, <1>1 DEF CompleteStep
  <2> QED
    BY <2>6, <2>9, <2>10, <2>11, <1>5, <1>6 DEF Inv
<1> QED
  BY <1>3, <1>7, <1>8, Constants

(* A call of the decoder with r bytes of the block in progress.            *)
LEMMA RangeLoaded ==
  ASSUME TypeOK, FileInv, ~is_v1_data_format, InBlock(Position),
         NEW r \in Nat, r <= data_block_size, Position + r <= nFileSize,
         Call(r), data_block_size' = (data_block_size - r) % SizeMod,
         UNCHANGED <<file, nTotalReadSize, begin, end, block_header_obtained_size, addr>>
  PROVE  /\ OrderStep
         /\ data_block_size' = data_block_size - r
         /\ data_block_size - r \in 0 .. SizeMod - 1
         /\ InBlock(Position)' /\ Known(Position)'
         /\ call' \in [from : 0 .. nFileSize, to : 0 .. nFileSize, addr : 0 .. nFileSize]
         /\ call'.to = Position' /\ data_offset' = data_offset + r
<1>1. /\ call' = [from |-> Position, to |-> Position + r, addr |-> addr]
      /\ data_offset' = data_offset + r
  BY Numbers DEF Call, Position
<1>2. /\ nTotalReadSize \in Nat /\ data_offset \in Nat /\ nFileSize \in Nat
      /\ begin \in Nat /\ end \in Nat /\ data_block_size \in Nat /\ Position \in Nat
  BY Numbers DEF Position
<1>3. data_block_size - r \in 0 .. SizeMod - 1
  BY Numbers, Constants
<1>4. data_block_size' = data_block_size - r
  BY <1>3, SmallMod, Constants
<1>5. Position' = Position + r
  BY <1>1, <1>2 DEF Position
<1>6. call'.from = Position /\ call'.to = Position + r /\ call'.addr = addr
  BY <1>1
<1>7. InBlock(Position)'
  BY <1>2, <1>4, <1>5, <1>6 DEF InBlock
<1>8. Known(Position)'
  BY <1>5, <1>7 DEF Known, file
<1>9. OrderStep
  BY <1>2, <1>6 DEF OrderStep, InBlock
<1>10. call' \in [from : 0 .. nFileSize, to : 0 .. nFileSize, addr : 0 .. nFileSize]
  <2>1. Position \in 0 .. nFileSize /\ Position + r \in 0 .. nFileSize
    BY <1>2
  <2> QED
    BY <2>1, <1>1 DEF TypeOK
<1> QED
  BY <1>1, <1>3, <1>4, <1>5, <1>6, <1>7, <1>8, <1>9, <1>10

(* The decoder gets what the piece has of the block in progress. *)
LEMMA LoadDataStep == Inv /\ LoadData => Inv' /\ OrderStep /\ CompleteStep
<1> SUFFICES ASSUME Inv, LoadData PROVE Inv' /\ OrderStep /\ CompleteStep
  OBVIOUS
<1> DEFINE r == IF is_v1_data_format THEN Left ELSE Lesser(data_block_size, Left)
<1>1. /\ pc = "data" /\ Call(r)
      /\ pc' = IF ~is_v1_data_format /\ data_block_size' = 0 THEN "new header" ELSE "next"
      /\ UNCHANGED <<file, piece, begin, end, block_header, block_header_obtained_size,
                     addr, first_block>>
  BY DEF LoadData
<1>2. is_v1_data_format => UNCHANGED data_block_size
  BY DEF LoadData
<1>3. ~is_v1_data_format => data_block_size' = (data_block_size - r) % SizeMod
  BY DEF LoadData
<1>4. /\ nTotalReadSize < nFileSize
      /\ nReadSize = Lesser(ChunkSize, nFileSize - nTotalReadSize)
      /\ Known(Position) /\ (is_v1_data_format \/ InBlock(Position))
  BY <1>1 DEF Inv, PieceInv, StepInv
<1>5. TypeOK /\ FileInv
  BY DEF Inv
<1>6. /\ Left \in Nat /\ Position \in Nat /\ Position + Left <= nFileSize
      /\ nReadSize = data_offset + Left /\ data_offset \in Nat
      /\ data_block_size \in Nat /\ nFileSize \in Nat /\ begin \in Nat
  BY <1>4, <1>5, LeftFacts, Numbers
<1>7. r \in Nat /\ r <= Left
  BY <1>6, LesserFacts
<1>8. data_offset + r \in 0 .. nReadSize /\ Position + r <= nFileSize
  BY <1>6, <1>7
<1>9. PieceInv'
  BY <1>1 DEF Inv, PieceInv, file, piece
<1>10. FileInv'
  BY <1>1, <1>5, Zenon DEF FileInv, file
<1>11. CompleteStep
  BY <1>1 DEF CompleteStep
<1> HIDE DEF r
<1>12. CASE is_v1_data_format
  <2>1. call' = [from |-> Position, to |-> Position + r, addr |-> addr]
        /\ data_offset' = data_offset + r
    BY <1>1 DEF Call, Position
  <2>2. begin <= Position /\ call.to = Position /\ end = nFileSize
    BY <1>4, <1>5, <1>12 DEF Known, FileInv
  <2>3. r = Left
    BY <1>12 DEF r
  <2>4. Position \in 0 .. nFileSize /\ Position + r \in 0 .. nFileSize
    BY <1>6, <1>7, <1>8
  <2>5. call' \in [from : 0 .. nFileSize, to : 0 .. nFileSize, addr : 0 .. nFileSize]
    BY <2>1, <2>4, <1>5 DEF TypeOK
  <2>6. data_offset' \in 0 .. nReadSize'
    BY <2>1, <1>1, <1>8, Zenon DEF piece
  <2>7. TypeOK'
    BY <2>5, <2>6, <1>1, <1>2, <1>5, <1>12 DEF TypeOK, file, piece
  <2>8. OrderStep
    BY <2>1, <2>2, <1>6, <1>7, <1>8, <1>12 DEF OrderStep
  <2>9. Position' = Position + r
    <3>1. nTotalReadSize \in Nat
      BY <1>5, Numbers
    <3>2. nTotalReadSize' = nTotalReadSize
      BY <1>1 DEF piece
    <3> QED
      BY <3>1, <3>2, <2>1, <1>6, <1>7 DEF Position
  <2>10. call'.to = Position + r /\ data_offset' = nReadSize
    BY <2>1, <2>3, <1>6
  <2>11. Known(Position)'
    BY <2>2, <2>9, <2>10, <1>1, <1>6, <1>7, <1>8, <1>12 DEF Known, file
  <2>12. StepInv'
    BY <2>10, <2>11, <1>1, <1>12 DEF StepInv, file, piece
  <2> QED
    BY <2>7, <2>8, <2>12, <1>9, <1>10, <1>11 DEF Inv
<1>13. CASE ~is_v1_data_format
  <2>1. r = Lesser(data_block_size, Left)
    BY <1>13 DEF r
  <2>2. r <= data_block_size /\ (r = data_block_size \/ r = Left)
    BY <2>1, <1>6, LesserFacts
  <2>3. UNCHANGED <<file, nTotalReadSize, begin, end, block_header_obtained_size, addr>>
    BY <1>1 DEF piece
  <2>4. /\ OrderStep
        /\ data_block_size' = data_block_size - r
        /\ data_block_size - r \in 0 .. SizeMod - 1
        /\ InBlock(Position)' /\ Known(Position)'
        /\ call' \in [from : 0 .. nFileSize, to : 0 .. nFileSize, addr : 0 .. nFileSize]
        /\ call'.to = Position' /\ data_offset' = data_offset + r
    BY <2>2, <2>3, <1>1, <1>3, <1>4, <1>5, <1>7, <1>8, <1>13, RangeLoaded
  <2>5. data_offset' \in 0 .. nReadSize' /\ data_block_size' \in 0 .. SizeMod - 1
    BY <2>4, <1>1, <1>8, Zenon DEF piece
  <2>6. TypeOK'
    BY <2>4, <2>5, <1>1, <1>5, <1>13 DEF TypeOK, file, piece
  <2>7. data_block_size - r = 0 \/ data_offset + r = nReadSize
    BY <2>2, <1>6, <1>7
  <2>8. StepInv'
    BY <2>4, <2>7, <1>1, <1>13 DEF StepInv, file, piece
  <2> QED
    BY <2>4, <2>6, <2>8, <1>9, <1>10, <1>11 DEF Inv
<1> QED
  BY <1>12, <1>13

(* The decoder gets the rest of the piece, which is in the new block. *)
LEMMA LoadRestStep == Inv /\ LoadRest => Inv' /\ OrderStep /\ CompleteStep
<1> SUFFICES ASSUME Inv, LoadRest PROVE Inv' /\ OrderStep /\ CompleteStep
  OBVIOUS
<1>1. /\ pc = "rest" /\ pc' = "next" /\ Call(Left)
      /\ data_block_size' = (data_block_size - Left) % SizeMod
      /\ UNCHANGED <<file, piece, begin, end, block_header, block_header_obtained_size,
                     addr, first_block>>
  BY DEF LoadRest
<1>2. /\ nTotalReadSize < nFileSize
      /\ nReadSize = Lesser(ChunkSize, nFileSize - nTotalReadSize)
      /\ ~is_v1_data_format /\ InBlock(Position) /\ Left <= data_block_size
  BY <1>1 DEF Inv, PieceInv, StepInv
<1>3. TypeOK /\ FileInv
  BY DEF Inv
<1>4. /\ Left \in Nat /\ Position + Left <= nFileSize
      /\ nReadSize = data_offset + Left /\ nReadSize \in Nat
  BY <1>2, <1>3, LeftFacts, Numbers
<1>5. UNCHANGED <<file, nTotalReadSize, begin, end, block_header_obtained_size, addr>>
  BY <1>1 DEF piece
<1>6. /\ OrderStep
      /\ data_block_size' = data_block_size - Left
      /\ data_block_size - Left \in 0 .. SizeMod - 1
      /\ InBlock(Position)' /\ Known(Position)'
      /\ call' \in [from : 0 .. nFileSize, to : 0 .. nFileSize, addr : 0 .. nFileSize]
      /\ call'.to = Position' /\ data_offset' = data_offset + Left
  BY <1>1, <1>2, <1>3, <1>4, <1>5, RangeLoaded
<1>7. data_offset' = nReadSize /\ nReadSize \in 0 .. nReadSize
  BY <1>4, <1>6
<1>8. data_offset' \in 0 .. nReadSize' /\ data_block_size' \in 0 .. SizeMod - 1
  BY <1>1, <1>6, <1>7, Zenon DEF piece
<1>9. TypeOK'
  BY <1>1, <1>3, <1>6, <1>8 DEF TypeOK, file, piece
<1>10. FileInv'
  BY <1>1, <1>3, Zenon DEF FileInv, file
<1>11. PieceInv'
  BY <1>1 DEF Inv, PieceInv, file, piece
<1>12. StepInv'
  BY <1>1, <1>6, <1>7 DEF StepInv, piece
<1>13. CompleteStep
  BY <1>1 DEF CompleteStep
<1> QED
  BY <1>6, <1>9, <1>10, <1>11, <1>12, <1>13 DEF Inv

(* The block is complete: all of the next header, or what the piece has of it. *)
LEMMA NewHeaderStep == Inv /\ NewHeader => Inv' /\ OrderStep /\ CompleteStep
<1> SUFFICES ASSUME Inv, NewHeader PROVE Inv' /\ OrderStep /\ CompleteStep
  OBVIOUS
<1>1. /\ pc = "new header"
      /\ block_header' = Header(0, ToObtain)
      /\ block_header_obtained_size' = ToObtain
      /\ data_offset' = data_offset + ToObtain
      /\ pc' = IF ToObtain = H /\ Left > ToObtain THEN "rest" ELSE "next"
      /\ UNCHANGED <<file, piece, first_block, call>>
  BY DEF NewHeader, H
<1>2. /\ nTotalReadSize < nFileSize
      /\ nReadSize = Lesser(ChunkSize, nFileSize - nTotalReadSize)
      /\ ~is_v1_data_format /\ InBlock(Position)
      /\ data_block_size = 0 /\ call.to = Position
  BY <1>1 DEF Inv, PieceInv, StepInv
<1>3. TypeOK /\ FileInv
  BY DEF Inv
<1>4. /\ Left \in Nat /\ Position + Left <= nFileSize
      /\ nReadSize = data_offset + Left /\ data_offset \in Nat
      /\ Left <= ChunkSize - data_offset
      /\ end \in Nat /\ nFileSize \in Nat /\ Position \in Nat /\ nTotalReadSize \in Nat
  BY <1>2, <1>3, LeftFacts, Numbers
<1>5. Position = end /\ call.to = end /\ nTotalReadSize + data_offset = end
  BY <1>2, <1>4 DEF InBlock, Position
<1>6. ToObtain \in Nat /\ ToObtain <= H /\ ToObtain <= Left /\ (ToObtain = H \/ ToObtain = Left)
  BY <1>4, Constants, LesserFacts DEF ToObtain, H
<1>7. PieceInv'
  BY <1>1 DEF Inv, PieceInv, file, piece
<1>8. OrderStep
  BY <1>1 DEF OrderStep
<1>9. CompleteStep
  BY <1>1, <1>5 DEF CompleteStep
<1>10. data_offset' \in 0 .. nReadSize'
  <2>1. data_offset + ToObtain \in 0 .. nReadSize
    BY <1>4, <1>6
  <2> QED
    BY <2>1, <1>1, Zenon DEF piece
<1>11. Position' = end + ToObtain
  <2>1. /\ nTotalReadSize' = nTotalReadSize
        /\ data_offset' = data_offset + ToObtain
    BY <1>1 DEF piece
  <2> QED
    BY <2>1, <1>4, <1>5, <1>6 DEF Position
<1>12. \A i \in HeaderIndex : i \in Nat /\ i < H
  BY Constants DEF HeaderIndex, H
<1>13. \A i \in HeaderIndex : i < ToObtain =>
         /\ i \in 0 .. 0 + ToObtain - 1
         /\ nTotalReadSize + data_offset + i - 0 = end + i
  BY <1>4, <1>5, <1>6, <1>12
<1>14. \A i \in HeaderIndex : ~(i < ToObtain) => i \notin 0 .. 0 + ToObtain - 1
  BY <1>6, <1>12
<1>15. \A i \in HeaderIndex :
         block_header'[i] = IF i < ToObtain THEN end + i ELSE block_header[i]
  BY <1>1, <1>13, <1>14 DEF Header
<1>16. CASE ToObtain = H
  <2>1. UseHeader(block_header') /\ block_header_obtained_size' = H
    BY <1>1, <1>16 DEF NewHeader, H
  <2>2. block_header' = [i \in HeaderIndex |-> end + i]
    BY <1>1, <1>12, <1>13, <1>16 DEF Header
  <2>3. end < nFileSize /\ end + H <= nFileSize
    BY <1>4, <1>5, <1>6, <1>16, Constants
  <2>4. /\ begin' \in 0 .. nFileSize /\ end' \in 0 .. nFileSize
        /\ block_header' \in [HeaderIndex -> 0 .. nFileSize]
        /\ block_header_obtained_size' \in 0 .. H
        /\ data_block_size' \in 0 .. SizeMod - 1
        /\ addr' \in 0 .. nFileSize
        /\ FileInv' /\ MinBlock <= data_block_size'
        /\ \A p : p = end + H => InBlock(p)'
    BY <1>1, <1>2, <1>3, <1>5, <2>1, <2>2, <2>3, HeaderTaken
  <2>5. TypeOK'
    BY <2>4, <1>1, <1>3, <1>10 DEF TypeOK, file, piece, H
  <2>6. InBlock(Position)' /\ Position' <= nFileSize
    BY <2>3, <2>4, <1>11, <1>16
  <2>7. Known(Position)'
    BY <2>6, <1>1, <1>2 DEF Known, file
  <2>8. Left' <= MinBlock
    <3>1. Left' = nReadSize - (data_offset + ToObtain)
      BY <1>1 DEF Left, piece
    <3>2. nReadSize - (data_offset + ToObtain) <= MinBlock
      BY <1>4, <1>16, Constants
    <3> QED
      BY <3>1, <3>2
  <2>9. Left' <= data_block_size'
    <3>1. PICK n \in 0 .. SizeMod - 1 : data_block_size' = n /\ MinBlock <= n
      BY <2>4
    <3>2. PICK l \in Int : Left' = l /\ l <= MinBlock
      <4>1. Left' = nReadSize - (data_offset + ToObtain)
        BY <1>1 DEF Left, piece
      <4> QED
        BY <4>1, <2>8, <1>4, <1>6
    <3> QED
      BY <3>1, <3>2, Constants
  <2>10. pc' = "next" => data_offset' = nReadSize'
    <3>1. pc' = "next" => ~(Left > ToObtain)
      BY <1>1, <1>16
    <3>2. ~(Left > ToObtain) => data_offset + ToObtain = nReadSize
      BY <1>4, <1>6
    <3> QED
      BY <3>1, <3>2, <1>1 DEF piece
  <2>11. StepInv'
    BY <2>6, <2>7, <2>9, <2>10, <1>1, <1>2 DEF StepInv, file
  <2> QED
    BY <2>4, <2>5, <2>11, <1>7, <1>8, <1>9 DEF Inv
<1>17. CASE ToObtain # H
  <2>1. ToObtain = Left /\ ToObtain < H
    BY <1>6, <1>17, Constants
  <2>2. pc' = "next" /\ UNCHANGED <<begin, end, data_block_size>>
        /\ addr' = block_header'[H - 1]
    BY <1>1, <1>17 DEF NewHeader, H
  <2>3. block_header' \in [HeaderIndex -> 0 .. nFileSize]
    <3>1. \A i \in HeaderIndex : i < ToObtain => end + i \in 0 .. nFileSize
      BY <1>4, <1>5, <1>6, <1>12
    <3>2. \A i \in HeaderIndex : block_header[i] \in 0 .. nFileSize
      BY <1>3 DEF TypeOK
    <3>3. \A i \in HeaderIndex : block_header'[i] \in 0 .. nFileSize
      BY <3>1, <3>2, <1>15
    <3>4. block_header' = [i \in HeaderIndex |-> block_header'[i]]
      BY <1>1 DEF Header
    <3> QED
      BY <3>3, <3>4
  <2>4. H - 1 \in HeaderIndex
    BY Constants DEF HeaderIndex, H
  <2>5. addr' \in 0 .. nFileSize
    BY <2>2, <2>3, <2>4
  <2>6. ToObtain \in 0 .. H
    BY <1>6, Constants
  <2>7. TypeOK'
    BY <2>2, <2>3, <2>5, <2>6, <1>1, <1>3, <1>10 DEF TypeOK, file, piece, H
  <2>8. FileInv'
    BY <2>2, <1>1, <1>3, Zenon DEF FileInv, file
  <2>9. \A i \in 0 .. ToObtain - 1 : i \in HeaderIndex /\ i < ToObtain
    BY <1>6, <2>1, Constants DEF HeaderIndex, H
  <2>10. \A i \in 0 .. ToObtain - 1 : block_header'[i] = end + i
    BY <2>9, <1>15
  <2>11. InHeader(Position)'
    BY <2>1, <2>2, <2>10, <1>1, <1>5, <1>11 DEF InHeader
  <2>12. Position' <= nFileSize /\ data_offset' = nReadSize'
    BY <2>1, <1>1, <1>4, <1>5, <1>11 DEF piece
  <2>13. Known(Position)'
    BY <2>11, <2>12, <1>1, <1>2 DEF Known, file
  <2>14. StepInv'
    BY <2>2, <2>12, <2>13 DEF StepInv
  <2> QED
    BY <2>7, <2>8, <2>14, <1>7, <1>8, <1>9 DEF Inv
<1> QED
  BY <1>16, <1>17

-----------------------------------------------------------------------------
(* Every step of the specification. *)
LEMMA Step == Inv /\ [Next]_vars => Inv' /\ [OrderStep]_vars /\ [CompleteStep]_vars
<1>1. Inv /\ Next => Inv' /\ OrderStep /\ CompleteStep
  BY ReadChunkStep, EndSteps, FirstBlockV1Step, FirstBlockStep, ContinueHeaderStep,
     LoadDataStep, NewHeaderStep, LoadRestStep, AdvanceStep DEF Next
<1>2. Inv /\ UNCHANGED vars => Inv'
  <2> SUFFICES ASSUME Inv, UNCHANGED vars PROVE Inv'
    OBVIOUS
  <2> USE DEF vars, file, block, piece
  <2>1. TypeOK'
    BY DEF Inv, TypeOK
  <2>2. FileInv'
    BY Zenon DEF Inv, FileInv
  <2>3. PieceInv'
    BY DEF Inv, PieceInv
  <2>4. StepInv'
    BY DEF Inv, StepInv, Start, Known, InBlock, InHeader, Position, Left
  <2> QED
    BY <2>1, <2>2, <2>3, <2>4 DEF Inv
<1> QED
  BY <1>1, <1>2

(***************************************************************************)
(* load_z80 knows where it is: whatever the sizes of the pieces, of the    *)
(* headers and of the blocks, what it keeps from piece to piece is the     *)
(* place in the block, or in the header, that the file has there.          *)
(***************************************************************************)
THEOREM BlocksInvariant == Spec => []Inv
<1>1. Init => Inv
  BY InitInv
<1>2. Inv /\ [Next]_vars => Inv'
  BY Step
<1> QED
  BY <1>1, <1>2, PTL DEF Spec

(* Types of all variables of load_z80; no counter leaves its bounds. *)
THEOREM TypeCorrect == Spec => []TypeOK
<1>1. Inv => TypeOK
  BY DEF Inv
<1> QED
  BY <1>1, BlocksInvariant, PTL

(***************************************************************************)
(* load_compressed_data_block_z80 gets every range of data in order, with  *)
(* the address of its page, whatever the sizes.                            *)
(***************************************************************************)
THEOREM InOrder == Spec => DataInOrder
<1>1. Inv /\ [Next]_vars => [OrderStep]_vars
  BY Step
<1> QED
  BY <1>1, BlocksInvariant, PTL DEF Spec, DataInOrder, OrderStep

(***************************************************************************)
(* load_z80 believes a header only when the page before it is complete,    *)
(* and leaves its loop with the last page complete.                        *)
(***************************************************************************)
THEOREM Complete == Spec => PagesComplete
<1>1. Inv /\ [Next]_vars => [CompleteStep]_vars
  BY Step
<1> QED
  BY <1>1, BlocksInvariant, PTL DEF Spec, PagesComplete, CompleteStep
=============================================================================
