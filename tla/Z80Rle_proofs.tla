--------------------------- MODULE Z80Rle_proofs ---------------------------
(***************************************************************************)
(* Proofs about the decoder of compressed files, for bytes of any size,    *)
(* and for any number of files, pages and bytes in them.  The invariant    *)
(* follows the tokens through the decoder: what is written, what it holds  *)
(* back and what is left of the token are together the page's data.        *)
(***************************************************************************)
EXTENDS Z80Rle, SequenceTheorems, TLAPS

LEMMA Bytes ==
  MaxByte \in Nat /\ ED \in Byte /\ ED # 0 /\ 0 \in Byte
<1> QED
  BY ByteAssumption DEF Byte

-----------------------------------------------------------------------------
(* Sequences of bytes. *)

LEMMA Short ==
  ASSUME NEW a \in Byte, NEW b \in Byte, NEW c \in Byte, NEW d \in Byte
  PROVE  /\ <<>> \in Seq(Byte) /\ <<a>> \in Seq(Byte) /\ <<a, b>> \in Seq(Byte)
         /\ <<a, b, c>> \in Seq(Byte) /\ <<a, b, c, d>> \in Seq(Byte)
<1> QED
  OBVIOUS

LEMMA Taken ==
  ASSUME NEW a, NEW b, NEW c, NEW d
  PROVE  /\ Head(<<a>>) = a /\ Tail(<<a>>) = <<>> /\ <<a>> # <<>>
         /\ Head(<<a, b>>) = a /\ Tail(<<a, b>>) = <<b>> /\ <<a, b>> # <<>>
         /\ Head(<<a, b, c>>) = a /\ Tail(<<a, b, c>>) = <<b, c>> /\ <<a, b, c>> # <<>>
         /\ Head(<<a, b, c, d>>) = a /\ Tail(<<a, b, c, d>>) = <<b, c, d>>
         /\ <<a, b, c, d>> # <<>>
<1> QED
  OBVIOUS

LEMMA RepeatIsSeq ==
  ASSUME NEW b \in Byte, NEW n \in Nat
  PROVE  Repeat(b, n) \in Seq(Byte) /\ Len(Repeat(b, n)) = n
<1>1. Repeat(b, n) \in [1 .. n -> Byte]
  BY DEF Repeat
<1>2. Repeat(b, n) \in Seq(Byte)
  BY <1>1, SeqDef
<1> QED
  BY <1>1, <1>2

LEMMA PairIsConcat ==
  ASSUME NEW a \in Byte, NEW b \in Byte
  PROVE  <<a, b>> = <<a>> \o <<b>>
<1>1. <<a>> \in Seq(Byte)
  BY Short
<1>2. <<b>> \in Seq(Byte) /\ <<a, b>> \in Seq(Byte)
  BY Short
<1>3. /\ <<a>> \o <<b>> \in Seq(Byte) /\ Len(<<a>> \o <<b>>) = 2
      /\ (<<a>> \o <<b>>)[1] = a /\ (<<a>> \o <<b>>)[2] = b
  BY <1>1, <1>2, ConcatProperties
<1>4. Len(<<a, b>>) = 2 /\ <<a, b>>[1] = a /\ <<a, b>>[2] = b
  OBVIOUS
<1>5. \A i \in 1 .. 2 : <<a, b>>[i] = (<<a>> \o <<b>>)[i]
  <2> SUFFICES ASSUME NEW i \in 1 .. 2 PROVE <<a, b>>[i] = (<<a>> \o <<b>>)[i]
    OBVIOUS
  <2>1. i = 1 \/ i = 2
    OBVIOUS
  <2> QED
    BY <2>1, <1>3, <1>4
<1> QED
  BY <1>2, <1>3, <1>4, <1>5, SeqEqual

LEMMA ZeroIsSeq == Zero \in Seq(Byte) /\ Held \in Seq(Byte)
<1>1. Zero \in Seq(Byte)
  BY Bytes, Short DEF Zero
<1>2. <<ED>> \in Seq(Byte) /\ <<0>> \in Seq(Byte) /\ <<>> \in Seq(Byte)
  BY Bytes, Short
<1>3. Zero \o <<ED>> \in Seq(Byte)
  BY <1>1, <1>2, ConcatProperties
<1> QED
  BY <1>1, <1>2, <1>3 DEF Held

-----------------------------------------------------------------------------
(* The invariant. *)

(* Between two tokens: what the state says of a zero held back. *)
Between ==
  /\ state \in {"NONE", "ZERO", "ED1"}
  /\ state = "NONE" => ~zero_detected
  /\ state = "ZERO" => zero_detected

(* The tokens of the data, as they are taken from the queue. *)
Idle == /\ queue = <<>> /\ Between
        /\ after_ed <=> state = "ED1"
        /\ out \o Held = data

Lit(b) == /\ queue = <<b>> /\ Between
          /\ after_ed <=> b = ED
          /\ state = "ED1" => b # ED
          /\ (out \o Held) \o <<b>> = data

Run4(n, b) == /\ queue = <<ED, ED, n, b>> /\ Between /\ state # "ED1"
              /\ (out \o Held) \o Repeat(b, n) = data

Run3(n, b) == /\ queue = <<ED, n, b>> /\ state = "ED1"
              /\ (out \o Zero) \o Repeat(b, n) = data

Run2(n, b) == /\ queue = <<n, b>> /\ state = "ED2"
              /\ (out \o Zero) \o Repeat(b, n) = data

Run1(b) == /\ queue = <<b>> /\ state = "XX" /\ ~zero_detected
           /\ out \o Repeat(b, xx) = data

InData == \/ Idle
          \/ \E b \in Byte : Lit(b)
          \/ /\ ~after_ed
             /\ \E n \in Nat \ {0}, b \in Byte : \/ Run4(n, b) \/ Run3(n, b) \/ Run2(n, b)
                                               \/ Run1(b)

(* The end tag.  Complete is what EndTagFound says of the bytes written. *)
Complete ==
  \/ out = data
  \/ data # <<>> /\ Last(data) \in {0, ED} /\ out = Append(data, 0)

InTag == \/ queue = <<0, ED, ED, 0>> /\ Between /\ out \o Held = data
         \/ /\ queue = <<ED, ED, 0>>
            /\ \/ state = "ZERO" /\ out = data
               \/ state = "NONE" /\ Complete
         \/ queue = <<ED, 0>> /\ state = "ED1" /\ Complete
         \/ queue = <<0>> /\ state = "ED2" /\ Complete
         \/ queue = <<>> /\ state = "NONE" /\ Complete

Typed == TypeOK /\ page >= 1

IInv ==
  /\ Typed
  /\ fresh /\ phase = "data" => InData
  /\ fresh /\ phase = "tagged" => InTag
  /\ phase = "done" => queue = <<>>

LEMMA InitInv == Init => IInv
<1> SUFFICES ASSUME Init PROVE IInv
  OBVIOUS
<1>1. /\ state = "NONE" /\ xx = 0 /\ zero_detected = FALSE /\ out = <<>>
      /\ data = <<>> /\ queue = <<>> /\ after_ed = FALSE /\ phase = "data"
      /\ version \in {1, 2} /\ file = 1 /\ page = 1 /\ fresh = TRUE
  BY VersionAssumption DEF Init
<1>2. Typed
  <2>1. <<>> \in Seq(Byte)
    BY Bytes, Short
  <2>2. zero_detected \in BOOLEAN /\ after_ed \in BOOLEAN /\ fresh \in BOOLEAN
    BY <1>1
  <2>3. out \in Seq(Byte) /\ data \in Seq(Byte) /\ queue \in Seq(Byte) /\ xx \in Byte
    BY <1>1, <2>1, Bytes
  <2>4. page \in Nat /\ file \in Nat /\ page >= 1
    BY <1>1
  <2> QED
    BY <1>1, <2>2, <2>3, <2>4 DEF Typed, TypeOK
<1>3. out \o Held = data
  BY <1>1 DEF Held
<1> QED
  BY <1>1, <1>2, <1>3 DEF IInv, InData, Idle, Between

-----------------------------------------------------------------------------
(* What the decoder does with a byte, by its state. *)

LEMMA HeldIs ==
  /\ state \in {"NONE", "ED2", "XX"} => Held = <<>>
  /\ state = "ZERO" => Held = <<0>>
  /\ state = "ED1" => Held = Zero \o <<ED>>
  /\ zero_detected => Zero = <<0>>
  /\ ~zero_detected => Zero = <<>>
<1> QED
  BY DEF Held, Zero

LEMMA Decoded ==
  ASSUME Decode, NEW b, Head(queue) = b
  PROVE  /\ queue' = Tail(queue)
         /\ UNCHANGED <<data, after_ed, phase, version, file, page, fresh>>
         /\ state = "NONE" =>
              /\ state' = IF b = ED THEN "ED1" ELSE IF b = 0 THEN "ZERO" ELSE "NONE"
              /\ zero_detected' = (b = 0 \/ zero_detected)
              /\ out' = out \o (IF b \in {0, ED} THEN <<>> ELSE <<b>>) /\ xx' = xx
         /\ state = "ZERO" /\ b = ED =>
              state' = "ED1" /\ zero_detected' = zero_detected /\ out' = out /\ xx' = xx
         /\ state = "ZERO" /\ b # ED =>
              /\ state' = "NONE" /\ zero_detected' = FALSE /\ out' = out \o <<0, b>>
              /\ xx' = xx
         /\ state = "ED1" /\ b = ED =>
              state' = "ED2" /\ zero_detected' = zero_detected /\ out' = out /\ xx' = xx
         /\ state = "ED1" /\ b # ED =>
              /\ state' = "NONE" /\ zero_detected' = FALSE
              /\ out' = out \o (Zero \o <<ED, b>>) /\ xx' = xx
         /\ state = "ED2" /\ b = 0 =>
              state' = "NONE" /\ zero_detected' = zero_detected /\ out' = out /\ xx' = b
         /\ state = "ED2" /\ b # 0 =>
              state' = "XX" /\ zero_detected' = FALSE /\ out' = out \o Zero /\ xx' = b
         /\ state = "XX" =>
              /\ state' = "NONE" /\ zero_detected' = zero_detected
              /\ out' = out \o Repeat(b, xx) /\ xx' = xx
<1>1. /\ queue' = Tail(queue)
      /\ UNCHANGED <<data, after_ed, phase, version, file, page, fresh>>
      /\ \/ DecodeNone(b) \/ DecodeZero(b) \/ DecodeEd1(b) \/ DecodeEd2(b) \/ DecodeXx(b)
  BY DEF Decode
<1>2. CASE state = "NONE"
  BY <1>1, <1>2 DEF DecodeNone, DecodeZero, DecodeEd1, DecodeEd2, DecodeXx, Write
<1>3. CASE state = "ZERO"
  BY <1>1, <1>3 DEF DecodeNone, DecodeZero, DecodeEd1, DecodeEd2, DecodeXx, Write
<1>4. CASE state = "ED1"
  BY <1>1, <1>4 DEF DecodeNone, DecodeZero, DecodeEd1, DecodeEd2, DecodeXx, Write
<1>5. CASE state = "ED2"
  BY <1>1, <1>5 DEF DecodeNone, DecodeZero, DecodeEd1, DecodeEd2, DecodeXx, Write
<1>6. CASE state = "XX"
  BY <1>1, <1>6 DEF DecodeNone, DecodeZero, DecodeEd1, DecodeEd2, DecodeXx, Write
<1> QED
  BY <1>1, <1>2, <1>3, <1>4, <1>5, <1>6

EdAnd(b) == Zero \o <<ED, b>>

LEMMA DecodedEd1 ==
  ASSUME Decode, state = "ED1", Head(queue) # ED
  PROVE  state' = "NONE" /\ zero_detected' = FALSE /\ out' = out \o EdAnd(Head(queue))
<1> DEFINE b == Head(queue)
<1>1. \/ DecodeNone(b) \/ DecodeZero(b) \/ DecodeEd1(b) \/ DecodeEd2(b) \/ DecodeXx(b)
  BY DEF Decode
<1>2. DecodeEd1(b)
  BY <1>1 DEF DecodeNone, DecodeZero, DecodeEd2, DecodeXx
<1> QED
  BY <1>2 DEF DecodeEd1, Write, EdAnd

(* The types stay, whatever the decoder held when the page began. *)
LEMMA DecodeTyped == Typed /\ Decode => Typed'
<1> SUFFICES ASSUME Typed, Decode PROVE Typed'
  OBVIOUS
<1> DEFINE b == Head(queue)
<1>1. /\ state \in {"NONE", "ZERO", "ED1", "ED2", "XX"}
      /\ xx \in Byte /\ zero_detected \in BOOLEAN
      /\ out \in Seq(Byte) /\ queue \in Seq(Byte) /\ queue # <<>>
  BY DEF Typed, TypeOK, Decode
<1>2. b \in Byte /\ Tail(queue) \in Seq(Byte)
  BY <1>1, HeadTailProperties
<1>3. xx \in Nat /\ 0 \in Byte /\ ED \in Byte
  BY <1>1, Bytes DEF Byte
<1>4. /\ <<>> \in Seq(Byte) /\ <<b>> \in Seq(Byte) /\ <<0, b>> \in Seq(Byte)
      /\ <<ED, b>> \in Seq(Byte) /\ Zero \in Seq(Byte) /\ Repeat(b, xx) \in Seq(Byte)
  BY <1>2, <1>3, Short, ZeroIsSeq, RepeatIsSeq
<1>5. Zero \o <<ED, b>> \in Seq(Byte)
  BY <1>4, ConcatProperties
<1>6. /\ out \o <<>> \in Seq(Byte) /\ out \o <<b>> \in Seq(Byte)
      /\ out \o <<0, b>> \in Seq(Byte) /\ out \o (Zero \o <<ED, b>>) \in Seq(Byte)
      /\ out \o Zero \in Seq(Byte) /\ out \o Repeat(b, xx) \in Seq(Byte)
  BY <1>1, <1>4, <1>5, ConcatProperties
<1> HIDE DEF b
<1>7. b = Head(queue)
  BY DEF b
<1>8. /\ out' \in Seq(Byte) /\ xx' \in Byte /\ zero_detected' \in BOOLEAN
      /\ state' \in {"NONE", "ZERO", "ED1", "ED2", "XX"}
  <2>1. CASE state = "NONE"
    BY <1>1, <1>2, <1>6, <1>7, <2>1, Decoded
  <2>2. CASE state = "ZERO"
    BY <1>1, <1>2, <1>6, <1>7, <2>2, Decoded
  <2>3. CASE state = "ED1"
    BY <1>1, <1>2, <1>6, <1>7, <2>3, Decoded
  <2>4. CASE state = "ED2"
    <3>1. CASE b = 0
      BY <1>1, <1>2, <1>7, <2>4, <3>1, Decoded
    <3>2. CASE b # 0
      BY <1>1, <1>2, <1>6, <1>7, <2>4, <3>2, Decoded
    <3> QED
      BY <3>1, <3>2
  <2>5. CASE state = "XX"
    BY <1>1, <1>2, <1>6, <1>7, <2>5, Decoded
  <2> QED
    BY <1>1, <2>1, <2>2, <2>3, <2>4, <2>5
<1>9. /\ queue' = Tail(queue)
      /\ UNCHANGED <<data, after_ed, phase, version, file, page, fresh>>
  BY DEF Decode
<1> QED
  BY <1>2, <1>8, <1>9 DEF Typed, TypeOK

-----------------------------------------------------------------------------
(* Which piece of an equation between concatenations is next. *)

LEMMA Concats ==
  ASSUME NEW s \in Seq(Byte), NEW t \in Seq(Byte), NEW u \in Seq(Byte)
  PROVE  /\ (s \o t) \o u = s \o (t \o u)
         /\ s \o <<>> = s /\ <<>> \o s = s
         /\ s \o t \in Seq(Byte)
<1> QED
  BY ConcatAssociative, ConcatEmptySeq, ConcatProperties

(* A byte of the data, read between two tokens. *)
LEMMA LitDecoded ==
  ASSUME Typed, NEW b \in Byte, Lit(b), Decode
  PROVE  Idle'
<1>1. /\ queue = <<b>> /\ Between /\ (after_ed <=> b = ED)
      /\ (state = "ED1" => b # ED) /\ (out \o Held) \o <<b>> = data
  BY DEF Lit
<1>2. Head(queue) = b /\ Tail(queue) = <<>>
  BY <1>1, Taken
<1>3. out \in Seq(Byte) /\ zero_detected \in BOOLEAN
  BY DEF Typed, TypeOK
<1>4. queue' = <<>> /\ data' = data /\ after_ed' = after_ed
  BY <1>2, Decoded
<1>5. /\ <<>> \in Seq(Byte) /\ <<b>> \in Seq(Byte) /\ <<0>> \in Seq(Byte)
      /\ <<ED>> \in Seq(Byte) /\ Zero \in Seq(Byte) /\ <<ED, b>> \in Seq(Byte)
      /\ ED # 0
  BY Bytes, Short, ZeroIsSeq
<1>6. Held' = IF state' = "ZERO" THEN <<0>> ELSE IF state' = "ED1" THEN Zero' \o <<ED>> ELSE <<>>
  BY DEF Held
<1>7. (zero_detected' = FALSE => Zero' = <<>>) /\ (zero_detected' = TRUE => Zero' = <<0>>)
  BY DEF Zero
<1>8. CASE state = "NONE"
  <2>1. ~zero_detected /\ Held = <<>> /\ out \o <<b>> = data
    BY <1>1, <1>3, <1>8, HeldIs, Concats DEF Between
  <2>2. CASE b = ED
    <3>1. state' = "ED1" /\ zero_detected' = FALSE /\ out' = out \o <<>>
      BY <1>2, <1>5, <1>8, <2>1, <2>2, Decoded
    <3>2. out' = out /\ Held' = <<ED>>
      BY <1>3, <1>5, <1>6, <1>7, <3>1, Concats
    <3> QED
      BY <1>1, <1>4, <2>1, <2>2, <3>1, <3>2 DEF Idle, Between
  <2>3. CASE b = 0
    <3>1. state' = "ZERO" /\ zero_detected' = TRUE /\ out' = out \o <<>>
      BY <1>2, <1>5, <1>8, <2>3, Decoded
    <3>2. out' = out /\ Held' = <<0>>
      BY <1>3, <1>6, <3>1, Concats
    <3> QED
      BY <1>1, <1>4, <1>5, <2>1, <2>3, <3>1, <3>2 DEF Idle, Between
  <2>4. CASE b # 0 /\ b # ED
    <3>1. state' = "NONE" /\ zero_detected' = FALSE /\ out' = out \o <<b>>
      BY <1>2, <1>8, <2>1, <2>4, Decoded
    <3>2. Held' = <<>> /\ out' \o <<>> = data
      BY <1>3, <1>5, <1>6, <2>1, <3>1, Concats
    <3> QED
      BY <1>1, <1>4, <2>4, <3>1, <3>2 DEF Idle, Between
  <2> QED
    BY <2>2, <2>3, <2>4
<1>9. CASE state = "ZERO"
  <2>1. zero_detected /\ Held = <<0>> /\ Zero = <<0>>
    BY <1>1, <1>9, HeldIs DEF Between
  <2>2. out \o (<<0>> \o <<b>>) = data
    <3>1. (out \o <<0>>) \o <<b>> = data
      BY <1>1, <2>1
    <3>2. (out \o <<0>>) \o <<b>> = out \o (<<0>> \o <<b>>)
      <4> DEFINE z == <<0>>
      <4> DEFINE l == <<b>>
      <4>1. z \in Seq(Byte) /\ l \in Seq(Byte)
        BY <1>5
      <4> HIDE DEF z, l
      <4>2. (out \o z) \o l = out \o (z \o l)
        BY <1>3, <4>1, Concats
      <4> QED
        BY <4>2 DEF z, l
    <3> QED
      BY <3>1, <3>2
  <2>3. CASE b = ED
    <3>1. state' = "ED1" /\ zero_detected' = zero_detected /\ out' = out
      BY <1>2, <1>9, <2>3, Decoded
    <3>2. Zero' = Zero
      BY <3>1 DEF Zero
    <3>3. Held' = <<0>> \o <<ED>>
      BY <1>6, <2>1, <3>1, <3>2
    <3> QED
      BY <1>1, <1>4, <2>2, <2>3, <3>1, <3>3 DEF Idle, Between
  <2>4. CASE b # ED
    <3>1. state' = "NONE" /\ zero_detected' = FALSE /\ out' = out \o <<0, b>>
      BY <1>2, <1>9, <2>4, Decoded
    <3>2. out' = data
      BY <2>2, <3>1, PairIsConcat, Bytes
    <3>3. data \in Seq(Byte) /\ Held' = <<>>
      BY <1>6, <3>1 DEF Typed, TypeOK
    <3>4. out' \o Held' = data
      BY <3>2, <3>3, Concats
    <3> QED
      BY <1>1, <1>4, <2>4, <3>1, <3>4 DEF Idle, Between
  <2> QED
    BY <2>3, <2>4
<1>10. CASE state = "ED1"
  <2>1. b # ED /\ Held = Zero \o <<ED>>
    BY <1>1, <1>10, HeldIs
  <2>2. state' = "NONE" /\ zero_detected' = FALSE /\ out' = out \o EdAnd(b)
    <3>1. Head(queue) = b
      BY <1>2
    <3>2. b # ED
      BY <2>1
    <3>3. Head(queue) # ED
      BY <3>1, <3>2
    <3>4. /\ state' = "NONE" /\ zero_detected' = FALSE
          /\ out' = out \o EdAnd(Head(queue))
      BY <1>10, <3>3, DecodedEd1
    <3> QED
      BY <3>1, <3>4
  <2>3. <<ED, b>> = <<ED>> \o <<b>>
    BY Bytes, PairIsConcat
  <2>4. EdAnd(b) = Held \o <<b>>
    BY <1>5, <2>1, <2>3, Concats DEF EdAnd
  <2>5. Held \in Seq(Byte)
    BY ZeroIsSeq
  <2>6. out' = data
    <3> DEFINE l == <<b>>
    <3>1. l \in Seq(Byte)
      BY <1>5
    <3>2. (out \o Held) \o l = data /\ out' = out \o (Held \o l)
      BY <1>1, <2>2, <2>4
    <3> HIDE DEF l
    <3>3. (out \o Held) \o l = out \o (Held \o l)
      BY <1>3, <2>5, <3>1, ConcatAssociative
    <3> QED
      BY <3>2, <3>3
  <2>7. data \in Seq(Byte) /\ Held' = <<>>
    BY <1>6, <2>2 DEF Typed, TypeOK
  <2>8. out' \o Held' = data
    BY <2>6, <2>7, Concats
  <2> QED
    BY <1>1, <1>4, <2>1, <2>2, <2>8 DEF Idle, Between
<1> QED
  BY <1>1, <1>8, <1>9, <1>10 DEF Between

(* A run, byte by byte. *)
LEMMA Run4Decoded ==
  ASSUME Typed, NEW n \in Nat \ {0}, NEW b \in Byte, Run4(n, b), Decode
  PROVE  Run3(n, b)'
<1>1. /\ queue = <<ED, ED, n, b>> /\ Between /\ state # "ED1"
      /\ (out \o Held) \o Repeat(b, n) = data
  BY DEF Run4
<1>2. Head(queue) = ED /\ Tail(queue) = <<ED, n, b>>
  BY <1>1, Taken
<1>3. out \in Seq(Byte) /\ zero_detected \in BOOLEAN
  BY DEF Typed, TypeOK
<1>4. queue' = <<ED, n, b>> /\ data' = data
  BY <1>2, Decoded
<1>5. CASE state = "NONE"
  <2>1. ~zero_detected /\ Held = <<>> /\ out \o <<>> = out
    BY <1>1, <1>3, <1>5, HeldIs, ConcatEmptySeq DEF Between
  <2>2. state' = "ED1" /\ zero_detected' = FALSE /\ out' = out \o <<>>
    BY <1>2, <1>5, <2>1, Decoded, Bytes
  <2>3. Zero' = <<>> /\ out' = out /\ out \o <<>> = out
    BY <2>1, <2>2 DEF Zero
  <2> QED
    BY <1>1, <1>4, <2>1, <2>2, <2>3 DEF Run3, Repeat
<1>6. CASE state = "ZERO"
  <2>1. zero_detected /\ Held = <<0>>
    BY <1>1, <1>6, HeldIs DEF Between
  <2>2. state' = "ED1" /\ zero_detected' = zero_detected /\ out' = out
    BY <1>2, <1>6, Decoded
  <2>3. Zero' = <<0>>
    BY <2>1, <2>2 DEF Zero
  <2> QED
    BY <1>1, <1>4, <2>1, <2>2, <2>3 DEF Run3, Repeat
<1> QED
  BY <1>1, <1>5, <1>6 DEF Between

LEMMA Run3Decoded ==
  ASSUME Typed, NEW n \in Nat \ {0}, NEW b \in Byte, Run3(n, b), Decode
  PROVE  Run2(n, b)'
<1>1. queue = <<ED, n, b>> /\ state = "ED1" /\ (out \o Zero) \o Repeat(b, n) = data
  BY DEF Run3
<1>2. Head(queue) = ED /\ Tail(queue) = <<n, b>>
  BY <1>1, Taken
<1>3. /\ queue' = <<n, b>> /\ data' = data
      /\ state' = "ED2" /\ zero_detected' = zero_detected /\ out' = out
  BY <1>1, <1>2, Decoded
<1>4. Zero' = Zero
  BY <1>3 DEF Zero
<1> QED
  BY <1>1, <1>3, <1>4 DEF Run2, Repeat

LEMMA Run2Decoded ==
  ASSUME Typed, NEW n \in Nat \ {0}, NEW b \in Byte, Run2(n, b), Decode
  PROVE  Run1(b)'
<1>1. queue = <<n, b>> /\ state = "ED2" /\ (out \o Zero) \o Repeat(b, n) = data
  BY DEF Run2
<1>2. Head(queue) = n /\ Tail(queue) = <<b>> /\ n # 0
  BY <1>1, Taken
<1>3. /\ queue' = <<b>> /\ data' = data
      /\ state' = "XX" /\ zero_detected' = FALSE /\ out' = out \o Zero /\ xx' = n
  BY <1>1, <1>2, Decoded
<1> QED
  BY <1>1, <1>3 DEF Run1, Repeat

LEMMA Run1Decoded ==
  ASSUME Typed, NEW b \in Byte, Run1(b), ~after_ed, Decode
  PROVE  Idle'
<1>1. queue = <<b>> /\ state = "XX" /\ ~zero_detected /\ out \o Repeat(b, xx) = data
  BY DEF Run1
<1>2. Head(queue) = b /\ Tail(queue) = <<>>
  BY <1>1, Taken
<1>3. /\ queue' = <<>> /\ data' = data /\ after_ed' = after_ed
      /\ state' = "NONE" /\ zero_detected' = zero_detected /\ out' = out \o Repeat(b, xx)
  BY <1>1, <1>2, Decoded
<1>4. Held' = <<>> /\ data \in Seq(Byte)
  BY <1>3 DEF Held, Typed, TypeOK
<1>5. out' \o Held' = data
  BY <1>1, <1>3, <1>4, ConcatEmptySeq
<1> QED
  BY <1>1, <1>3, <1>5 DEF Idle, Between

LEMMA DecodeInData == Typed /\ InData /\ Decode => InData'
<1> SUFFICES ASSUME Typed, InData, Decode PROVE InData'
  OBVIOUS
<1>1. ~Idle
  BY DEF Idle, Decode
<1>2. after_ed' = after_ed
  BY DEF Decode
<1>3. ASSUME NEW b \in Byte, Lit(b) PROVE InData'
  BY <1>3, LitDecoded DEF InData
<1>4. ASSUME NEW n \in Nat \ {0}, NEW b \in Byte, ~after_ed,
             Run4(n, b) \/ Run3(n, b) \/ Run2(n, b) \/ Run1(b)
      PROVE  InData'
  <2>1. CASE Run4(n, b)
    <3>1. Run3(n, b)'
      BY <2>1, Run4Decoded
    <3> QED
      BY <1>2, <1>4, <3>1 DEF InData
  <2>2. CASE Run3(n, b)
    <3>1. Run2(n, b)'
      BY <2>2, Run3Decoded
    <3> QED
      BY <1>2, <1>4, <3>1 DEF InData
  <2>3. CASE Run2(n, b)
    <3>1. Run1(b)'
      BY <2>3, Run2Decoded
    <3> QED
      BY <1>2, <1>4, <3>1 DEF InData
  <2>4. CASE Run1(b)
    BY <1>4, <2>4, Run1Decoded DEF InData
  <2> QED
    BY <1>4, <2>1, <2>2, <2>3, <2>4
<1> QED
  BY <1>1, <1>3, <1>4 DEF InData

(* The end tag, byte by byte. *)
LEMMA AppendedZero ==
  ASSUME NEW s \in Seq(Byte), NEW e \in {0, ED}
  PROVE  /\ s \o <<e>> \in Seq(Byte) /\ s \o <<e>> # <<>> /\ Last(s \o <<e>>) = e
         /\ Append(s \o <<e>>, 0) = s \o (<<e>> \o <<0>>)
<1>1. e \in Byte /\ 0 \in Byte
  BY Bytes
<1>2. <<e>> \in Seq(Byte) /\ <<0>> \in Seq(Byte)
  BY <1>1, Short
<1>3. /\ s \o <<e>> \in Seq(Byte) /\ Len(s \o <<e>>) = Len(s) + 1 /\ Len(s) \in Nat
      /\ (s \o <<e>>)[Len(s) + 1] = <<e>>[1]
  BY <1>2, ConcatProperties, LenProperties
<1>4. s \o <<e>> # <<>> /\ Last(s \o <<e>>) = e
  BY <1>3 DEF Last
<1>5. Append(s \o <<e>>, 0) = (s \o <<e>>) \o <<0>>
  BY <1>1, <1>3, AppendIsConcat
<1>6. (s \o <<e>>) \o <<0>> = s \o (<<e>> \o <<0>>)
  BY <1>2, ConcatAssociative
<1> QED
  BY <1>3, <1>4, <1>5, <1>6

LEMMA TagStarts ==
  ASSUME Typed, queue = <<0, ED, ED, 0>>, Between, out \o Held = data, Decode
  PROVE  InTag'
<1>1. Head(queue) = 0 /\ Tail(queue) = <<ED, ED, 0>> /\ 0 # ED
  BY Taken, Bytes
<1>2. out \in Seq(Byte) /\ zero_detected \in BOOLEAN
  BY DEF Typed, TypeOK
<1>3. queue' = <<ED, ED, 0>> /\ data' = data
  BY <1>1, Decoded
<1>4. CASE state = "NONE"
  <2>1. state' = "ZERO" /\ out' = out \o <<>>
    BY <1>1, <1>4, Decoded
  <2>2. Held = <<>> /\ out \o <<>> = out
    BY <1>2, <1>4, HeldIs, ConcatEmptySeq
  <2> QED
    BY <1>3, <2>1, <2>2 DEF InTag
<1>5. CASE state = "ZERO"
  <2>1. state' = "NONE" /\ out' = out \o <<0, 0>>
    BY <1>1, <1>5, Decoded
  <2>2. Held = <<0>> /\ <<0, 0>> = <<0>> \o <<0>>
    BY <1>5, HeldIs, PairIsConcat, Bytes
  <2>3. out' = Append(data, 0) /\ data # <<>> /\ Last(data) = 0
    BY <1>2, <2>1, <2>2, AppendedZero
  <2> QED
    BY <1>3, <2>1, <2>3 DEF InTag, Complete
<1>6. CASE state = "ED1"
  <2>1. state' = "NONE" /\ out' = out \o EdAnd(0)
    BY <1>1, <1>6, DecodedEd1
  <2>2. Held = Zero \o <<ED>> /\ EdAnd(0) = Zero \o (<<ED>> \o <<0>>)
    BY <1>6, HeldIs, PairIsConcat, Bytes DEF EdAnd
  <2>3. Zero \in Seq(Byte) /\ <<ED>> \in Seq(Byte) /\ <<0>> \in Seq(Byte)
    BY ZeroIsSeq, Bytes, Short
  <2>4. out \o Zero \in Seq(Byte) /\ data = (out \o Zero) \o <<ED>>
    BY <1>2, <2>2, <2>3, ConcatProperties, ConcatAssociative
  <2>5. <<ED>> \o <<0>> \in Seq(Byte)
    BY <2>3, ConcatProperties
  <2>6. out' = (out \o Zero) \o (<<ED>> \o <<0>>)
    <3> DEFINE t == <<ED>> \o <<0>>
    <3>1. t \in Seq(Byte) /\ out' = out \o (Zero \o t)
      BY <2>1, <2>2, <2>5
    <3> HIDE DEF t
    <3>2. (out \o Zero) \o t = out \o (Zero \o t)
      BY <1>2, <2>3, <3>1, ConcatAssociative
    <3>3. out' = (out \o Zero) \o t
      BY <3>1, <3>2
    <3> QED
      BY <3>3 DEF t
  <2>7. out' = Append(data, 0) /\ data # <<>> /\ Last(data) = ED
    BY <2>4, <2>6, AppendedZero
  <2> QED
    BY <1>3, <2>1, <2>7 DEF InTag, Complete
<1> QED
  BY <1>4, <1>5, <1>6 DEF Between

LEMMA DecodeInTag == Typed /\ InTag /\ Decode => InTag'
<1> SUFFICES ASSUME Typed, InTag, Decode PROVE InTag'
  OBVIOUS
<1>1. queue # <<>> /\ data' = data /\ out \in Seq(Byte)
  BY DEF Decode, Typed, TypeOK
<1>2. Complete /\ out' = out => Complete'
  BY <1>1 DEF Complete
<1>3. CASE queue = <<0, ED, ED, 0>> /\ Between /\ out \o Held = data
  BY <1>3, TagStarts
<1>4. CASE queue = <<ED, ED, 0>>
  <2>1. Head(queue) = ED /\ Tail(queue) = <<ED, 0>> /\ 0 # ED
    BY <1>4, Taken, Bytes
  <2>2. (state = "ZERO" /\ out = data) \/ (state = "NONE" /\ Complete)
    BY <1>4 DEF InTag
  <2>3. CASE state = "ZERO" /\ out = data
    <3>1. state' = "ED1" /\ out' = out /\ queue' = <<ED, 0>>
      BY <2>1, <2>3, Decoded
    <3> QED
      BY <1>1, <2>3, <3>1 DEF InTag, Complete
  <2>4. CASE state = "NONE" /\ Complete
    <3>1. state' = "ED1" /\ out' = out \o <<>> /\ queue' = <<ED, 0>>
      BY <2>1, <2>4, Decoded
    <3>2. out' = out
      BY <1>1, <3>1, ConcatEmptySeq
    <3> QED
      BY <1>2, <2>4, <3>1, <3>2 DEF InTag
  <2> QED
    BY <2>2, <2>3, <2>4
<1>5. CASE queue = <<ED, 0>> /\ state = "ED1" /\ Complete
  <2>1. Head(queue) = ED /\ Tail(queue) = <<0>>
    BY <1>5, Taken
  <2>2. state' = "ED2" /\ out' = out /\ queue' = <<0>>
    BY <1>5, <2>1, Decoded
  <2> QED
    BY <1>2, <1>5, <2>2 DEF InTag
<1>6. CASE queue = <<0>> /\ state = "ED2" /\ Complete
  <2>1. Head(queue) = 0 /\ Tail(queue) = <<>>
    BY <1>6, Taken
  <2>2. state' = "NONE" /\ out' = out /\ queue' = <<>>
    BY <1>6, <2>1, Decoded
  <2> QED
    BY <1>2, <1>6, <2>2 DEF InTag
<1> QED
  BY <1>1, <1>3, <1>4, <1>5, <1>6 DEF InTag

-----------------------------------------------------------------------------
(* The steps of the file. *)

LEMMA DecodeInv == IInv /\ Decode => IInv'
<1> SUFFICES ASSUME IInv, Decode PROVE IInv'
  OBVIOUS
<1>1. phase' = phase /\ fresh' = fresh /\ queue # <<>>
  BY DEF Decode
<1> QED
  BY <1>1, DecodeTyped, DecodeInData, DecodeInTag DEF IInv

(* Between two tokens of a page begun with nothing held back. *)
LEMMA ReadingIsIdle == IInv /\ Reading /\ fresh => Idle
<1> SUFFICES ASSUME IInv, Reading, fresh PROVE Idle
  OBVIOUS
<1>1. queue = <<>> /\ InData
  BY DEF IInv, Reading
<1>2. \A b \in Byte : ~Lit(b) /\ ~Run1(b)
  BY <1>1, Taken DEF Lit, Run1
<1>3. \A n \in Nat \ {0}, b \in Byte : ~Run4(n, b) /\ ~Run3(n, b) /\ ~Run2(n, b)
  BY <1>1, Taken DEF Run4, Run3, Run2
<1> QED
  BY <1>1, <1>2, <1>3 DEF InData

LEMMA LiteralInv == ASSUME NEW b \in Byte PROVE IInv /\ Literal(b) => IInv'
<1> SUFFICES ASSUME IInv, Literal(b) PROVE IInv'
  OBVIOUS
<1>1. /\ Reading /\ (after_ed => b # ED)
      /\ queue' = <<b>> /\ data' = Append(data, b) /\ after_ed' = (b = ED)
      /\ UNCHANGED <<state, xx, zero_detected, out, phase, version, file, page, fresh>>
  BY DEF Literal, decoder
<1>2. data \in Seq(Byte) /\ <<b>> \in Seq(Byte) /\ data' = data \o <<b>>
  BY <1>1, Short, AppendIsConcat DEF IInv, Typed, TypeOK
<1>3. data' \in Seq(Byte) /\ queue' \in Seq(Byte) /\ after_ed' \in BOOLEAN
  BY <1>1, <1>2, ConcatProperties
<1>4. Typed'
  BY <1>1, <1>3 DEF IInv, Typed, TypeOK
<1>5. phase' = "data"
  BY <1>1 DEF Reading
<1>6. ASSUME fresh PROVE Lit(b)'
  <2>1. Idle
    BY <1>1, <1>6, ReadingIsIdle
  <2>2. Held' = Held
    BY <1>1 DEF Held, Zero
  <2>3. (out' \o Held') \o <<b>> = data'
    BY <1>1, <1>2, <2>1, <2>2 DEF Idle
  <2> QED
    BY <1>1, <2>1, <2>3 DEF Lit, Idle, Between
<1> QED
  BY <1>1, <1>4, <1>5, <1>6 DEF IInv, InData

LEMMA RunInv ==
  ASSUME NEW n \in 1 .. MaxByte, NEW b \in Byte PROVE IInv /\ Run(n, b) => IInv'
<1> SUFFICES ASSUME IInv, Run(n, b) PROVE IInv'
  OBVIOUS
<1>1. /\ Reading /\ ~after_ed
      /\ queue' = <<ED, ED, n, b>> /\ data' = data \o Repeat(b, n)
      /\ UNCHANGED <<state, xx, zero_detected, out, after_ed, phase, version, file, page, fresh>>
  BY DEF Run, decoder
<1>2. n \in Byte /\ n \in Nat \ {0} /\ ED \in Byte
  BY Bytes DEF Byte
<1>3. Repeat(b, n) \in Seq(Byte) /\ data \in Seq(Byte)
  BY <1>2, RepeatIsSeq DEF IInv, Typed, TypeOK
<1>4. <<ED, ED, n, b>> \in Seq(Byte)
  BY <1>2, Short
<1>5. data' \in Seq(Byte) /\ queue' \in Seq(Byte)
  BY <1>1, <1>3, <1>4, ConcatProperties
<1>6. Typed'
  BY <1>1, <1>5 DEF IInv, Typed, TypeOK
<1>7. phase' = "data"
  BY <1>1 DEF Reading
<1>8. ASSUME fresh PROVE Run4(n, b)'
  <2>1. Idle
    BY <1>1, <1>8, ReadingIsIdle
  <2>2. Held' = Held
    BY <1>1 DEF Held, Zero
  <2>3. (out' \o Held') \o Repeat(b, n) = data'
    BY <1>1, <2>1, <2>2 DEF Idle
  <2> QED
    BY <1>1, <2>1, <2>3 DEF Run4, Idle, Between, Repeat
<1> QED
  BY <1>1, <1>2, <1>6, <1>7, <1>8 DEF IInv, InData

LEMMA EndTagInv == IInv /\ EndTag => IInv'
<1> SUFFICES ASSUME IInv, EndTag PROVE IInv'
  OBVIOUS
<1>1. /\ Reading /\ queue' = <<0, ED, ED, 0>> /\ phase' = "tagged"
      /\ UNCHANGED <<state, xx, zero_detected, out, data, after_ed, version, file, page, fresh>>
  BY DEF EndTag, decoder
<1>2. queue' \in Seq(Byte)
  BY <1>1, Bytes, Short
<1>3. Typed'
  BY <1>1, <1>2 DEF IInv, Typed, TypeOK
<1>4. ASSUME fresh PROVE InTag'
  <2>1. Idle
    BY <1>1, <1>4, ReadingIsIdle
  <2>2. Held' = Held /\ Between'
    BY <1>1, <2>1 DEF Held, Zero, Idle, Between
  <2> QED
    BY <1>1, <2>1, <2>2 DEF InTag, Idle
<1> QED
  BY <1>1, <1>3, <1>4 DEF IInv

(* A page or a file begun with nothing held back. *)
LEMMA Begun ==
  ASSUME queue' = <<>>, data' = <<>>, out' = <<>>, after_ed' = FALSE,
         state' = "NONE", ~zero_detected'
  PROVE  InData'
<1>1. out' \o Held' = data'
  BY DEF Held
<1> QED
  BY <1>1 DEF InData, Idle, Between

LEMMA NextPageInv == IInv /\ NextPage => IInv'
<1> SUFFICES ASSUME IInv, NextPage PROVE IInv'
  OBVIOUS
<1>1. /\ Reading /\ page' = page + 1 /\ fresh' = HoldsNothing
      /\ data' = <<>> /\ after_ed' = FALSE /\ out' = <<>>
      /\ UNCHANGED <<state, xx, zero_detected, queue, phase, version, file>>
  BY DEF NextPage
<1>2. data' \in Seq(Byte) /\ out' \in Seq(Byte) /\ after_ed' \in BOOLEAN
  BY <1>1, Bytes, Short
<1>3. fresh' \in BOOLEAN
  BY <1>1 DEF HoldsNothing, IInv, Typed, TypeOK
<1>4. page' \in Nat /\ page' >= 1
  BY <1>1 DEF IInv, Typed, TypeOK
<1>5. Typed'
  BY <1>1, <1>2, <1>3, <1>4 DEF IInv, Typed, TypeOK
<1>6. phase' = "data" /\ queue' = <<>>
  BY <1>1 DEF Reading
<1>7. fresh' => InData'
  BY <1>1, <1>6, Begun DEF HoldsNothing
<1> QED
  BY <1>5, <1>6, <1>7 DEF IInv

LEMMA EndFileInv == IInv /\ EndFile => IInv'
<1> SUFFICES ASSUME IInv, EndFile PROVE IInv'
  OBVIOUS
<1>1. /\ queue = <<>> /\ phase' = "done" /\ state' = "NONE"
      /\ UNCHANGED <<xx, zero_detected, out, data, queue, after_ed, version, file, page, fresh>>
  BY DEF EndFile
<1>2. Typed'
  BY <1>1 DEF IInv, Typed, TypeOK
<1> QED
  BY <1>1, <1>2 DEF IInv

LEMMA NextFileInv == IInv /\ NextFile => IInv'
<1> SUFFICES ASSUME IInv, NextFile PROVE IInv'
  OBVIOUS
<1>1. /\ phase = "done" /\ file' = file + 1 /\ page' = 1 /\ version' \in Versions
      /\ fresh' = HoldsNothing /\ data' = <<>> /\ out' = <<>> /\ after_ed' = FALSE
      /\ phase' = "data"
      /\ UNCHANGED <<state, xx, zero_detected, queue>>
  BY DEF NextFile
<1>2. data' \in Seq(Byte) /\ out' \in Seq(Byte) /\ after_ed' \in BOOLEAN
  BY <1>1, Bytes, Short
<1>3. fresh' \in BOOLEAN
  BY <1>1 DEF HoldsNothing, IInv, Typed, TypeOK
<1>4. version' \in {1, 2}
  BY <1>1, VersionAssumption
<1>5. file' \in Nat /\ page' \in Nat /\ page' >= 1
  BY <1>1 DEF IInv, Typed, TypeOK
<1>6. Typed'
  BY <1>1, <1>2, <1>3, <1>4, <1>5 DEF IInv, Typed, TypeOK
<1>7. queue' = <<>>
  BY <1>1 DEF IInv
<1>8. fresh' => InData'
  BY <1>1, <1>7, Begun DEF HoldsNothing
<1> QED
  BY <1>1, <1>6, <1>7, <1>8 DEF IInv

LEMMA StutterInv == IInv /\ UNCHANGED vars => IInv'
<1> SUFFICES ASSUME IInv, UNCHANGED vars PROVE IInv'
  OBVIOUS
<1>1. UNCHANGED <<state, xx, zero_detected, out, data, queue, after_ed, phase,
                  version, file, page, fresh>>
  BY DEF vars, decoder, source
<1>2. Typed'
  BY <1>1 DEF IInv, Typed, TypeOK
<1>3. InData => InData'
  BY <1>1 DEF InData, Idle, Lit, Run4, Run3, Run2, Run1, Between, Held, Zero, Repeat
<1>4. InTag => InTag'
  BY <1>1 DEF InTag, Complete, Between, Held, Zero
<1> QED
  BY <1>1, <1>2, <1>3, <1>4 DEF IInv

(***************************************************************************)
(* The invariant: what load_compressed_data_block_z80 has written, what it *)
(* holds back and what is left of the token it is reading are together the *)
(* data of the page (formats.c:517-620).                                   *)
(***************************************************************************)
THEOREM DecoderInvariant == Spec => []IInv
<1>1. Init => IInv
  BY InitInv
<1>2. IInv /\ [Next]_vars => IInv'
  BY DecodeInv, LiteralInv, RunInv, EndTagInv, NextPageInv, EndFileInv, NextFileInv,
     StutterInv DEF Next, Token
<1> QED
  BY <1>1, <1>2, PTL DEF Spec

(* The types of the decoder's variables, and of the file it is fed. *)
THEOREM TypeCorrect == Spec => []TypeOK
<1>1. IInv => TypeOK
  BY DEF IInv, Typed
<1> QED
  BY <1>1, DecoderInvariant, PTL

(* A page begun with nothing held back is written byte for byte. *)
THEOREM NoByteLost == Spec => []NothingLost
<1>1. IInv => NothingLost
  BY ReadingIsIdle DEF NothingLost, Idle
<1> QED
  BY <1>1, DecoderInvariant, PTL

(* The end tag is taken as such, and costs at most a zero past the data. *)
THEOREM EndTagRecognised == Spec => []EndTagFound
<1>1. IInv => EndTagFound
  <2> SUFFICES ASSUME IInv, phase = "tagged", queue = <<>>, fresh
               PROVE  state = "NONE" /\ Complete
    BY DEF EndTagFound, Complete
  <2>1. InTag
    BY DEF IInv
  <2>2. /\ queue # <<0, ED, ED, 0>> /\ queue # <<ED, ED, 0>> /\ queue # <<ED, 0>>
        /\ queue # <<0>>
    BY Taken
  <2> QED
    BY <2>1, <2>2 DEF InTag
<1> QED
  BY <1>1, DecoderInvariant, PTL

(* What survives the change of address never claims a byte that is written. *)
THEOREM CarriesHeldOnly == Spec => CarriesOnlyHeld
<1>1. ASSUME IInv, [Next]_vars, page' = page + 1, fresh PROVE fresh' <=> out = data
  <2>1. page \in Nat /\ page >= 1 /\ out \in Seq(Byte)
    BY <1>1 DEF IInv, Typed, TypeOK
  <2>2. page' # page /\ page' # 1
    BY <1>1, <2>1
  <2>3. NextPage
    BY <1>1, <2>2 DEF Next, Token, Decode, Literal, Run, EndTag, EndFile, NextFile,
                      vars, decoder, source
  <2>4. Reading /\ fresh' = HoldsNothing
    BY <2>3 DEF NextPage
  <2>5. Idle
    BY <1>1, <2>4, ReadingIsIdle
  <2>6. out \o Held = data /\ Between
    BY <2>5 DEF Idle
  <2>7. HoldsNothing <=> Held = <<>>
    <3>1. CASE state = "NONE"
      BY <2>6, <3>1, HeldIs DEF HoldsNothing, Between
    <3>2. CASE state = "ZERO"
      BY <3>2, HeldIs DEF HoldsNothing
    <3>3. CASE state = "ED1"
      <4>1. Held = Zero \o <<ED>> /\ ~HoldsNothing
        BY <3>3, HeldIs DEF HoldsNothing
      <4>2. Zero \in Seq(Byte) /\ <<ED>> \in Seq(Byte) /\ <<ED>> # <<>>
        BY ZeroIsSeq, Bytes, Short
      <4> QED
        BY <4>1, <4>2, ConcatEqualIffEmpty
    <3> QED
      BY <2>6, <3>1, <3>2, <3>3 DEF Between
  <2>8. out = data <=> Held = <<>>
    BY <2>1, <2>6, ZeroIsSeq, ConcatEqualIffEmpty
  <2> QED
    BY <2>4, <2>7, <2>8
<1>2. IInv /\ [Next]_vars => [page' = page + 1 /\ fresh => (fresh' <=> out = data)]_vars
  BY <1>1
<1> QED
  BY <1>2, DecoderInvariant, PTL DEF Spec, CarriesOnlyHeld
=============================================================================
