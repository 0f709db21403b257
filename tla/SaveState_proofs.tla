-------------------------- MODULE SaveState_proofs --------------------------
(***************************************************************************)
(* Proofs about save states and loads, whatever the timing and the errors: *)
(* the SAVE routine never runs into its own stores, a snapshot has the     *)
(* registers of the program it stopped, and a program that goes on finds   *)
(* its registers and its stack as it left them, and the video memory too   *)
(* unless a put-back has failed.                                           *)
(***************************************************************************)
EXTENDS SaveState, SequenceTheorems, TLAPS

-----------------------------------------------------------------------------
(* The routines. *)

Steps == 1 .. 20

LEMMA Lengths ==
  Len(SaveRoutine) = 20 /\ Len(LoadRoutine) = 20
<1> QED
  BY DEF SaveRoutine, LoadRoutine

(* The instruction of the SAVE routine that stores in a byte. *)
StoredBy(b) == IF b <= 5 THEN 5 + b \div 2 ELSE IF b <= 15 THEN 6 + b \div 2 ELSE b - 1

(* An instruction stores in bytes that no other one stores in, and that the *)
(* ones after it are not fetched from.                                      *)
Fits(ins, j) ==
  /\ ins.reg \in Registers \union {""}
  /\ ins.reg = "" => ins.to = {}
  /\ ins.from \subseteq Bytes
  /\ \A b \in ins.to : b \in Bytes /\ StoredBy(b) = j /\ b <= 2 * j - 9
  /\ \A b \in ins.from : b >= 2 * j - 8

LEMMA Instructions ==
  ASSUME NEW j \in Steps
  PROVE  Fits(SaveRoutine[j], j)
<1> USE DEF Fits, Ins, Plain, Registers, Bytes, SaveSize, StoredBy
<1>1. Fits(Plain(0 .. 3), 1)
  OBVIOUS
<1>2. Fits(Plain(4 .. 4), 2)
  OBVIOUS
<1>3. Fits(Plain(5 .. 5), 3)
  OBVIOUS
<1>4. Fits(Plain(6 .. 6), 4)
  OBVIOUS
<1>5. Fits(Ins(7 .. 9, "HL", 0 .. 1), 5)
  OBVIOUS
<1>6. Fits(Ins(10 .. 13, "BC", 2 .. 3), 6)
  OBVIOUS
<1>7. Fits(Ins(14 .. 17, "DE", 4 .. 5), 7)
  OBVIOUS
<1>8. Fits(Plain(18 .. 18), 8)
  OBVIOUS
<1>9. Fits(Ins(19 .. 21, "HL'", 6 .. 7), 9)
  OBVIOUS
<1>10. Fits(Ins(22 .. 25, "BC'", 8 .. 9), 10)
  OBVIOUS
<1>11. Fits(Ins(26 .. 29, "DE'", 10 .. 11), 11)
  OBVIOUS
<1>12. Fits(Ins(30 .. 33, "IX", 12 .. 13), 12)
  OBVIOUS
<1>13. Fits(Ins(34 .. 37, "IY", 14 .. 15), 13)
  OBVIOUS
<1>14. Fits(Plain(38 .. 39), 14)
  OBVIOUS
<1>15. Fits(Ins(40 .. 42, "I", 16 .. 16), 15)
  OBVIOUS
<1>16. Fits(Plain(43 .. 44), 16)
  OBVIOUS
<1>17. Fits(Ins(45 .. 47, "R", 18 .. 18), 17)
  OBVIOUS
<1>18. Fits(Plain(48 .. 50), 18)
  OBVIOUS
<1>19. Fits(Plain(51 .. 52), 19)
  OBVIOUS
<1>20. Fits(Plain(53 .. 53), 20)
  OBVIOUS
<1> HIDE DEF Fits, Ins, Plain
<1> QED
  BY <1>1, <1>2, <1>3, <1>4, <1>5, <1>6, <1>7, <1>8, <1>9, <1>10, <1>11, <1>12, <1>13,
     <1>14, <1>15, <1>16, <1>17, <1>18, <1>19, <1>20 DEF SaveRoutine, Steps

LEMMA Loads ==
  ASSUME NEW j \in Steps
  PROVE  LoadRoutine[j] \subseteq 0 .. LoadSize - 1 /\ LoadRoutine[j] # {}
<1>1. LoadRoutine[j] \subseteq 0 .. LoadSize - 1
  BY DEF LoadRoutine, LoadSize, Steps
<1>2. \E b \in 0 .. 45 : b \in LoadRoutine[j]
  BY DEF LoadRoutine, Steps
<1> QED
  BY <1>1, <1>2

(* Where the firmware reads a register is where an instruction stores it. *)
LEMMA Reads ==
  ASSUME NEW r \in Registers
  PROVE  \E j \in Steps : SaveRoutine[j].reg = r /\ SaveRoutine[j].to = RegAt[r]
<1> USE DEF Ins, RegAt, Registers, Steps
<1>1. SaveRoutine[5].reg = "HL" /\ SaveRoutine[5].to = RegAt["HL"]
  BY DEF SaveRoutine
<1>2. SaveRoutine[6].reg = "BC" /\ SaveRoutine[6].to = RegAt["BC"]
  BY DEF SaveRoutine
<1>3. SaveRoutine[7].reg = "DE" /\ SaveRoutine[7].to = RegAt["DE"]
  BY DEF SaveRoutine
<1>4. SaveRoutine[9].reg = "HL'" /\ SaveRoutine[9].to = RegAt["HL'"]
  BY DEF SaveRoutine
<1>5. SaveRoutine[10].reg = "BC'" /\ SaveRoutine[10].to = RegAt["BC'"]
  BY DEF SaveRoutine
<1>6. SaveRoutine[11].reg = "DE'" /\ SaveRoutine[11].to = RegAt["DE'"]
  BY DEF SaveRoutine
<1>7. SaveRoutine[12].reg = "IX" /\ SaveRoutine[12].to = RegAt["IX"]
  BY DEF SaveRoutine
<1>8. SaveRoutine[13].reg = "IY" /\ SaveRoutine[13].to = RegAt["IY"]
  BY DEF SaveRoutine
<1>9. SaveRoutine[15].reg = "I" /\ SaveRoutine[15].to = RegAt["I"]
  BY DEF SaveRoutine
<1>10. SaveRoutine[17].reg = "R" /\ SaveRoutine[17].to = RegAt["R"]
  BY DEF SaveRoutine
<1> HIDE DEF Ins, RegAt
<1> QED
  BY <1>1, <1>2, <1>3, <1>4, <1>5, <1>6, <1>7, <1>8, <1>9, <1>10

-----------------------------------------------------------------------------
(* The inductive invariant. *)

Junk  == <<"junk">>
Words == {<<>>, <<"PC">>, <<"PC", "AF">>, Pushes, Junk}

(* What the SAVE routine has pushed before instruction j, if it was entered *)
(* from the program; otherwise the pushes are out of order from the first   *)
(* PUSH on.                                                                 *)
Expected(j) == IF j <= 2 THEN <<"PC">> ELSE IF j <= 4 THEN <<"PC", "AF">> ELSE Pushes

Pushed ==
  /\ stack \in Words
  /\ z80 \in {"program", "menu"} => stack = <<>>
  /\ z80 = "save" => stack \in {Expected(k), Junk} \/ (stack \in {Pushes, <<>>} /\ k <= 2)
  /\ z80 = "halt" => stack \in {Pushes, Junk}

(* Who has the bus, and where the Z80 can be, at each step of the firmware. *)
Control ==
  /\ z80 \in {"save", "load"} => k \in Steps
  /\ z80 = "menu" => nmi \/ (fw = "main" /\ ~bus)
  /\ fw \in {"main", "inject"} /\ nmi => z80 \in {"save", "halt", "menu"}
  /\ fw = "inject" => bus
  /\ fw = "listen" => ~bus /\ (~nmi => z80 \in {"save", "halt"})
  /\ fw = "file" => bus /\ ~nmi /\ z80 \in {"save", "halt"}
  /\ fw = "poll" => ~bus /\ z80 \in IF nmi THEN {"save", "halt"}
                                     ELSE {"load", "program", "lost"}
  /\ fw = "poll_load" => ~bus /\ z80 \in IF nmi THEN {"menu"}
                                          ELSE {"load", "program", "lost"}

(* The instructions of the SAVE routine that are done. *)
Done == IF z80 = "halt" THEN Steps ELSE 1 .. k - 1

(* They have stored, and nothing else has changed the routine. *)
Stored ==
  /\ \A i \in Done : \A b \in SaveRoutine[i].to : video[b] = SaveRoutine[i].reg
  /\ \A b \in Bytes : (\A i \in Done : b \notin SaveRoutine[i].to) => video[b] = "save"

(* The LOAD routine is all there, or nothing of it is. *)
LoadWhole == \A b \in 0 .. LoadSize - 1 : video[b] = "load"
LoadGone  == \A b \in Bytes : video[b] # "load"

(* What a program can be left with, in the video memory or in the copy of *)
(* it: nothing of the registers, and all its own unless a put-back failed. *)
OwnBytes(bytes) ==
  /\ \A b \in Bytes : bytes[b] \notin Registers
  /\ put_back => bytes = Video("game")
OwnVideo == OwnBytes(video)
OwnCopy  == OwnBytes(backup)

(* The LOAD routine is in the video memory while the firmware waits for it *)
(* to end, and afterwards only where a put-back has failed; never in the   *)
(* copy.  Registers are stored in front of where it ends.                  *)
Memory ==
  /\ \A b \in Bytes : backup[b] # "load"
  /\ \A b \in Bytes : b >= LoadSize => video[b] \notin Registers /\ backup[b] \notin Registers
  /\ fw \in {"poll", "poll_load"} => LoadWhole
  /\ fw \in {"main", "inject"} => LoadWhole \/ LoadGone
  /\ fw \in {"listen", "file"} \/ (z80 = "save" /\ ~nmi) => LoadGone
  /\ fw = "main" /\ LoadWhole => ~put_back
  /\ fw = "listen" /\ nmi => \A b \in Bytes : video[b] = "save"
  /\ fw = "listen" /\ ~nmi => Stored
  /\ fw = "poll_load" => backup = Video("game")
  /\ z80 = "program" /\ fw \in {"main", "inject"} => OwnVideo

(* A save that can end in a snapshot of the program: the copy is of the *)
(* program's video memory.                                              *)
Sound ==
  \/ fw \in {"listen", "poll"} /\ z80 = "program"
  \/ fw = "listen" /\ ~nmi /\ z80 = "save" /\ stack = Expected(k)
  \/ fw = "listen" /\ ~nmi /\ z80 = "halt" /\ stack = Pushes
  \/ fw \in {"file", "poll"} /\ header = "program"

Kept ==
  /\ z80 = "program" => regs = "program"
  /\ z80 = "program" /\ fw \in {"main", "inject"} => (put_back => tail # "menu")
  /\ Sound => OwnCopy /\ (put_back => tail # "menu")

(* What good timing and calls that do not fail add. *)
Calm ==
  ~adverse =>
    /\ z80 # "lost"
    /\ fw = "main" => ~bus /\ ~nmi /\ z80 \in {"program", "menu"}
    /\ fw = "inject" => z80 = "program"
    /\ fw = "listen" /\ nmi => z80 = "program"
    /\ fw = "listen" /\ ~nmi => /\ stack = IF z80 = "halt" THEN Pushes ELSE Expected(k)
                                /\ (z80 = "halt" \/ k > 1) => sp_saved
    /\ fw = "file" => z80 = "halt"
    /\ fw = "poll" /\ nmi => z80 = "halt"
    /\ fw \in {"file", "poll", "poll_load"} => header = "program"

IInv == TypeOK /\ Control /\ Pushed /\ Memory /\ Kept /\ Calm

-----------------------------------------------------------------------------
(* What is pushed on the program's stack. *)

Word == {"PC", "AF", "AF'", "junk"}

LEMMA WordsType ==
  \A s \in Words : s \in Seq(Word) /\ Len(s) \in 0 .. 3
<1>1. <<>> \in Seq(Word) /\ Len(<<>>) \in 0 .. 3
  OBVIOUS
<1>2. <<"PC">> \in Seq(Word) /\ Len(<<"PC">>) \in 0 .. 3
  BY DEF Word
<1>3. <<"PC", "AF">> \in Seq(Word) /\ Len(<<"PC", "AF">>) \in 0 .. 3
  BY DEF Word
<1>4. Pushes \in Seq(Word) /\ Len(Pushes) \in 0 .. 3
  BY DEF Word, Pushes
<1>5. Junk \in Seq(Word) /\ Len(Junk) \in 0 .. 3
  BY DEF Word, Junk
<1> QED
  BY <1>1, <1>2, <1>3, <1>4, <1>5 DEF Words

LEMMA PushedFirst ==
  stack = <<>> => Push("PC") = <<"PC">>
<1> DEFINE s == Append(<<>>, "PC")
<1>1. <<>> \in Seq(Word) /\ "PC" \in Word
  BY DEF Word
<1>2. s \in Seq(Word) /\ Len(s) = 1 /\ s[1] = "PC"
  BY <1>1, AppendProperties
<1> HIDE DEF s
<1>3. s = <<"PC">>
  BY <1>2
<1>4. IsPrefix(<<"PC">>, Pushes)
  BY DEF IsPrefix, Pushes
<1> QED
  BY <1>3, <1>4 DEF s, Push

LEMMA PushedSecond ==
  stack = <<"PC">> => Push("AF") = <<"PC", "AF">>
<1> DEFINE s == Append(<<"PC">>, "AF")
<1>1. <<"PC">> \in Seq(Word) /\ "AF" \in Word
  BY DEF Word
<1>2. s \in Seq(Word) /\ Len(s) = 2 /\ s[1] = "PC" /\ s[2] = "AF"
  BY <1>1, AppendProperties
<1> HIDE DEF s
<1>3. s = <<"PC", "AF">>
  BY <1>2
<1>4. IsPrefix(<<"PC", "AF">>, Pushes)
  BY DEF IsPrefix, Pushes
<1> QED
  BY <1>3, <1>4 DEF s, Push

LEMMA PushedThird ==
  stack = <<"PC", "AF">> => Push("AF'") = Pushes
<1> DEFINE s == Append(<<"PC", "AF">>, "AF'")
<1>1. <<"PC", "AF">> \in Seq(Word) /\ "AF'" \in Word
  BY DEF Word
<1>2. s \in Seq(Word) /\ Len(s) = 3 /\ s[1] = "PC" /\ s[2] = "AF" /\ s[3] = "AF'"
  BY <1>1, AppendProperties
<1> HIDE DEF s
<1>3. s = Pushes
  BY <1>2 DEF Pushes
<1>4. IsPrefix(Pushes, Pushes)
  BY DEF IsPrefix, Pushes
<1> QED
  BY <1>3, <1>4 DEF s, Push

(* No word is in order after all three, or after one that was not. *)
LEMMA PushedLate ==
  ASSUME NEW w \in Word, stack \in {Pushes, Junk}
  PROVE  Push(w) = Junk
<1> DEFINE s == Append(stack, w)
<1>1. stack \in Seq(Word)
  BY WordsType DEF Words
<1>2. s \in Seq(Word) /\ Len(s) = Len(stack) + 1 /\ \A i \in 1 .. Len(stack) : s[i] = stack[i]
  BY <1>1, AppendProperties
<1> HIDE DEF s
<1>3. ~IsPrefix(s, Pushes)
  <2>1. CASE stack = Pushes
    BY <1>2, <2>1 DEF IsPrefix, Pushes
  <2>2. CASE stack = Junk
    <3>1. Len(s) = 2 /\ s[1] = "junk"
      BY <1>2, <2>2 DEF Junk
    <3> QED
      BY <1>2, <3>1 DEF IsPrefix, Pushes
  <2> QED
    BY <2>1, <2>2
<1> QED
  BY <1>3 DEF s, Push, Junk

(* A routine that was entered from a HALT pushes without a counter. *)
LEMMA PushedEarly ==
  stack = <<>> => Push("AF") = Junk
<1> DEFINE s == Append(<<>>, "AF")
<1>1. <<>> \in Seq(Word) /\ "AF" \in Word
  BY DEF Word
<1>2. s \in Seq(Word) /\ Len(s) = 1 /\ s[1] = "AF"
  BY <1>1, AppendProperties
<1> HIDE DEF s
<1>3. ~IsPrefix(s, Pushes)
  BY <1>2 DEF IsPrefix, Pushes
<1> QED
  BY <1>3 DEF s, Push, Junk

(* The counter of a routine that was broken off is out of order as well. *)
LEMMA PushedJunk ==
  ASSUME stack \in Words
  PROVE  Push("junk") = Junk
<1> DEFINE s == Append(stack, "junk")
<1>1. stack \in Seq(Word) /\ "junk" \in Word /\ Len(stack) \in 0 .. 3
  BY WordsType DEF Word
<1>2. s \in Seq(Word) /\ Len(s) = Len(stack) + 1 /\ s[Len(s)] = "junk"
  BY <1>1, AppendProperties
<1> HIDE DEF s
<1>3. ~IsPrefix(s, Pushes)
  BY <1>1, <1>2 DEF IsPrefix, Pushes
<1> QED
  BY <1>3 DEF s, Push, Junk

-----------------------------------------------------------------------------
(* Each action keeps the invariant. *)

Contents == {"game", "save", "load", "left"} \union Registers

LEMMA OverType ==
  ASSUME TypeOK, NEW what \in Contents, NEW where
  PROVE  Over(what, where) \in [Bytes -> Contents]
<1> QED
  BY DEF Over, TypeOK, Contents

LEMMA GameType == Video("game") \in [Bytes -> Contents]
<1> QED
  BY DEF Video, Contents

(* The strings that are not registers. *)
LEMMA NoRegister ==
  ASSUME NEW r \in Registers
  PROVE  r \notin {"", "game", "save", "load", "left"}
<1> QED
  BY DEF Registers

LEMMA LoadBytes == 0 .. LoadSize - 1 \subseteq Bytes /\ 0 \in Bytes /\ 0 \in 0 .. LoadSize - 1
<1> QED
  BY DEF LoadSize, Bytes, SaveSize

LEMMA Distinct ==
  /\ <<"PC">> # <<>> /\ <<"PC">> # Pushes /\ <<"PC">> # Junk
  /\ <<"PC", "AF">> # Pushes /\ <<"PC", "AF">> # Junk
  /\ Pushes # <<>> /\ Pushes # Junk /\ <<>> # Junk
<1> QED
  BY DEF Pushes, Junk

(* The SAVE routine is whole where it is fetched from: what it has stored *)
(* lies behind.                                                           *)
LEMMA SaveIntact ==
  ASSUME IInv, fw = "listen", ~nmi, z80 = "save"
  PROVE  Intact("save", SaveRoutine[k].from)
<1>1. k \in Steps /\ Stored /\ Done = 1 .. k - 1
  BY DEF IInv, Control, Memory, Done
<1> SUFFICES ASSUME NEW b \in SaveRoutine[k].from PROVE video[b] = "save"
  BY DEF Intact
<1>2. b \in Bytes /\ b >= 2 * k - 8
  BY <1>1, Instructions DEF Fits
<1>3. ASSUME NEW i \in 1 .. k - 1, b \in SaveRoutine[i].to PROVE FALSE
  <2>1. i \in Steps
    BY <1>1 DEF Steps
  <2>2. b <= 2 * i - 9
    BY <1>3, <2>1, Instructions DEF Fits
  <2> QED
    BY <1>1, <1>2, <2>2 DEF Steps, Bytes
<1> QED
  BY <1>1, <1>2, <1>3 DEF Stored

LEMMA NotBoth == ~(LoadWhole /\ LoadGone)
<1> QED
  BY LoadBytes DEF LoadWhole, LoadGone

(* What an action that writes no byte leaves as it is. *)
LEMMA SameBytes ==
  ASSUME UNCHANGED <<video, backup, put_back>>
  PROVE  /\ LoadWhole' <=> LoadWhole
         /\ LoadGone' <=> LoadGone
         /\ OwnVideo' <=> OwnVideo
         /\ OwnCopy' <=> OwnCopy
<1> QED
  BY DEF LoadWhole, LoadGone, OwnVideo, OwnCopy, OwnBytes

(* The LOAD routine is whole wherever it is fetched, or gone at once. *)
LEMMA LoadIntact ==
  ASSUME IInv, z80 = "load", ~bus, ~nmi
  PROVE  /\ fw \in {"main", "poll", "poll_load"}
         /\ Intact("load", LoadRoutine[k]) => LoadWhole
         /\ ~Intact("load", LoadRoutine[k]) => fw = "main"
<1>1. k \in Steps /\ fw \in {"main", "poll", "poll_load"}
  BY DEF IInv, TypeOK, Control
<1>2. LoadWhole => Intact("load", LoadRoutine[k])
  BY <1>1, Loads DEF Intact, LoadWhole
<1>3. LoadGone => ~Intact("load", LoadRoutine[k])
  <2>1. PICK b \in Bytes : b \in LoadRoutine[k]
    BY <1>1, Loads, LoadBytes
  <2> QED
    BY <2>1 DEF Intact, LoadGone
<1> QED
  BY <1>1, <1>2, <1>3 DEF IInv, Memory

(* A LOAD routine that stays leaves nothing of the registers. *)
LEMMA LoadLeaves ==
  ASSUME IInv, LoadWhole, ~put_back
  PROVE  OwnVideo
<1>1. ASSUME NEW b \in Bytes PROVE video[b] \notin Registers
  <2>1. b >= LoadSize \/ b \in 0 .. LoadSize - 1
    BY DEF Bytes, SaveSize, LoadSize
  <2> QED
    BY <2>1, NoRegister DEF IInv, Memory, LoadWhole
<1> QED
  BY <1>1 DEF OwnVideo, OwnBytes

LEMMA StartSaveInv == IInv /\ StartSave => IInv'
<1> SUFFICES ASSUME IInv, StartSave PROVE IInv'
  OBVIOUS
<1>1. TypeOK'
  BY DEF StartSave, IInv, TypeOK, z80Vars
<1>2. Control'
  BY DEF StartSave, IInv, Control, z80Vars
<1>3. Pushed'
  BY DEF StartSave, IInv, Pushed, z80Vars
<1>4. Memory'
  BY DEF StartSave, IInv, Memory, z80Vars, Control, Stored, Done,
     LoadWhole, LoadGone, OwnVideo, OwnBytes
<1>5. Kept'
  BY DEF StartSave, IInv, Kept, z80Vars, Sound, Control, Memory, OwnCopy, OwnBytes
<1>6. Calm'
  BY DEF StartSave, IInv, Calm, z80Vars, Control, Pushed, Memory
<1> QED
  BY <1>1, <1>2, <1>3, <1>4, <1>5, <1>6 DEF IInv

LEMMA InjectSaveInv == IInv /\ InjectSave => IInv'
<1> SUFFICES ASSUME IInv, InjectSave PROVE IInv'
  OBVIOUS
<1>1. TypeOK'
  <2>1. video' \in [Bytes -> Contents]
    BY OverType DEF InjectSave, IInv, Contents
  <2>2. backup' \in [Bytes -> Contents]
    BY DEF InjectSave, Copied, IInv, TypeOK, Contents
  <2> QED
    BY <2>1, <2>2 DEF InjectSave, IInv, TypeOK, z80Vars, Contents
<1>2. Control'
  BY DEF InjectSave, IInv, Control, z80Vars
<1>3. Pushed'
  BY DEF InjectSave, IInv, Pushed, z80Vars
<1>4. Memory'
  <2>1. \A b \in Bytes : video'[b] = "save"
    BY DEF InjectSave, Over
  <2>2. \A b \in Bytes : backup'[b] = IF video[b] = "load" THEN "left" ELSE video[b]
    BY DEF InjectSave, Copied
  <2>3. \A b \in Bytes : /\ backup'[b] # "load"
                         /\ b >= LoadSize => backup'[b] \notin Registers
                         /\ video'[b] \notin Registers
    BY <2>1, <2>2, NoRegister DEF IInv, Memory
  <2>4. LoadGone'
    BY <2>1 DEF LoadGone
  <2> QED
    BY <2>1, <2>3, <2>4 DEF InjectSave, IInv, Memory
<1>5. Kept'
  <2>1. ASSUME OwnVideo PROVE OwnCopy'
    <3>1. ASSUME NEW b \in Bytes PROVE backup'[b] \notin Registers
      BY <2>1, <3>1, NoRegister DEF InjectSave, Copied, OwnVideo, OwnBytes
    <3>2. ASSUME put_back PROVE backup' = Video("game")
      BY <2>1, <3>2 DEF InjectSave, Copied, OwnVideo, OwnBytes, Video
    <3> QED
      BY <3>1, <3>2 DEF OwnCopy, OwnBytes, InjectSave
  <2> QED
    BY <2>1 DEF InjectSave, IInv, Kept, Memory, Sound, z80Vars
<1>6. Calm'
  BY DEF InjectSave, IInv, Calm, z80Vars, Control, Pushed, Memory
<1> QED
  BY <1>1, <1>2, <1>3, <1>4, <1>5, <1>6 DEF IInv

LEMMA CaptureInv == IInv /\ Capture => IInv'
<1> SUFFICES ASSUME IInv, Capture PROVE IInv'
  OBVIOUS
<1>a. z80 \in {"save", "halt"} /\ ~nmi /\ Stored
  BY DEF Capture, IInv, Control, Memory
<1>1. TypeOK'
  <2>1. header' \in {"program", "junk"}
    BY DEF Capture, RegsRead
  <2> QED
    BY <2>1 DEF Capture, IInv, TypeOK, z80Vars
<1>2. Control'
  BY DEF Capture, IInv, Control, z80Vars
<1>3. Pushed'
  BY DEF Capture, IInv, Pushed, z80Vars
<1>4. Memory'
  BY DEF Capture, IInv, Memory, z80Vars, Control, Stored, Done,
     LoadWhole, LoadGone, OwnVideo, OwnBytes
<1>5. Kept'
  <2>1. ASSUME header' = "program" PROVE Sound
    <3>1. stack = Pushes /\ video[0] = "HL"
      <4>1. "HL" \in Registers /\ 0 \in RegAt["HL"]
        BY DEF Registers, RegAt
      <4> QED
        BY <2>1, <4>1 DEF Capture, RegsRead
    <3>2. CASE z80 = "save"
      <4>1. k \in Steps
        BY <3>2 DEF IInv, Control
      <4>2. k > 2
        <5>1. CASE k <= 2
          <6>1. \A i \in Done : 0 \notin SaveRoutine[i].to
            <7> SUFFICES ASSUME NEW i \in Done, 0 \in SaveRoutine[i].to PROVE FALSE
              OBVIOUS
            <7>1. i \in Steps /\ i <= 1
              BY <3>2, <4>1, <5>1 DEF Done, Steps
            <7> QED
              <8>1. 0 <= 2 * i - 9
                BY <7>1, Instructions DEF Fits
              <8> QED
                BY <7>1, <8>1 DEF Steps
          <6> QED
            BY <1>a, <3>1, <6>1, LoadBytes DEF Stored
        <5> QED
          BY <4>1, <5>1 DEF Steps
      <4>3. stack # Junk
        BY <3>1 DEF Pushes, Junk
      <4> QED
        BY <1>a, <3>2, <4>1, <4>2, <4>3 DEF Steps, IInv, Pushed, Sound, Capture
    <3>3. CASE z80 = "halt"
      BY <1>a, <3>1, <3>3 DEF Sound, Capture
    <3> QED
      BY <1>a, <3>2, <3>3
  <2>2. UNCHANGED <<video, backup, put_back>>
    BY DEF Capture
  <2> QED
    BY <1>a, <2>1, <2>2, SameBytes DEF Capture, IInv, Kept, Sound, z80Vars
<1>6. Calm'
  <2>1. ASSUME ~adverse PROVE header' = "program"
    <3>1. z80 = "halt" /\ sp_saved /\ stack = Pushes
      BY <1>a, <2>1 DEF Capture, IInv, Calm
    <3>2. ASSUME NEW r \in Registers, NEW b \in RegAt[r] PROVE video[b] = r
      BY <1>a, <3>1, <3>2, Reads DEF Stored, Done
    <3> QED
      BY <3>1, <3>2 DEF Capture, RegsRead
  <2> QED
    BY <1>a, <2>1 DEF Capture, IInv, Calm, z80Vars
<1> QED
  BY <1>1, <1>2, <1>3, <1>4, <1>5, <1>6 DEF IInv

LEMMA RequestFailsInv == IInv /\ RequestFails => IInv'
<1> SUFFICES ASSUME IInv, RequestFails PROVE IInv'
  OBVIOUS
<1>1. TypeOK'
  BY DEF RequestFails, IInv, TypeOK, z80Vars
<1>2. Control'
  BY DEF RequestFails, IInv, Control, z80Vars
<1>3. Pushed'
  BY DEF RequestFails, IInv, Pushed, z80Vars
<1>4. Memory'
  <2>1. UNCHANGED <<video, backup, put_back, z80>>
    BY DEF RequestFails, z80Vars
  <2> QED
    BY <2>1, SameBytes, NotBoth DEF RequestFails, IInv, Memory, Control, z80Vars
<1>5. Kept'
  BY DEF RequestFails, IInv, Kept, z80Vars, Sound, Control, Memory, OwnCopy, OwnBytes
<1>6. Calm'
  BY DEF RequestFails, IInv, Calm, z80Vars, Control, Pushed, Memory
<1> QED
  BY <1>1, <1>2, <1>3, <1>4, <1>5, <1>6 DEF IInv

LEMMA WriteFileInv == IInv /\ WriteFile => IInv'
<1> SUFFICES ASSUME IInv, WriteFile PROVE IInv'
  OBVIOUS
<1>1. TypeOK'
  <2>1. video' \in [Bytes -> Contents]
    BY OverType DEF WriteFile, IInv, Contents
  <2> QED
    BY <2>1 DEF WriteFile, IInv, TypeOK, z80Vars, Contents
<1>2. Control'
  BY DEF WriteFile, IInv, Control, z80Vars
<1>3. Pushed'
  BY DEF WriteFile, IInv, Pushed, z80Vars
<1>4. Memory'
  <2>1. \A b \in 0 .. LoadSize - 1 : video'[b] = "load"
    BY LoadBytes DEF WriteFile, Over
  <2>2. ASSUME NEW b \in Bytes, b >= LoadSize PROVE video'[b] = video[b]
    BY <2>2 DEF WriteFile, Over, LoadSize
  <2>3. LoadWhole'
    BY <2>1 DEF LoadWhole
  <2> QED
    BY <2>2, <2>3 DEF WriteFile, IInv, Memory, Control, z80Vars
<1>5. Kept'
  BY DEF WriteFile, IInv, Kept, z80Vars, Sound, Control, Memory, OwnCopy, OwnBytes
<1>6. Calm'
  BY DEF WriteFile, IInv, Calm, z80Vars, Control, Pushed, Memory
<1> QED
  BY <1>1, <1>2, <1>3, <1>4, <1>5, <1>6 DEF IInv

LEMMA CreateFailsInv == IInv /\ CreateFails => IInv'
<1> SUFFICES ASSUME IInv, CreateFails PROVE IInv'
  OBVIOUS
<1>1. TypeOK'
  BY DEF CreateFails, IInv, TypeOK, z80Vars
<1>2. Control'
  BY DEF CreateFails, IInv, Control, z80Vars
<1>3. Pushed'
  BY DEF CreateFails, IInv, Pushed, z80Vars
<1>4. Memory'
  <2>1. UNCHANGED <<video, backup, put_back, z80>>
    BY DEF CreateFails, z80Vars
  <2> QED
    BY <2>1, SameBytes, NotBoth DEF CreateFails, IInv, Memory, Control, z80Vars
<1>5. Kept'
  BY DEF CreateFails, IInv, Kept, z80Vars, Sound, Control, Memory, OwnCopy, OwnBytes
<1>6. Calm'
  BY DEF CreateFails, IInv, Calm, z80Vars, Control, Pushed, Memory
<1> QED
  BY <1>1, <1>2, <1>3, <1>4, <1>5, <1>6 DEF IInv

LEMMA PutBackInv == IInv /\ PutBack => IInv'
<1> SUFFICES ASSUME IInv, PutBack PROVE IInv'
  OBVIOUS
<1>1. TypeOK'
  BY DEF PutBack, IInv, TypeOK, z80Vars
<1>2. Control'
  BY DEF PutBack, IInv, Control, z80Vars
<1>3. Pushed'
  BY DEF PutBack, IInv, Pushed, z80Vars
<1>4. Memory'
  <2>1. video' = backup /\ UNCHANGED <<backup, put_back, z80, nmi>> /\ fw' = "main"
    BY DEF PutBack, z80Vars
  <2>2. LoadGone'
    BY <2>1 DEF IInv, Memory, LoadGone
  <2>3. ~LoadWhole'
    BY <2>2, LoadBytes DEF LoadGone, LoadWhole
  <2>4. OwnCopy => OwnVideo'
    BY <2>1 DEF OwnVideo, OwnCopy, OwnBytes
  <2>5. z80 = "program" => OwnCopy
    BY DEF PutBack, IInv, Kept, Sound
  <2> QED
    BY <2>1, <2>2, <2>3, <2>4, <2>5 DEF IInv, Memory
<1>5. Kept'
  BY DEF PutBack, IInv, Kept, z80Vars, Sound, Control, Memory, OwnCopy, OwnBytes
<1>6. Calm'
  BY DEF PutBack, IInv, Calm, z80Vars, Control, Pushed, Memory
<1> QED
  BY <1>1, <1>2, <1>3, <1>4, <1>5, <1>6 DEF IInv

LEMMA NotPutBackInv == IInv /\ NotPutBack => IInv'
<1> SUFFICES ASSUME IInv, NotPutBack PROVE IInv'
  OBVIOUS
<1>1. TypeOK'
  BY DEF NotPutBack, IInv, TypeOK, z80Vars
<1>2. Control'
  BY DEF NotPutBack, IInv, Control, z80Vars
<1>3. Pushed'
  BY DEF NotPutBack, IInv, Pushed, z80Vars
<1>4. Memory'
  <2>1. UNCHANGED <<video, backup, z80, k>> /\ ~put_back' /\ fw' = "main"
    BY DEF NotPutBack, z80Vars
  <2>2. LoadWhole /\ LoadWhole'
    BY <2>1 DEF NotPutBack, IInv, Memory, LoadWhole
  <2>3. OwnVideo'
    <3>1. \A b \in Bytes : video[b] \notin Registers
      <4> SUFFICES ASSUME NEW b \in Bytes PROVE video[b] \notin Registers
        OBVIOUS
      <4>1. b >= LoadSize \/ b \in 0 .. LoadSize - 1
        BY DEF Bytes, SaveSize, LoadSize
      <4> QED
        BY <2>2, <4>1, NoRegister DEF IInv, Memory, LoadWhole
    <3> QED
      BY <2>1, <3>1 DEF OwnVideo, OwnBytes
  <2>4. ~(z80' = "save" /\ ~nmi')
    BY <2>1 DEF NotPutBack, IInv, Control
  <2> QED
    BY <2>1, <2>2, <2>3, <2>4 DEF IInv, Memory
<1>5. Kept'
  BY DEF NotPutBack, IInv, Kept, z80Vars, Sound, Control, Memory, OwnCopy, OwnBytes
<1>6. Calm'
  BY DEF NotPutBack, IInv, Calm, z80Vars, Control, Pushed, Memory
<1> QED
  BY <1>1, <1>2, <1>3, <1>4, <1>5, <1>6 DEF IInv

LEMMA LoadInv == IInv /\ Load => IInv'
<1> SUFFICES ASSUME IInv, Load PROVE IInv'
  OBVIOUS
<1>1. TypeOK'
  <2>1. video' \in [Bytes -> Contents] /\ backup' \in [Bytes -> Contents]
    BY GameType DEF Load, Contents
  <2>2. stack' \in Seq({"PC", "AF", "AF'", "junk"})
    BY EmptySeq DEF Load
  <2> QED
    BY <2>1, <2>2 DEF Load, IInv, TypeOK, Contents
<1>2. Control'
  BY DEF Load, IInv, Control, z80Vars
<1>3. Pushed'
  BY DEF Load, IInv, Pushed, z80Vars
<1>4. Memory'
  <2>1. \A b \in Bytes : backup'[b] = "game"
    BY DEF Load, Video
  <2>2. \A b \in 0 .. LoadSize - 1 : video'[b] = "load"
    <3>1. \A b \in 0 .. LoadSize - 1 : b \in Bytes /\ b < LoadSize
      BY DEF LoadSize, Bytes, SaveSize
    <3> QED
      BY <3>1 DEF Load
  <2>3. \A b \in Bytes : video'[b] \in {"load", "game"}
    BY DEF Load
  <2>4. LoadWhole'
    BY <2>2 DEF LoadWhole
  <2>5. \A b \in Bytes : video'[b] \notin Registers /\ backup'[b] \notin Registers
    BY <2>1, <2>3, NoRegister
  <2> QED
    BY <2>1, <2>4, <2>5 DEF Load, IInv, Memory, Control
<1>5. Kept'
  BY DEF Load, IInv, Kept, z80Vars, Sound, Control, Memory, OwnCopy, OwnBytes
<1>6. Calm'
  BY DEF Load, IInv, Calm, z80Vars, Control, Pushed, Memory
<1> QED
  BY <1>1, <1>2, <1>3, <1>4, <1>5, <1>6 DEF IInv

LEMMA PutBackLoadedInv == IInv /\ PutBackLoaded => IInv'
<1> SUFFICES ASSUME IInv, PutBackLoaded PROVE IInv'
  OBVIOUS
<1>1. TypeOK'
  BY DEF PutBackLoaded, IInv, TypeOK, z80Vars
<1>2. Control'
  BY DEF PutBackLoaded, IInv, Control, z80Vars
<1>3. Pushed'
  BY DEF PutBackLoaded, IInv, Pushed, z80Vars
<1>4. Memory'
  <2>1. video' = backup /\ UNCHANGED <<backup, put_back, z80, nmi>> /\ fw' = "main"
    BY DEF PutBackLoaded
  <2>2. LoadGone' /\ backup = Video("game")
    BY <2>1 DEF PutBackLoaded, IInv, Memory, LoadGone
  <2>3. ~LoadWhole'
    BY <2>2, LoadBytes DEF LoadGone, LoadWhole
  <2>4. OwnVideo'
    <3>1. \A b \in Bytes : video'[b] = "game"
      BY <2>1, <2>2 DEF Video
    <3> QED
      BY <2>1, <2>2, <3>1, NoRegister DEF OwnVideo, OwnBytes
  <2> QED
    BY <2>1, <2>2, <2>3, <2>4 DEF IInv, Memory
<1>5. Kept'
  BY DEF PutBackLoaded, IInv, Kept, z80Vars, Sound, Control, Memory, OwnCopy, OwnBytes
<1>6. Calm'
  BY DEF PutBackLoaded, IInv, Calm, z80Vars, Control, Pushed, Memory
<1> QED
  BY <1>1, <1>2, <1>3, <1>4, <1>5, <1>6 DEF IInv

LEMMA AcceptNmiInv == IInv /\ AcceptNmi => IInv'
<1> SUFFICES ASSUME IInv, AcceptNmi PROVE IInv'
  OBVIOUS
<1>a. ~bus /\ nmi /\ ~nmi' /\ k' = 1 /\ fw \in {"main", "listen", "poll", "poll_load"}
  BY DEF AcceptNmi, IInv, TypeOK, Control
<1>b. /\ z80' \in {"save", "load", "lost"}
      /\ fw = "listen" => z80' = "save"
      /\ fw \in {"poll", "poll_load"} => z80' = "load"
      /\ z80' = "save" => LoadGone
  <2>1. fw = "listen" => video[0] = "save"
    BY <1>a, LoadBytes DEF IInv, Memory
  <2>2. LoadWhole => video[0] = "load"
    BY LoadBytes DEF LoadWhole
  <2> QED
    BY <1>a, <2>1, <2>2 DEF AcceptNmi, IInv, Memory
<1>c. stack' = IF z80 \in {"halt", "menu"} THEN stack
               ELSE IF z80 = "program" THEN <<"PC">> ELSE Junk
  BY PushedFirst, PushedJunk DEF AcceptNmi, IInv, Pushed
<1>d. UNCHANGED <<adverse, regs, fw, bus, en, video, backup, header, put_back>>
  BY DEF AcceptNmi
<1>1. TypeOK'
  <2>1. stack' \in Seq({"PC", "AF", "AF'", "junk"})
    BY <1>c, WordsType DEF IInv, TypeOK, Words, Word
  <2>2. k' \in 0 .. Len(SaveRoutine)
    BY <1>a, Lengths
  <2>3. sp_saved' \in BOOLEAN /\ tail' \in {"game", "halt", "menu"} /\ nmi' \in BOOLEAN
    BY DEF AcceptNmi, IInv, TypeOK
  <2> QED
    BY <1>b, <1>d, <2>1, <2>2, <2>3 DEF IInv, TypeOK
<1>2. Control'
  BY <1>a, <1>b, <1>d DEF IInv, Control, Steps
<1>3. Pushed'
  <2>1. stack' \in Words
    BY <1>c DEF IInv, Pushed, Words
  <2>2. ASSUME z80' = "save" PROVE stack' \in {Expected(1), Pushes, Junk, <<>>}
    BY <1>c DEF IInv, Pushed, Expected
  <2> QED
    BY <1>a, <1>b, <2>1, <2>2 DEF Pushed
<1>4. Memory'
  <2>1. fw = "listen" => Stored'
    <3> SUFFICES ASSUME fw = "listen" PROVE Stored'
      OBVIOUS
    <3>1. Done' = {}
      BY <1>a, <1>b DEF Done
    <3> QED
      BY <1>a, <1>d, <3>1 DEF IInv, Memory, Stored
  <2> QED
    BY <1>a, <1>b, <1>d, <2>1, SameBytes DEF IInv, Memory
<1>5. Kept'
  <2>1. tail' \in {tail, "halt", "menu"} /\ (tail' = "menu" => tail = "menu" \/ z80 = "menu")
    BY DEF AcceptNmi
  <2>2. ASSUME Sound' PROVE Sound /\ z80 # "menu"
    <3>1. CASE fw = "listen"
      <4>1. z80' = "save" /\ stack' = Expected(1)
        BY <1>a, <1>b, <1>d, <2>2, <3>1 DEF Sound
      <4>2. stack' = <<"PC">>
        BY <4>1 DEF Expected
      <4>3. z80 = "program"
        BY <1>c, <3>1, <4>2, Distinct DEF IInv, Control, Pushed
      <4> QED
        BY <3>1, <4>3 DEF Sound
    <3>2. CASE fw = "poll"
      BY <1>a, <1>b, <1>d, <2>2, <3>2 DEF Sound, IInv, Control
    <3> QED
      BY <1>a, <1>d, <2>2, <3>1, <3>2 DEF Sound
  <2> QED
    BY <1>b, <1>d, <2>1, <2>2, SameBytes DEF IInv, Kept
<1>6. Calm'
  <2> SUFFICES ASSUME ~adverse PROVE Calm'
    BY <1>d DEF Calm
  <2>1. fw # "main"
    BY <1>a DEF IInv, Calm
  <2>2. fw = "listen" => stack' = Expected(1)
    BY <1>a, <1>c DEF IInv, Calm, Expected
  <2> QED
    BY <1>a, <1>b, <1>d, <2>1, <2>2 DEF IInv, Calm
<1> QED
  BY <1>1, <1>2, <1>3, <1>4, <1>5, <1>6 DEF IInv

LEMMA SaveStepInv == IInv /\ SaveStep => IInv'
<1> SUFFICES ASSUME IInv, SaveStep PROVE IInv'
  OBVIOUS
<1>a. k \in Steps /\ ~bus /\ ~nmi /\ z80 = "save" /\ fw \in {"main", "listen"}
  BY DEF SaveStep, IInv, TypeOK, Control
<1>b. /\ z80' = IF k = 20 THEN "halt" ELSE "save"
      /\ k' = IF k = 20 THEN 0 ELSE k + 1
      /\ (k = 1 \/ sp_saved => sp_saved') /\ regs' \in {regs, "junk"}
  BY DEF SaveStep, HaltAt, SpStore
<1>c. UNCHANGED <<adverse, tail, fw, bus, nmi, backup, header, put_back>>
  BY DEF SaveStep
<1>d. /\ \A b \in SaveRoutine[k].to : b \in Bytes /\ video'[b] = SaveRoutine[k].reg
      /\ \A b \in Bytes : b \notin SaveRoutine[k].to => video'[b] = video[b]
  BY <1>a, Instructions DEF SaveStep, Over, Fits
<1>e. \/ stack = Expected(k) /\ stack' = Expected(k + 1)
      \/ stack = Junk /\ stack' = Junk
      \/ stack \in {Pushes, <<>>} /\ k = 1 /\ stack' = stack
      \/ stack \in {Pushes, <<>>} /\ k = 2 /\ stack' = Junk
  <2>1. stack' = IF k = 2 THEN Push("AF") ELSE IF k = 4 THEN Push("AF'") ELSE stack
    BY DEF SaveStep, PushAt
  <2>2. stack \in {Pushes, Junk} => Push("AF") = Junk /\ Push("AF'") = Junk
    BY PushedLate DEF Word
  <2>3. CASE stack = Expected(k)
    <3>1. CASE k = 2
      BY <2>1, <2>3, <3>1, PushedSecond DEF Expected
    <3>2. CASE k = 4
      BY <2>1, <2>3, <3>2, PushedThird DEF Expected
    <3>3. CASE k \notin {2, 4}
      BY <1>a, <2>1, <2>3, <3>3 DEF Expected, Steps
    <3> QED
      BY <3>1, <3>2, <3>3
  <2>4. CASE stack = Junk
    BY <2>1, <2>2, <2>4
  <2>5. CASE stack \in {Pushes, <<>>} /\ k <= 2
    BY <1>a, <2>1, <2>2, <2>5, PushedEarly DEF Steps
  <2> QED
    BY <1>a, <2>3, <2>4, <2>5 DEF IInv, Pushed
<1>1. TypeOK'
  <2>1. video' \in [Bytes -> Contents]
    <3>1. SaveRoutine[k].reg \in Registers \/ SaveRoutine[k].to = {}
      BY <1>a, Instructions DEF Fits
    <3>2. \A b \in Bytes : video[b] \in Contents
      BY DEF IInv, TypeOK, Contents
    <3>3. \A b \in Bytes : video'[b] \in Contents
      BY <1>d, <3>1, <3>2 DEF Contents
    <3>4. video' = [b \in Bytes |-> video'[b]]
      BY DEF SaveStep, Over
    <3> QED
      BY <3>3, <3>4
  <2>2. stack' \in Seq({"PC", "AF", "AF'", "junk"})
    BY <1>e, WordsType DEF Words, Word, Expected
  <2>3. k' \in 0 .. Len(SaveRoutine)
    BY <1>a, <1>b, Lengths DEF Steps
  <2>4. en' \in BOOLEAN /\ sp_saved' \in BOOLEAN
    BY DEF SaveStep, IInv, TypeOK
  <2>5. z80' \in {"save", "halt"} /\ regs' \in {"program", "junk", "none"}
    BY <1>b DEF IInv, TypeOK
  <2> QED
    BY <1>c, <2>1, <2>2, <2>3, <2>4, <2>5 DEF IInv, TypeOK, Contents
<1>2. Control'
  BY <1>a, <1>b, <1>c DEF IInv, Control, Steps
<1>3. Pushed'
  <2>1. stack' \in Words
    BY <1>e DEF Words, Expected
  <2>2. CASE k = 20
    BY <1>b, <1>e, <2>1, <2>2 DEF Pushed, Expected
  <2>3. CASE k # 20
    BY <1>a, <1>b, <1>e, <2>1, <2>3 DEF Pushed, Steps
  <2> QED
    BY <2>2, <2>3
<1>4. Memory'
  <2>1. Done' = 1 .. k
    <3>1. CASE k = 20
      BY <1>b, <3>1 DEF Done, Steps
    <3>2. CASE k # 20
      <4>1. z80' = "save" /\ k' - 1 = k
        BY <1>a, <1>b, <3>2 DEF Steps
      <4> QED
        BY <4>1 DEF Done
    <3> QED
      BY <3>1, <3>2
  <2>2. ASSUME Stored PROVE Stored'
    <3>1. Done = 1 .. k - 1
      BY <1>a DEF Done
    <3>2. ASSUME NEW i \in 1 .. k, NEW b \in SaveRoutine[i].to
          PROVE  video'[b] = SaveRoutine[i].reg
      <4>1. CASE i = k
        BY <1>d, <4>1
      <4>2. CASE i # k
        <5>1. i \in Steps /\ i \in 1 .. k - 1
          BY <1>a, <4>2 DEF Steps
        <5>2. b \in Bytes /\ StoredBy(b) = i
          BY <5>1, Instructions DEF Fits
        <5>3. b \notin SaveRoutine[k].to
          BY <1>a, <4>2, <5>2, Instructions DEF Fits
        <5> QED
          BY <1>d, <2>2, <3>1, <5>1, <5>2, <5>3 DEF Stored
      <4> QED
        BY <4>1, <4>2
    <3>3. ASSUME NEW b \in Bytes, \A i \in 1 .. k : b \notin SaveRoutine[i].to
          PROVE  video'[b] = "save"
      <4>1. k \in 1 .. k /\ \A i \in 1 .. k - 1 : i \in 1 .. k
        BY <1>a DEF Steps
      <4> QED
        BY <1>d, <2>2, <3>1, <3>3, <4>1 DEF Stored
    <3> QED
      BY <2>1, <3>2, <3>3 DEF Stored
  <2>3. LoadGone => LoadGone'
    <3>1. SaveRoutine[k].to = {} \/ SaveRoutine[k].reg # "load"
      BY <1>a, Instructions, NoRegister DEF Fits
    <3>2. \A b \in Bytes : video[b] # "load" => video'[b] # "load"
      BY <1>d, <3>1
    <3> QED
      BY <3>2 DEF LoadGone
  <2>4. LoadGone' /\ ~LoadWhole'
    BY <1>a, <2>3, LoadBytes DEF IInv, Memory, LoadGone, LoadWhole
  <2>5. ASSUME NEW b \in Bytes, b >= LoadSize PROVE video'[b] = video[b]
    <3>1. ASSUME b \in SaveRoutine[k].to PROVE FALSE
      <4>1. b <= 2 * k - 9
        BY <1>a, <3>1, Instructions DEF Fits
      <4> QED
        BY <1>a, <2>5, <4>1 DEF LoadSize, Steps, Bytes, SaveSize
    <3> QED
      BY <1>d, <3>1
  <2> QED
    BY <1>a, <1>b, <1>c, <2>2, <2>4, <2>5 DEF IInv, Memory
<1>5. Kept'
  <2>1. ASSUME Sound' PROVE Sound
    <3>1. fw = "listen" /\ stack' = Expected(k + 1)
      BY <1>a, <1>b, <1>c, <2>1 DEF Sound, Expected
    <3>2. stack = Expected(k)
      BY <1>a, <1>e, <3>1, Distinct DEF Expected, Steps
    <3> QED
      BY <1>a, <3>1, <3>2 DEF Sound
  <2> QED
    BY <1>a, <1>b, <1>c, <2>1 DEF IInv, Kept, OwnCopy, OwnBytes
<1>6. Calm'
  <2> SUFFICES ASSUME ~adverse PROVE Calm'
    BY <1>c DEF Calm
  <2>1. fw = "listen" /\ stack = Expected(k) /\ (k > 1 => sp_saved)
    BY <1>a DEF IInv, Calm
  <2>2. stack' = Expected(k + 1)
    BY <1>a, <1>e, <2>1, Distinct DEF Expected, Steps
  <2>3. sp_saved'
    BY <1>a, <1>b, <2>1 DEF Steps
  <2>4. k = 20 => stack' = Pushes
    BY <2>2 DEF Expected
  <2> QED
    BY <1>a, <1>b, <1>c, <2>1, <2>2, <2>3, <2>4 DEF Calm
<1> QED
  BY <1>1, <1>2, <1>3, <1>4, <1>5, <1>6 DEF IInv

LEMMA LoadStepInv == IInv /\ LoadStep => IInv'
<1> SUFFICES ASSUME IInv, LoadStep PROVE IInv'
  OBVIOUS
<1>a. /\ k \in Steps /\ ~bus /\ ~nmi /\ z80 = "load"
      /\ fw \in {"main", "poll", "poll_load"} /\ LoadWhole
  BY LoadIntact DEF LoadStep, IInv, Control
<1>b. /\ UNCHANGED <<adverse, tail, fw, bus, nmi, en, video, backup, header, put_back>>
      /\ regs' = header
  BY DEF LoadStep
<1>c. \/ k' = k + 1 /\ k # 20 /\ UNCHANGED <<z80, stack, sp_saved>>
      \/ /\ k' = 0 /\ stack' = <<>> /\ sp_saved' = FALSE
         /\ z80' = IF header = "program" THEN "program" ELSE "lost"
  BY Lengths DEF LoadStep
<1>1. TypeOK'
  <2>1. stack' \in Seq({"PC", "AF", "AF'", "junk"})
    BY <1>c, EmptySeq DEF IInv, TypeOK
  <2>2. k' \in 0 .. Len(SaveRoutine)
    BY <1>a, <1>c, Lengths DEF Steps
  <2>3. z80' \in {"load", "program", "lost"} /\ sp_saved' \in BOOLEAN
    BY <1>a, <1>c DEF IInv, TypeOK
  <2> QED
    BY <1>b, <2>1, <2>2, <2>3 DEF IInv, TypeOK
<1>2. Control'
  BY <1>a, <1>b, <1>c DEF IInv, Control, Steps
<1>3. Pushed'
  BY <1>a, <1>c DEF IInv, Pushed, Words
<1>4. Memory'
  <2>1. fw = "main" => OwnVideo /\ ~put_back
    BY <1>a, LoadLeaves DEF IInv, Memory
  <2> QED
    BY <1>a, <1>b, <1>c, <2>1, SameBytes DEF IInv, Memory
<1>5. Kept'
  <2>1. ASSUME Sound' PROVE Sound
    BY <1>a, <1>b, <1>c, <2>1 DEF Sound
  <2> QED
    BY <1>a, <1>b, <1>c, <2>1, SameBytes DEF IInv, Kept, Memory
<1>6. Calm'
  BY <1>a, <1>b, <1>c DEF IInv, Calm
<1> QED
  BY <1>1, <1>2, <1>3, <1>4, <1>5, <1>6 DEF IInv

LEMMA RunAstrayInv == IInv /\ RunAstray => IInv'
<1> SUFFICES ASSUME IInv, RunAstray PROVE IInv'
  OBVIOUS
<1>a. ~bus /\ ~nmi /\ z80' = "lost" /\ k' = 0 /\ z80 \in {"save", "load"} /\ fw = "main"
  BY SaveIntact, LoadIntact DEF RunAstray, IInv, TypeOK, Control
<1>b. UNCHANGED <<adverse, regs, sp_saved, stack, tail, fw, bus, nmi, en, video,
                 backup, header, put_back>>
  BY DEF RunAstray
<1>1. TypeOK'
  <2>1. k' \in 0 .. Len(SaveRoutine)
    BY <1>a, Lengths
  <2> QED
    BY <1>a, <1>b, <2>1 DEF IInv, TypeOK
<1>2. Control'
  BY <1>a, <1>b DEF IInv, Control
<1>3. Pushed'
  BY <1>a, <1>b DEF IInv, Pushed
<1>4. Memory'
  BY <1>a, <1>b, SameBytes DEF IInv, Memory
<1>5. Kept'
  BY <1>a, <1>b, SameBytes DEF IInv, Kept, Sound
<1>6. Calm'
  BY <1>a, <1>b DEF IInv, Calm
<1> QED
  BY <1>1, <1>2, <1>3, <1>4, <1>5, <1>6 DEF IInv

LEMMA BackToMenuInv == IInv /\ BackToMenu => IInv'
<1> SUFFICES ASSUME IInv, BackToMenu PROVE IInv'
  OBVIOUS
<1>1. TypeOK'
  BY DEF BackToMenu, IInv, TypeOK, z80Vars
<1>2. Control'
  BY DEF BackToMenu, IInv, Control, z80Vars
<1>3. Pushed'
  BY DEF BackToMenu, IInv, Pushed, z80Vars
<1>4. Memory'
  BY DEF BackToMenu, IInv, Memory, z80Vars, Control, Stored, Done,
     LoadWhole, LoadGone, OwnVideo, OwnBytes
<1>5. Kept'
  BY DEF BackToMenu, IInv, Kept, z80Vars, Sound, Control, Memory, OwnCopy, OwnBytes
<1>6. Calm'
  BY DEF BackToMenu, IInv, Calm, z80Vars, Control, Pushed, Memory
<1> QED
  BY <1>1, <1>2, <1>3, <1>4, <1>5, <1>6 DEF IInv

-----------------------------------------------------------------------------
(* The theorems. *)

LEMMA InitInv == Init => IInv
<1> SUFFICES ASSUME Init PROVE IInv
  OBVIOUS
<1>1. TypeOK
  <2>1. Video("game") \in [Bytes -> {"game", "save", "load", "left"} \union Registers]
    BY GameType DEF Contents
  <2>2. adverse \in BOOLEAN
    BY SurroundingsAssumption DEF Init
  <2>3. stack \in Seq({"PC", "AF", "AF'", "junk"})
    BY EmptySeq DEF Init
  <2>4. k \in 0 .. Len(SaveRoutine)
    BY Lengths DEF Init
  <2> QED
    BY <2>1, <2>2, <2>3, <2>4 DEF Init, TypeOK
<1>2. Control /\ Pushed /\ Kept /\ Calm
  BY DEF Init, Control, Pushed, Words, Kept, Sound, Calm
<1>3. Memory
  <2>1. \A b \in Bytes : video[b] = "game" /\ backup[b] = "game"
    BY DEF Init, Video
  <2>2. LoadGone /\ ~LoadWhole
    BY <2>1, LoadBytes DEF LoadGone, LoadWhole
  <2>3. OwnVideo
    BY <2>1, NoRegister DEF Init, OwnVideo, OwnBytes
  <2> QED
    BY <2>1, <2>2, <2>3, NoRegister DEF Init, Memory
<1> QED
  BY <1>1, <1>2, <1>3 DEF IInv

LEMMA NextInv == IInv /\ [Next]_vars => IInv'
<1> SUFFICES ASSUME IInv, [Next]_vars PROVE IInv'
  OBVIOUS
<1>1. CASE Next
  BY <1>1, StartSaveInv, InjectSaveInv, CaptureInv, RequestFailsInv, WriteFileInv,
     CreateFailsInv, PutBackInv, NotPutBackInv, LoadInv, PutBackLoadedInv,
     AcceptNmiInv, SaveStepInv, LoadStepInv, RunAstrayInv, BackToMenuInv DEF Next, Firmware, Z80
<1>2. CASE UNCHANGED vars
  <2>1. TypeOK' /\ Control' /\ Pushed' /\ Calm'
    BY <1>2 DEF IInv, TypeOK, Control, Pushed, Calm, vars, z80Vars
  <2>2. Memory' /\ Kept'
    BY <1>2, SameBytes DEF IInv, Memory, Kept, Sound, Stored, Done, vars, z80Vars
  <2> QED
    BY <2>1, <2>2 DEF IInv
<1> QED
  BY <1>1, <1>2

(***************************************************************************)
(* Wherever the program, the firmware and the NMI meet, with whatever      *)
(* errors: what the Z80 has pushed, what the SAVE routine has stored and   *)
(* whose memory the firmware's copy is fit the step each of them is at;    *)
(* the LOAD routine is in the video memory whole or not at all, and stays  *)
(* there only after a put-back that did not reach the memory.              *)
(***************************************************************************)
THEOREM SaveStateInvariant == Spec => []IInv
<1> QED
  BY InitInv, NextInv, PTL DEF Spec

(* All variables keep their types, and no routine runs past its last *)
(* instruction.                                                      *)
THEOREM TypeCorrect == Spec => []TypeOK
<1>1. IInv => TypeOK
  BY DEF IInv
<1> QED
  BY <1>1, SaveStateInvariant, PTL

(***************************************************************************)
(* With the timing the firmware counts on, the Z80 never fetches what is   *)
(* not its routine: the SAVE routine's stores over itself stay behind the  *)
(* instruction being fetched, and the LOAD routine is through before the   *)
(* video memory is put back.                                               *)
(***************************************************************************)
THEOREM StaysOnCourse == Spec => []NeverLost
<1>1. IInv => NeverLost
  BY DEF IInv, Calm, NeverLost
<1> QED
  BY <1>1, SaveStateInvariant, PTL

(* With that timing the header written is that of the program stopped: *)
(* all its registers are where generate_regs_save_state looks for them. *)
THEOREM SnapshotIsProgram == Spec => []HeaderIsProgram
<1>1. IInv => HeaderIsProgram
  BY DEF IInv, Calm, HeaderIsProgram
<1> QED
  BY <1>1, SaveStateInvariant, PTL

(***************************************************************************)
(* With any timing and any error, the put-backs that are skipped or reach  *)
(* nothing included, a program that goes on once the firmware is done has  *)
(* its registers and its stack, and nothing the SAVE routine stored on its *)
(* screen; all of the video memory under the routines is its own as long   *)
(* as no put-back has failed since it was loaded.                          *)
(***************************************************************************)
THEOREM GoesOnUnchanged == Spec => []ResumesUnchanged
<1>1. IInv => ResumesUnchanged
  BY DEF IInv, Kept, Pushed, Memory, OwnVideo, OwnBytes, ResumesUnchanged
<1> QED
  BY <1>1, SaveStateInvariant, PTL

=============================================================================
