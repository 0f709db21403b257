---------------------------- MODULE SdLoader_proofs ----------------------------
(***************************************************************************)
(* Proofs about the SD loader: what the listings of the card compute for   *)
(* every directory, and the safety properties of SdLoader for every card,  *)
(* page size and set of faults, with a user who waits for the firmware.    *)
(***************************************************************************)
EXTENDS SdLoader, SequenceTheorems, WellFoundedInduction, TLAPS

-----------------------------------------------------------------------------
(* Induction over the naturals, as a fact about sets. *)

(* Every set of naturals that is not empty has a least element. *)
LEMMA LeastNatural ==
  \A T : T \subseteq Nat /\ T # {} => \E x \in T : \A y \in T : x <= y
<1>1. IsWellFoundedOn(OpToRel(<, Nat), Nat)
  BY NatLessThanWellFounded
<1>2. \A T : T \subseteq Nat /\ T # {} =>
        \E x \in T : \A y \in T : <<y, x>> \notin OpToRel(<, Nat)
  BY <1>1, WFMin
<1>3. \A x, y \in Nat : y < x => <<y, x>> \in OpToRel(<, Nat)
  BY DEF OpToRel
<1> SUFFICES ASSUME NEW T, T \subseteq Nat, T # {}
             PROVE  \E x \in T : \A y \in T : x <= y
  OBVIOUS
<1>4. PICK x \in T : \A y \in T : <<y, x>> \notin OpToRel(<, Nat)
  BY <1>2
<1>5. \A y \in T : x \in Nat /\ y \in Nat /\ ~(y < x)
  BY <1>3, <1>4
<1> QED
  BY <1>5

(* A set that has 0, and n + 1 when it has n, has all naturals. *)
LEMMA SetInduction ==
  ASSUME NEW S, 0 \in S, \A n \in Nat : n \in S => n + 1 \in S
  PROVE  \A n \in Nat : n \in S
<1> SUFFICES ASSUME Nat \ S # {} PROVE FALSE
  OBVIOUS
<1>1. PICK x \in Nat \ S : \A y \in Nat \ S : x <= y
  <2>1. Nat \ S \subseteq Nat
    OBVIOUS
  <2> QED
    BY <2>1, LeastNatural
<1>2. x # 0 /\ x - 1 \in Nat /\ ~(x <= x - 1)
  BY <1>1
<1>3. x - 1 \in S
  BY <1>1, <1>2
<1> QED
  BY <1>1, <1>2, <1>3

-----------------------------------------------------------------------------
(* Supported: the recursive function that walks a directory. *)

(* What the walk makes of entry n, s being what it had before. *)
Walk(d, first, s, n) ==
  IF n < first THEN <<>>
  ELSE IF is_supported_file(d[n]) THEN Append(s, d[n]) ELSE s

(* g is the walk up to entry n. *)
WalkTo(d, first, g, n) ==
  \A i \in 0 .. n : g[i] = Walk(d, first, g[i - 1], i)

LEMMA WalkIsOne ==
  ASSUME NEW d, NEW first \in Nat \ {0}, NEW g, NEW h, NEW n \in Nat, NEW m \in Nat,
         WalkTo(d, first, g, n), WalkTo(d, first, h, m)
  PROVE  \A i \in Nat : i <= n /\ i <= m => g[i] = h[i]
<1> DEFINE S == {i \in Nat : i <= n /\ i <= m => g[i] = h[i]}
<1>1. 0 \in S
  BY DEF WalkTo, Walk
<1>2. ASSUME NEW i \in Nat, i \in S PROVE i + 1 \in S
  BY <1>2 DEF WalkTo, Walk
<1>3. \A i \in Nat : i \in S
  <2> HIDE DEF S
  <2> QED BY <1>1, <1>2, SetInduction
<1> QED
  BY <1>3

LEMMA WalkExists ==
  ASSUME NEW d, NEW first \in Nat \ {0}
  PROVE  \A n \in Nat : \E g : WalkTo(d, first, g, n)
<1> DEFINE S == {n \in Nat : \E g : WalkTo(d, first, g, n)}
<1>1. 0 \in S
  <2>1. WalkTo(d, first, [i \in {0} |-> <<>>], 0)
    BY DEF WalkTo, Walk
  <2> QED
    BY <2>1
<1>2. ASSUME NEW n \in Nat, n \in S PROVE n + 1 \in S
  <2>1. PICK g : WalkTo(d, first, g, n)
    BY <1>2
  <2> DEFINE h == [i \in 0 .. n + 1 |->
                     IF i = n + 1 THEN Walk(d, first, g[n], n + 1) ELSE g[i]]
  <2>2. ASSUME NEW i \in 0 .. n + 1 PROVE h[i] = Walk(d, first, h[i - 1], i)
    <3>1. CASE i = n + 1
      BY <3>1
    <3>2. CASE i = 0
      BY <2>1, <3>2 DEF WalkTo, Walk
    <3>3. CASE i \in 1 .. n
      BY <2>1, <3>3 DEF WalkTo
    <3> QED
      BY <3>1, <3>2, <3>3
  <2>3. WalkTo(d, first, h, n + 1)
    BY <2>2 DEF WalkTo
  <2> QED
    BY <2>3
<1>3. \A n \in Nat : n \in S
  <2> HIDE DEF S
  <2> QED BY <1>1, <1>2, SetInduction
<1> QED
  BY <1>3

(* The function that Supported defines is there: it walks all entries. *)
LEMMA SupportedWalks ==
  ASSUME NEW d, NEW first \in Nat \ {0}
  PROVE  \A n \in Nat :
           Supported(d, first, n) = Walk(d, first, Supported(d, first, n - 1), n)
<1> DEFINE Fun(g) == g = [n \in Nat |-> IF n < first THEN <<>>
                            ELSE IF is_supported_file(d[n]) THEN Append(g[n - 1], d[n])
                            ELSE g[n - 1]]
<1>1. \E g : Fun(g)
  <2> DEFINE W(n) == CHOOSE g : WalkTo(d, first, g, n)
             G == [n \in Nat |-> W(n)[n]]
  <2>1. \A n \in Nat : WalkTo(d, first, W(n), n)
    BY WalkExists
  <2>2. ASSUME NEW n \in Nat PROVE G[n] = Walk(d, first, G[n - 1], n)
    <3>1. CASE n = 0
      BY <2>1, <3>1 DEF WalkTo, Walk
    <3>2. CASE n > 0
      <4>1. n - 1 \in Nat /\ WalkTo(d, first, W(n), n) /\ WalkTo(d, first, W(n - 1), n - 1)
        BY <2>1, <3>2
      <4>2. W(n)[n - 1] = W(n - 1)[n - 1]
        <5> HIDE DEF W
        <5> QED BY <4>1, WalkIsOne
      <4>3. W(n)[n] = Walk(d, first, W(n)[n - 1], n)
        BY <4>1 DEF WalkTo
      <4> QED
        BY <4>1, <4>2, <4>3
    <3> QED
      BY <3>1, <3>2
  <2>3. Fun(G)
    <3> HIDE DEF W
    <3> QED BY <2>2 DEF Walk
  <2> QED
    BY <2>3
<1> DEFINE F == CHOOSE g : Fun(g)
<1>2. Fun(F)
  BY <1>1
<1>3. \A n : Supported(d, first, n) = F[n]
  BY DEF Supported
<1>4. \A n \in Nat : F[n] = Walk(d, first, F[n - 1], n)
  <2> HIDE DEF F
  <2> QED BY <1>2 DEF Walk
<1> QED
  BY <1>3, <1>4

(* One entry more. *)
LEMMA SupportedStep ==
  ASSUME NEW d, NEW first \in Nat \ {0}, NEW n \in Nat
  PROVE  /\ n < first => Supported(d, first, n) = <<>>
         /\ n >= first /\ is_supported_file(d[n]) =>
              Supported(d, first, n) = Append(Supported(d, first, n - 1), d[n])
         /\ n >= first /\ ~is_supported_file(d[n]) =>
              Supported(d, first, n) = Supported(d, first, n - 1)
BY SupportedWalks DEF Walk

(* The supported files of a directory. *)
Files(d) == {f \in ToSet(d) : is_supported_file(f)}

LEMMA FilesAreNames ==
  ASSUME NEW d \in Seq(FileName)
  PROVE  /\ Files(d) \subseteq FileName
         /\ \A n \in 1 .. Len(d) : is_supported_file(d[n]) => d[n] \in Files(d)
BY DEF Files, ToSet

(* What is listed are supported files of the directory, and no more of them   *)
(* than entries were read.                                                    *)
LEMMA SupportedType ==
  ASSUME NEW d \in Seq(FileName), NEW first \in Nat \ {0}
  PROVE  \A n \in Nat : n <= Len(d) =>
           /\ Supported(d, first, n) \in Seq(Files(d))
           /\ Len(Supported(d, first, n)) <= n
<1> DEFINE S == {n \in Nat : n <= Len(d) => /\ Supported(d, first, n) \in Seq(Files(d))
                                            /\ Len(Supported(d, first, n)) <= n}
<1>0. <<>> \in Seq(Files(d)) /\ Len(<<>>) = 0
  BY EmptySeq
<1>1. 0 \in S
  <2>1. Supported(d, first, 0) = <<>>
    BY SupportedStep
  <2>2. Supported(d, first, 0) \in Seq(Files(d)) /\ Len(Supported(d, first, 0)) = 0
    BY <1>0, <2>1, Zenon
  <2> QED
    BY <2>2
<1>2. ASSUME NEW n \in Nat, n \in S PROVE n + 1 \in S
  <2> SUFFICES ASSUME n + 1 <= Len(d)
               PROVE  /\ Supported(d, first, n + 1) \in Seq(Files(d))
                      /\ Len(Supported(d, first, n + 1)) <= n + 1
    OBVIOUS
  <2>1. Supported(d, first, n) \in Seq(Files(d)) /\ Len(Supported(d, first, n)) <= n
    BY <1>2
  <2>2. n + 1 \in Nat /\ (n + 1) - 1 = n /\ n + 1 \in 1 .. Len(d)
    OBVIOUS
  <2> HIDE DEF S
  <2>3. CASE n + 1 < first
    <3>1. Supported(d, first, n + 1) = <<>>
      BY <2>2, <2>3, SupportedStep
    <3>2. Supported(d, first, n + 1) \in Seq(Files(d)) /\ Len(Supported(d, first, n + 1)) = 0
      BY <1>0, <3>1, Zenon
    <3> QED
      BY <3>2
  <2>4. CASE n + 1 >= first /\ is_supported_file(d[n + 1])
    <3>1. Supported(d, first, n + 1) = Append(Supported(d, first, n), d[n + 1])
      BY <2>2, <2>4, SupportedStep
    <3>2. d[n + 1] \in Files(d)
      BY <2>2, <2>4, FilesAreNames
    <3>3. /\ Append(Supported(d, first, n), d[n + 1]) \in Seq(Files(d))
          /\ Len(Append(Supported(d, first, n), d[n + 1])) = Len(Supported(d, first, n)) + 1
      BY <2>1, <3>2, AppendProperties
    <3>4. Len(Supported(d, first, n)) \in Nat
      BY <2>1
    <3> QED
      BY <2>1, <3>1, <3>3, <3>4
  <2>5. CASE n + 1 >= first /\ ~is_supported_file(d[n + 1])
    <3>1. Supported(d, first, n + 1) = Supported(d, first, n)
      BY <2>2, <2>5, SupportedStep
    <3> QED
      BY <2>1, <3>1
  <2> QED
    BY <2>3, <2>4, <2>5
<1>3. \A n \in Nat : n \in S
  <2> HIDE DEF S
  <2> QED BY <1>1, <1>2, SetInduction
<1> QED
  BY <1>3

(* Every supported file that was read is listed. *)
LEMMA SupportedHasAll ==
  ASSUME NEW d \in Seq(FileName)
  PROVE  \A n \in Nat : n <= Len(d) =>
           \A i \in 1 .. n : is_supported_file(d[i]) =>
             \E k \in 1 .. Len(Supported(d, 1, n)) : Supported(d, 1, n)[k] = d[i]
<1> DEFINE All(n) == \A i \in 1 .. n : is_supported_file(d[i]) =>
                       \E k \in 1 .. Len(Supported(d, 1, n)) : Supported(d, 1, n)[k] = d[i]
           S == {n \in Nat : n <= Len(d) => All(n)}
<1>1. 0 \in S
  OBVIOUS
<1>2. ASSUME NEW n \in Nat, n \in S PROVE n + 1 \in S
  <2> SUFFICES ASSUME n + 1 <= Len(d) PROVE All(n + 1)
    OBVIOUS
  <2>1. All(n) /\ n <= Len(d)
    BY <1>2
  <2>2. n + 1 \in Nat /\ (n + 1) - 1 = n /\ n + 1 \in 1 .. Len(d)
    OBVIOUS
  <2>3. Supported(d, 1, n) \in Seq(Files(d))
    BY <2>1, SupportedType
  <2>4. CASE is_supported_file(d[n + 1])
    <3>1. Supported(d, 1, n + 1) = Append(Supported(d, 1, n), d[n + 1])
      BY <2>2, <2>4, SupportedStep
    <3>2. d[n + 1] \in Files(d)
      BY <2>2, <2>4, FilesAreNames
    <3>3. /\ Len(Supported(d, 1, n + 1)) = Len(Supported(d, 1, n)) + 1
          /\ \A k \in 1 .. Len(Supported(d, 1, n)) :
               Supported(d, 1, n + 1)[k] = Supported(d, 1, n)[k]
          /\ Supported(d, 1, n + 1)[Len(Supported(d, 1, n)) + 1] = d[n + 1]
      BY <2>3, <3>1, <3>2, AppendProperties
    <3>4. Len(Supported(d, 1, n)) \in Nat
      BY <2>3
    <3> HIDE DEF S
    <3> SUFFICES ASSUME NEW i \in 1 .. n + 1, is_supported_file(d[i])
                 PROVE  \E k \in 1 .. Len(Supported(d, 1, n + 1)) :
                          Supported(d, 1, n + 1)[k] = d[i]
      OBVIOUS
    <3>5. CASE i = n + 1
      BY <3>3, <3>4, <3>5
    <3>6. CASE i \in 1 .. n
      BY <2>1, <3>3, <3>4, <3>6
    <3> QED
      BY <3>5, <3>6
  <2>5. CASE ~is_supported_file(d[n + 1])
    <3>1. Supported(d, 1, n + 1) = Supported(d, 1, n)
      BY <2>2, <2>5, SupportedStep
    <3> QED
      BY <2>1, <2>5, <3>1
  <2> QED
    BY <2>4, <2>5
<1>3. \A n \in Nat : n \in S
  <2> HIDE DEF S
  <2> QED BY <1>1, <1>2, SetInduction
<1> QED
  BY <1>3

(* A listing of the whole is that of its beginning and that of the rest. *)
LEMMA SupportedSplit ==
  ASSUME NEW d \in Seq(FileName), NEW m \in 0 .. Len(d)
  PROVE  \A n \in Nat : m <= n /\ n <= Len(d) =>
           Supported(d, 1, n) = Supported(d, 1, m) \o Supported(d, m + 1, n)
<1> DEFINE T == Files(d)
           A(n) == Supported(d, 1, n)
           B(n) == Supported(d, m + 1, n)
           S == {n \in Nat : m <= n /\ n <= Len(d) => A(n) = A(m) \o B(n)}
<1>0. m \in Nat /\ m + 1 \in Nat \ {0} /\ 1 \in Nat \ {0}
  OBVIOUS
<1>1. \A n \in Nat : n <= Len(d) => A(n) \in Seq(T) /\ B(n) \in Seq(T)
  BY <1>0, SupportedType
<1>2. B(m) = <<>> /\ A(m) = A(m) \o B(m)
  <2>1. B(m) = <<>>
    BY <1>0, SupportedStep
  <2> QED
    BY <1>0, <1>1, <2>1, ConcatEmptySeq
<1>3. 0 \in S
  BY <1>2
<1>4. ASSUME NEW n \in Nat, n \in S PROVE n + 1 \in S
  <2> SUFFICES ASSUME m <= n + 1, n + 1 <= Len(d)
               PROVE  A(n + 1) = A(m) \o B(n + 1)
    OBVIOUS
  <2>1. CASE m = n + 1
    BY <1>2, <2>1
  <2>2. CASE m <= n
    <3>1. A(n) = A(m) \o B(n)
      BY <1>4, <2>2
    <3>2. A(m) \in Seq(T) /\ B(n) \in Seq(T) /\ A(n) \in Seq(T)
      BY <1>0, <1>1
    <3>3. n + 1 \in Nat /\ (n + 1) - 1 = n /\ n + 1 \in 1 .. Len(d) /\ n + 1 >= m + 1
      BY <2>2
    <3>4. CASE is_supported_file(d[n + 1])
      <4>1. A(n + 1) = Append(A(n), d[n + 1])
        BY <1>0, <3>3, <3>4, SupportedStep
      <4>5. B(n + 1) = Append(B(n), d[n + 1])
        BY <1>0, <3>3, <3>4, SupportedStep
      <4>2. d[n + 1] \in T
        BY <3>3, <3>4, FilesAreNames
      <4>3. /\ Append(A(n), d[n + 1]) = A(n) \o <<d[n + 1]>>
            /\ Append(B(n), d[n + 1]) = B(n) \o <<d[n + 1]>>
            /\ <<d[n + 1]>> \in Seq(T)
        <5> HIDE DEF A, B, T
        <5> QED BY <3>2, <4>2, AppendIsConcat
      <4>4. (A(m) \o B(n)) \o <<d[n + 1]>> = A(m) \o (B(n) \o <<d[n + 1]>>)
        <5> DEFINE e == <<d[n + 1]>>
        <5>1. A(m) \in Seq(T) /\ B(n) \in Seq(T) /\ e \in Seq(T)
          BY <3>2, <4>3
        <5> HIDE DEF A, B, T, e
        <5>2. (A(m) \o B(n)) \o e = A(m) \o (B(n) \o e)
          BY <5>1, ConcatAssociative
        <5> QED
          BY <5>2 DEF e
      <4> HIDE DEF A, B, T
      <4> QED
        BY <3>1, <4>1, <4>5, <4>3, <4>4
    <3>5. CASE ~is_supported_file(d[n + 1])
      <4>1. A(n + 1) = A(n) /\ B(n + 1) = B(n)
        BY <1>0, <3>3, <3>5, SupportedStep
      <4> QED
        BY <3>1, <4>1
    <3> QED
      BY <3>4, <3>5
  <2> QED
    BY <2>1, <2>2
<1>5. \A n \in Nat : n \in S
  <2> HIDE DEF S
  <2> QED BY <1>3, <1>4, SetInduction
<1> QED
  BY <1>5

(* A file more at the end of the directory changes nothing before it. *)
LEMMA SupportedGrows ==
  ASSUME NEW d \in Seq(FileName), NEW x \in FileName
  PROVE  Len(Supported(Append(d, x), 1, Len(Append(d, x)))) >= Len(Supported(d, 1, Len(d)))
<1> DEFINE e == Append(d, x)
           S == {n \in Nat : n <= Len(d) => Supported(e, 1, n) = Supported(d, 1, n)}
<1>0. /\ e \in Seq(FileName) /\ Len(e) = Len(d) + 1 /\ Len(d) \in Nat
      /\ \A i \in 1 .. Len(d) : e[i] = d[i]
  BY AppendProperties
<1>1. 0 \in S
  <2>1. Supported(e, 1, 0) = <<>> /\ Supported(d, 1, 0) = <<>>
    <3> HIDE DEF e
    <3>1. 1 \in Nat \ {0} /\ 0 \in Nat /\ 0 < 1
      OBVIOUS
    <3> QED BY <3>1, SupportedStep
  <2> QED
    BY <2>1
<1>2. ASSUME NEW n \in Nat, n \in S PROVE n + 1 \in S
  <2> SUFFICES ASSUME n + 1 <= Len(d) PROVE Supported(e, 1, n + 1) = Supported(d, 1, n + 1)
    OBVIOUS
  <2>1. n + 1 \in Nat /\ (n + 1) - 1 = n /\ n + 1 >= 1 /\ 1 \in Nat \ {0}
        /\ e[n + 1] = d[n + 1] /\ Supported(e, 1, n) = Supported(d, 1, n)
    BY <1>0, <1>2
  <2> HIDE DEF e, S
  <2>2. CASE is_supported_file(d[n + 1])
    <3>1. Supported(e, 1, n + 1) = Append(Supported(e, 1, n), e[n + 1])
      BY <2>1, <2>2, SupportedStep
    <3>2. Supported(d, 1, n + 1) = Append(Supported(d, 1, n), d[n + 1])
      BY <2>1, <2>2, SupportedStep
    <3> QED
      BY <2>1, <3>1, <3>2
  <2>3. CASE ~is_supported_file(d[n + 1])
    <3>1. Supported(e, 1, n + 1) = Supported(e, 1, n)
      BY <2>1, <2>3, SupportedStep
    <3>2. Supported(d, 1, n + 1) = Supported(d, 1, n)
      BY <2>1, <2>3, SupportedStep
    <3> QED
      BY <2>1, <3>1, <3>2
  <2> QED
    BY <2>2, <2>3
<1>3. \A n \in Nat : n \in S
  <2> HIDE DEF S
  <2> QED BY <1>1, <1>2, SetInduction
<1>4. Supported(e, 1, Len(d)) = Supported(d, 1, Len(d))
  BY <1>0, <1>3
<1>5. Supported(e, 1, Len(e)) = Supported(e, 1, Len(d)) \o Supported(e, Len(d) + 1, Len(e))
  <2> HIDE DEF e, S
  <2>1. Len(d) \in 0 .. Len(e) /\ Len(e) \in Nat /\ Len(d) <= Len(e)
    BY <1>0
  <2>2. \A n \in Nat : Len(d) <= n /\ n <= Len(e) =>
          Supported(e, 1, n) = Supported(e, 1, Len(d)) \o Supported(e, Len(d) + 1, n)
    <3> DEFINE m == Len(d)
    <3>1. m \in 0 .. Len(e)
      BY <2>1
    <3> HIDE DEF m
    <3>2. \A n \in Nat : m <= n /\ n <= Len(e) =>
            Supported(e, 1, n) = Supported(e, 1, m) \o Supported(e, m + 1, n)
      BY <1>0, <3>1, SupportedSplit
    <3> QED
      BY <3>2 DEF m
  <2> QED
    BY <2>1, <2>2
<1>6. /\ Supported(e, 1, Len(d)) \in Seq(Files(e))
      /\ Supported(e, Len(d) + 1, Len(e)) \in Seq(Files(e))
  <2> HIDE DEF e, S
  <2> QED BY <1>0, SupportedType
<1>7. Len(Supported(e, 1, Len(e))) = Len(Supported(e, 1, Len(d)))
                                     + Len(Supported(e, Len(d) + 1, Len(e)))
  <2> HIDE DEF e, S
  <2> QED BY <1>5, <1>6, ConcatProperties
<1>8. Len(Supported(e, 1, Len(d))) \in Nat /\ Len(Supported(e, Len(d) + 1, Len(e))) \in Nat
  <2> HIDE DEF e, S
  <2> QED BY <1>6
<1> HIDE DEF e, S
<1> QED
  BY <1>4, <1>7, <1>8 DEF e

-----------------------------------------------------------------------------
(* Least and greatest numbers. *)

LEMMA MinOfNaturals ==
  ASSUME NEW T, T \subseteq Nat, T # {}
  PROVE  Min(T) \in T /\ \A y \in T : Min(T) <= y
<1>1. \E x \in T : \A y \in T : x <= y
  BY LeastNatural
<1> QED
  BY <1>1 DEF Min

LEMMA MinOfTwo ==
  ASSUME NEW a \in Int, NEW b \in Int
  PROVE  Min({a, b}) = IF a <= b THEN a ELSE b
<1>1. \E x \in {a, b} : \A y \in {a, b} : x <= y
  OBVIOUS
<1>2. Min({a, b}) \in {a, b} /\ \A y \in {a, b} : Min({a, b}) <= y
  BY <1>1 DEF Min
<1> QED
  BY <1>2

(* Integers that are the values of a function of 1 .. n have a greatest. *)
LEMMA GreatestOfImage ==
  \A n \in Nat : \A T : \A g :
    T \subseteq Int /\ T # {} /\ (\A y \in T : \E i \in 1 .. n : y = g[i])
      => \E x \in T : \A y \in T : x >= y
<1> DEFINE Has(T) == \E x \in T : \A y \in T : x >= y
           Covered(T, g, n) == T \subseteq Int /\ T # {} /\ \A y \in T : \E i \in 1 .. n : y = g[i]
           S == {n \in Nat : \A T : \A g : Covered(T, g, n) => Has(T)}
<1>1. 0 \in S
  OBVIOUS
<1>2. ASSUME NEW n \in Nat, n \in S PROVE n + 1 \in S
  <2>1. n + 1 \in Nat
    OBVIOUS
  <2> SUFFICES ASSUME NEW T, NEW g, Covered(T, g, n + 1) PROVE Has(T)
    BY <2>1, Zenon
  <2> DEFINE U == {y \in T : \E i \in 1 .. n : y = g[i]}
  <2>2. CASE U = {}
    <3>1. \A y \in T : y = g[n + 1] /\ y \in Int
      BY <2>2
    <3>2. PICK x \in T : TRUE
      OBVIOUS
    <3>3. \A y \in T : x >= y
      BY <3>1
    <3> QED
      BY <3>3
  <2>3. CASE U # {}
    <3>1. Covered(U, g, n)
      BY <2>3
    <3>2. PICK x \in U : \A y \in U : x >= y
      BY <1>2, <3>1
    <3>3. \A y \in T : y \in U \/ y = g[n + 1]
      OBVIOUS
    <3>4. x \in T /\ T \subseteq Int
      BY <3>2
    <3> HIDE DEF U, S
    <3>5. CASE g[n + 1] \in T /\ g[n + 1] > x
      <4>1. ASSUME NEW y \in T PROVE g[n + 1] >= y
        <5>1. y \in Int /\ x \in Int /\ g[n + 1] \in Int
          BY <3>4, <3>5
        <5>2. x >= y \/ y = g[n + 1]
          BY <3>2, <3>3
        <5> QED
          BY <3>5, <5>1, <5>2
      <4> QED
        BY <3>5, <4>1
    <3>6. CASE ~(g[n + 1] \in T /\ g[n + 1] > x)
      <4>1. \A y \in T : x >= y
        BY <3>2, <3>3, <3>4, <3>6
      <4> QED
        BY <3>4, <4>1
    <3> QED
      BY <3>5, <3>6
  <2> QED
    BY <2>2, <2>3
<1>3. \A n \in Nat : n \in S
  <2> HIDE DEF S
  <2> QED BY <1>1, <1>2, SetInduction
<1> QED
  BY <1>3

-----------------------------------------------------------------------------
(* list_files_of_page *)

\* A list of names: those it counts are names.
IsList(l) ==
  /\ l \in [size : 0 .. FilesPerPage, slots : [Slots -> Slot]]
  /\ \A s \in Slots : s < l.size => l.slots[s] \in FileName

\* How many supported files the directory has.
Count(d) == Len(Supported(d, 1, Len(d)))

LEMMA Sizes ==
  FilesPerPage \in Nat /\ FilesPerPage > 0 /\ 0 \in Slots
BY CardSizesAssumption DEF Slots

LEMMA CountType ==
  ASSUME NEW d \in Seq(FileName)
  PROVE  /\ Supported(d, 1, Len(d)) \in Seq(Files(d))
         /\ Count(d) \in Nat /\ Count(d) <= Len(d) /\ Len(d) \in Nat
<1>1. Len(d) \in Nat /\ Len(d) <= Len(d) /\ 1 \in Nat \ {0}
  OBVIOUS
<1>2. Supported(d, 1, Len(d)) \in Seq(Files(d)) /\ Len(Supported(d, 1, Len(d))) <= Len(d)
  BY <1>1, SupportedType
<1>3. Len(Supported(d, 1, Len(d))) \in Nat
  BY <1>2
<1> QED
  BY <1>1, <1>2, <1>3 DEF Count

(* The first loop stops at an entry, or behind the last. *)
LEMMA SkipType ==
  ASSUME NEW d \in Seq(FileName), d # <<>>, NEW p \in Nat, NEW fail \in Nat
  PROVE  SkipTo(d, p, fail) \in 1 .. Len(d) + 1
<1>1. Len(d) \in Nat /\ Len(d) >= 1
  BY EmptySeq
<1>2. CASE p = 0
  BY <1>1, <1>2 DEF SkipTo
<1>3. CASE p # 0
  <2> DEFINE T == {i \in 2 .. Len(d) + 1 :
                     \/ i = fail \/ i = Len(d) + 1
                     \/ Len(Supported(d, 1, i - 1)) = p * FilesPerPage}
  <2>1. T \subseteq Nat /\ T # {} /\ T \subseteq 1 .. Len(d) + 1
    BY <1>1
  <2>2. SkipTo(d, p, fail) = Min(T)
    BY <1>3 DEF SkipTo
  <2> HIDE DEF T
  <2> QED
    BY <2>1, <2>2, MinOfNaturals
<1> QED
  BY <1>2, <1>3

(* When there are files behind the pages before p, the first loop finds the   *)
(* end of these.                                                              *)
LEMMA SkipFinds ==
  ASSUME NEW d \in Seq(FileName), NEW p \in Nat, p > 0, p * FilesPerPage < Count(d)
  PROVE  /\ SkipTo(d, p, 0) \in 2 .. Len(d)
         /\ Len(Supported(d, 1, SkipTo(d, p, 0) - 1)) = p * FilesPerPage
<1> DEFINE c == p * FilesPerPage
           L(n) == Len(Supported(d, 1, n))
<1>1. c \in Nat /\ c > 0
  BY Sizes
<1>2. Len(d) \in Nat /\ c < L(Len(d))
  BY CountType DEF Count
<1>3. \A n \in Nat : n <= Len(d) => L(n) \in Nat /\ Supported(d, 1, n) \in Seq(Files(d))
  <2>1. \A n \in Nat : n <= Len(d) => Supported(d, 1, n) \in Seq(Files(d))
    BY SupportedType
  <2> QED
    BY <2>1
<1>4. \A n \in Nat : n > 0 /\ n <= Len(d) => L(n) = L(n - 1) \/ L(n) = L(n - 1) + 1
  <2> SUFFICES ASSUME NEW n \in Nat, n > 0, n <= Len(d)
               PROVE  L(n) = L(n - 1) \/ L(n) = L(n - 1) + 1
    OBVIOUS
  <2>1. n - 1 \in Nat /\ n - 1 <= Len(d) /\ n \in 1 .. Len(d) /\ n >= 1 /\ 1 \in Nat \ {0}
    OBVIOUS
  <2>2. Supported(d, 1, n - 1) \in Seq(Files(d))
    BY <1>3, <2>1
  <2>3. CASE is_supported_file(d[n])
    <3>1. d[n] \in Files(d) /\ Supported(d, 1, n) = Append(Supported(d, 1, n - 1), d[n])
      BY <2>1, <2>3, SupportedStep, FilesAreNames
    <3>2. Len(Append(Supported(d, 1, n - 1), d[n])) = Len(Supported(d, 1, n - 1)) + 1
      BY <2>2, <3>1, AppendProperties
    <3> QED
      BY <3>1, <3>2
  <2>4. CASE ~is_supported_file(d[n])
    BY <2>1, <2>4, SupportedStep
  <2> QED
    BY <2>3, <2>4
<1>5. L(0) = 0
  <2>1. Supported(d, 1, 0) = <<>>
    <3>1. 1 \in Nat \ {0} /\ 0 \in Nat /\ 0 < 1
      OBVIOUS
    <3> QED BY <3>1, SupportedStep
  <2> QED
    BY <2>1, EmptySeq, Zenon
<1> DEFINE Over == {n \in Nat : n <= Len(d) /\ L(n) > c}
<1>6. PICK m \in Over : \A y \in Over : m <= y
  <2>1. Over \subseteq Nat /\ Len(d) \in Over
    BY <1>2
  <2> HIDE DEF Over
  <2> QED
    BY <2>1, LeastNatural
<1> HIDE DEF L, c
<1>7. m \in Nat /\ m <= Len(d) /\ m # 0 /\ m - 1 \in Nat /\ L(m - 1) = c
  <2>1. m \in Nat /\ m <= Len(d) /\ L(m) > c
    BY <1>6
  <2>2. m # 0
    BY <1>1, <1>5, <2>1
  <2>3. m - 1 \in Nat /\ m - 1 <= Len(d) /\ ~(m <= m - 1)
    BY <2>1, <2>2
  <2>4. ~(L(m - 1) > c)
    BY <1>6, <2>3
  <2>5. L(m - 1) \in Nat /\ L(m) \in Nat
    BY <1>3, <2>1, <2>3
  <2> QED
    BY <1>1, <1>4, <2>1, <2>2, <2>3, <2>4, <2>5
<1>8. m \in 2 .. Len(d) + 1 /\ m <= Len(d)
  <2>1. m # 1
    BY <1>1, <1>5, <1>7
  <2> QED
    BY <1>2, <1>7, <2>1
<1> DEFINE T == {i \in 2 .. Len(d) + 1 :
                   \/ i = 0 \/ i = Len(d) + 1
                   \/ L(i - 1) = c}
<1>9. SkipTo(d, p, 0) = Min(T)
  BY DEF SkipTo, L, c
<1>10. Min(T) \in T /\ Min(T) <= m
  <2>1. T \subseteq Nat /\ m \in T
    BY <1>2, <1>7, <1>8
  <2> HIDE DEF T
  <2> QED
    BY <2>1, MinOfNaturals
<1>11. Min(T) \in 2 .. Len(d) /\ L(Min(T) - 1) = c
  BY <1>2, <1>8, <1>10
<1> QED
  BY <1>9, <1>11 DEF L, c

LEMMA FillType ==
  ASSUME NEW l, IsList(l), NEW names \in Seq(FileName)
  PROVE  /\ Fill(l.slots, names) \in [Slots -> Slot]
         /\ \A s \in Slots : s < l.size \/ s < Len(names) =>
              Fill(l.slots, names)[s] \in FileName
<1> SUFFICES ASSUME NEW s \in Slots
             PROVE  /\ Fill(l.slots, names)[s] \in Slot
                    /\ s < l.size \/ s < Len(names) => Fill(l.slots, names)[s] \in FileName
  BY DEF Fill
<1>1. s \in Nat /\ Len(names) \in Nat
  BY Sizes DEF Slots
<1>2. Fill(l.slots, names)[s] = IF s < Len(names) THEN names[s + 1] ELSE l.slots[s]
  BY DEF Fill
<1>3. CASE s < Len(names)
  <2>1. names[s + 1] \in FileName
    BY <1>1, <1>3
  <2> QED
    BY <1>2, <1>3, <2>1 DEF Slot
<1>4. CASE ~(s < Len(names))
  BY <1>2, <1>4 DEF IsList
<1> QED
  BY <1>3, <1>4

LEMMA CollectType ==
  ASSUME NEW l, IsList(l), NEW d \in Seq(FileName), NEW i \in 1 .. Len(d), NEW fail \in Nat
  PROVE  IsList(Collect(l, d, i, fail))
<1> DEFINE last   == IF fail > i THEN Min({fail - 1, Len(d)}) ELSE Len(d)
           names  == Supported(d, i, last)
           failed == fail \in i + 1 .. Len(d) + 1 /\ Len(names) < FilesPerPage
           n      == Min({Len(names), FilesPerPage})
           r      == Collect(l, d, i, fail)
<1>0. Len(d) \in Nat /\ i \in Nat \ {0}
  OBVIOUS
<1>1. last \in Nat /\ last <= Len(d)
  <2>1. CASE fail > i
    <3>1. fail - 1 \in Nat
      BY <1>0, <2>1
    <3>2. last = IF fail - 1 <= Len(d) THEN fail - 1 ELSE Len(d)
      BY <1>0, <2>1, <3>1, MinOfTwo
    <3> QED
      BY <1>0, <3>1, <3>2
  <2>2. CASE ~(fail > i)
    BY <1>0, <2>2
  <2> QED
    BY <2>1, <2>2
<1>2. names \in Seq(FileName) /\ Len(names) \in Nat
  <2> HIDE DEF last
  <2>1. names \in Seq(Files(d))
    BY <1>0, <1>1, SupportedType
  <2>2. Files(d) \subseteq FileName
    BY FilesAreNames
  <2>3. names \in Seq(FileName)
    <3> HIDE DEF names
    <3> QED BY <2>1, <2>2, SeqMonotonic
  <2> QED
    BY <2>3
<1>3. r = [size |-> IF failed THEN l.size ELSE n, slots |-> Fill(l.slots, names)]
  BY DEF Collect
<1> HIDE DEF names, last
<1>4. n = IF Len(names) <= FilesPerPage THEN Len(names) ELSE FilesPerPage
  BY <1>2, Sizes, MinOfTwo
<1>5. n \in 0 .. FilesPerPage /\ n <= Len(names)
  BY <1>2, <1>4, Sizes
<1> HIDE DEF n, failed
<1>6. l.size \in 0 .. FilesPerPage
  BY DEF IsList
<1>7. /\ Fill(l.slots, names) \in [Slots -> Slot]
      /\ \A s \in Slots : s < l.size \/ s < Len(names) => Fill(l.slots, names)[s] \in FileName
  BY <1>2, FillType
<1>8. \A s \in Slots : s \in Nat
  BY Sizes DEF Slots
<1> HIDE DEF r
<1>9. r \in [size : 0 .. FilesPerPage, slots : [Slots -> Slot]]
  BY <1>3, <1>5, <1>6, <1>7
<1>10. ASSUME NEW s \in Slots, s < r.size PROVE r.slots[s] \in FileName
  BY <1>2, <1>3, <1>5, <1>6, <1>7, <1>8, <1>10
<1> QED
  BY <1>9, <1>10 DEF IsList, r

(* Whatever call fails, the list stays a list of names. *)
LEMMA ListType ==
  ASSUME NEW l, IsList(l), NEW d \in Seq(FileName), NEW p \in Nat, NEW fail \in Nat
  PROVE  IsList(list_files_of_page(l, d, p, fail))
<1> DEFINE i == SkipTo(d, p, fail)
<1>1. IsList([l EXCEPT !.size = 0])
  BY Sizes DEF IsList, Slots
<1>2. CASE fail = 1 \/ d = <<>> \/ i > Len(d) \/ (p > 0 /\ i = fail)
  BY <1>1, <1>2 DEF list_files_of_page
<1>3. CASE ~(fail = 1 \/ d = <<>> \/ i > Len(d) \/ (p > 0 /\ i = fail))
  <2>1. list_files_of_page(l, d, p, fail) = Collect(l, d, i, fail)
    BY <1>3 DEF list_files_of_page
  <2>2. i \in 1 .. Len(d) + 1 /\ ~(i > Len(d)) /\ Len(d) \in Nat
    BY <1>3, SkipType
  <2>3. i \in 1 .. Len(d)
    BY <2>2
  <2> QED
    BY <2>1, <2>3, CollectType
<1> QED
  BY <1>2, <1>3

\* Page p begins at or before the end of the files.
PageBegins(d, p) == p = 0 \/ p * FilesPerPage < Count(d)

LEMMA Products ==
  ASSUME NEW p \in Nat
  PROVE  /\ p * FilesPerPage \in Nat
         /\ (p + 1) * FilesPerPage = p * FilesPerPage + FilesPerPage
         /\ p = 0 => p * FilesPerPage = 0
BY Sizes

(* A page has the files that follow those of the pages before. *)
LEMMA PageIs ==
  ASSUME NEW d \in Seq(FileName), NEW p \in Nat, PageBegins(d, p)
  PROVE  /\ PageFiles(d, p) \in Seq(FileName)
         /\ Len(PageFiles(d, p)) = IF Count(d) - p * FilesPerPage <= FilesPerPage
                                   THEN Count(d) - p * FilesPerPage ELSE FilesPerPage
         /\ \A k \in 1 .. Len(PageFiles(d, p)) :
              PageFiles(d, p)[k] = Supported(d, 1, Len(d))[p * FilesPerPage + k]
<1> DEFINE c     == p * FilesPerPage
           files == Supported(d, 1, Len(d))
           last  == Min({(p + 1) * FilesPerPage, Len(files)})
<1>1. c \in Nat /\ (p + 1) * FilesPerPage = c + FilesPerPage /\ c <= Count(d)
  <2>1. c \in Nat /\ (p + 1) * FilesPerPage = c + FilesPerPage /\ (p = 0 => c = 0)
    BY Products
  <2>2. Count(d) \in Nat
    BY CountType
  <2>3. p = 0 \/ c < Count(d)
    BY DEF PageBegins
  <2> HIDE DEF c
  <2> QED
    BY <2>1, <2>2, <2>3
<1>2. files \in Seq(FileName) /\ Len(files) = Count(d) /\ Count(d) \in Nat
  <2>1. files \in Seq(Files(d)) /\ Files(d) \subseteq FileName
    BY CountType, FilesAreNames
  <2>2. files \in Seq(FileName)
    <3> HIDE DEF files
    <3> QED BY <2>1, SeqMonotonic
  <2> QED
    BY <2>2, CountType DEF Count
<1>3. PageFiles(d, p) = SubSeq(files, c + 1, last)
  BY DEF PageFiles
<1> HIDE DEF c, files
<1>4. last = IF c + FilesPerPage <= Count(d) THEN c + FilesPerPage ELSE Count(d)
  BY <1>1, <1>2, Sizes, MinOfTwo
<1> HIDE DEF last
<1>5. last \in Nat /\ c <= last /\ last <= Len(files) /\ c + 1 \in Int
  BY <1>1, <1>2, <1>4, Sizes
<1>6. \A i \in c + 1 .. last : files[i] \in FileName
  BY <1>1, <1>2, <1>5
<1>7. /\ SubSeq(files, c + 1, last) \in Seq(FileName)
      /\ Len(SubSeq(files, c + 1, last)) = IF c + 1 <= last THEN last - (c + 1) + 1 ELSE 0
      /\ \A k \in 1 .. last - (c + 1) + 1 :
           SubSeq(files, c + 1, last)[k] = files[(c + 1) + k - 1]
  BY <1>5, <1>6, SubSeqProperties
<1>8. Len(PageFiles(d, p)) = last - c /\ last - (c + 1) + 1 = last - c
  BY <1>1, <1>3, <1>5, <1>7
<1>9. ASSUME NEW k \in 1 .. Len(PageFiles(d, p)) PROVE PageFiles(d, p)[k] = files[c + k]
  BY <1>1, <1>3, <1>5, <1>7, <1>8
<1>10. last - c = IF Count(d) - c <= FilesPerPage THEN Count(d) - c ELSE FilesPerPage
  BY <1>1, <1>2, <1>4, Sizes
<1> QED
  BY <1>3, <1>7, <1>8, <1>9, <1>10 DEF c, files

(* The two loops of list_files_of_page, when no call fails, collect the page. *)
THEOREM ListIsPage ==
  ASSUME NEW l, IsList(l), NEW d \in Seq(FileName), NEW p \in Nat, PageBegins(d, p)
  PROVE  LET r == list_files_of_page(l, d, p, 0)
         IN  /\ r.size = Len(PageFiles(d, p))
             /\ \A k \in 1 .. r.size : r.slots[k - 1] = PageFiles(d, p)[k]
<1> DEFINE c     == p * FilesPerPage
           files == Supported(d, 1, Len(d))
           i     == SkipTo(d, p, 0)
           names == Supported(d, i, Len(d))
           n     == Min({Len(names), FilesPerPage})
           r     == list_files_of_page(l, d, p, 0)
<1>0. /\ c \in Nat /\ (p + 1) * FilesPerPage = c + FilesPerPage
      /\ p = 0 => c = 0
  BY Products
<1>1. /\ files \in Seq(Files(d)) /\ Len(files) = Count(d)
      /\ Count(d) \in Nat /\ Count(d) <= Len(d) /\ Len(d) \in Nat
  BY CountType DEF Count
<1>2. CASE d = <<>>
  <2>1. r.size = 0
    BY <1>2 DEF list_files_of_page, IsList
  <2>2. Count(d) = 0
    <3>1. Len(d) = 0
      BY <1>2, EmptySeq, Zenon
    <3> QED
      BY <1>1, <3>1
  <2>3. p = 0 /\ c = 0
    BY <1>0, <2>2 DEF PageBegins
  <2>4. Len(PageFiles(d, p)) = 0
    BY <2>2, <2>3, PageIs, Sizes
  <2> QED
    BY <2>1, <2>4
<1>3. CASE d # <<>>
  <2>1. Len(d) >= 1
    BY <1>1, <1>3, EmptySeq
  <2>2. i \in 1 .. Len(d) /\ i \in Nat \ {0} /\ i - 1 \in 0 .. Len(d) /\ i - 1 \in Nat
    <3>1. CASE p = 0
      BY <1>1, <2>1, <3>1 DEF SkipTo
    <3>2. CASE p # 0
      <4>1. p > 0 /\ c < Count(d)
        BY <3>2 DEF PageBegins
      <4>2. i \in 2 .. Len(d)
        BY <4>1, SkipFinds
      <4> QED
        BY <1>1, <4>2
    <3> QED
      BY <3>1, <3>2
  <2>3. Len(Supported(d, 1, i - 1)) = c /\ Supported(d, 1, i - 1) \in Seq(Files(d))
    <3>1. Supported(d, 1, i - 1) \in Seq(Files(d))
      <4>1. i - 1 <= Len(d) /\ 1 \in Nat \ {0}
        BY <1>1, <2>2
      <4> QED
        BY <2>2, <4>1, SupportedType
    <3>2. CASE p = 0
      <4>1. i - 1 = 0
        BY <3>2 DEF SkipTo
      <4>2. 1 \in Nat \ {0} /\ 0 \in Nat /\ 0 < 1
        OBVIOUS
      <4>3. Supported(d, 1, 0) = <<>>
        BY <4>2, SupportedStep
      <4>4. Len(Supported(d, 1, 0)) = 0
        BY <4>3, EmptySeq, Zenon
      <4> QED
        BY <1>0, <3>1, <3>2, <4>1, <4>4
    <3>3. CASE p # 0
      <4>1. p > 0 /\ c < Count(d)
        BY <3>3 DEF PageBegins
      <4> QED
        BY <3>1, <4>1, SkipFinds
    <3> QED
      BY <3>2, <3>3
  <2>4. names \in Seq(Files(d)) /\ Len(names) \in Nat
    <3>1. names \in Seq(Files(d))
      BY <1>1, <2>2, SupportedType
    <3> QED
      BY <3>1
  <2>5. files = Supported(d, 1, i - 1) \o names
    <3> DEFINE m == i - 1
    <3>1. m \in 0 .. Len(d) /\ m <= Len(d) /\ m + 1 = i
      BY <1>1, <2>2
    <3> HIDE DEF m, i
    <3>2. \A k \in Nat : m <= k /\ k <= Len(d) =>
            Supported(d, 1, k) = Supported(d, 1, m) \o Supported(d, m + 1, k)
      BY <3>1, SupportedSplit
    <3> QED
      BY <1>1, <3>1, <3>2 DEF m
  <2> DEFINE before == Supported(d, 1, i - 1)
  <2> HIDE DEF before, names, files, c
  <2>6. /\ Len(files) = c + Len(names)
        /\ \A k \in 1 .. Len(names) : files[c + k] = names[k]
    <3>1. before \in Seq(Files(d)) /\ Len(before) = c /\ files = before \o names
      BY <2>3, <2>5 DEF before
    <3>2. /\ Len(before \o names) = Len(before) + Len(names)
          /\ \A j \in 1 .. Len(before) + Len(names) :
               (before \o names)[j] = IF j <= Len(before) THEN before[j]
                                      ELSE names[j - Len(before)]
      BY <2>4, <3>1, ConcatProperties
    <3> QED
      BY <1>0, <2>4, <3>1, <3>2
  <2>7. r = Collect(l, d, i, 0)
    <3>1. ~(i > Len(d)) /\ ~(p > 0 /\ i = 0)
      BY <1>1, <2>2
    <3> HIDE DEF i
    <3> QED
      BY <1>3, <3>1 DEF list_files_of_page, i
  <2>8. r = [size |-> n, slots |-> Fill(l.slots, names)]
    <3>1. ~(0 > i) /\ 0 \notin i + 1 .. Len(d) + 1
      BY <2>2
    <3> HIDE DEF i
    <3> QED
      BY <2>7, <3>1 DEF Collect, names
  <2>9. n = IF Len(names) <= FilesPerPage THEN Len(names) ELSE FilesPerPage
    BY <2>4, Sizes, MinOfTwo
  <2>10. n = Len(PageFiles(d, p)) /\ n \in Nat /\ n <= Len(names) /\ n <= FilesPerPage
    <3>1. Len(PageFiles(d, p)) = IF Count(d) - c <= FilesPerPage
                                 THEN Count(d) - c ELSE FilesPerPage
      BY PageIs DEF c
    <3>2. Count(d) - c = Len(names)
      BY <1>0, <1>1, <2>4, <2>6
    <3>3. Len(PageFiles(d, p)) = n
      BY <2>9, <3>1, <3>2
    <3> HIDE DEF n
    <3> QED
      BY <2>4, <2>9, <3>3, Sizes
  <2>11. ASSUME NEW k \in 1 .. n PROVE Fill(l.slots, names)[k - 1] = PageFiles(d, p)[k]
    <3>1. k - 1 \in Slots /\ k - 1 < Len(names) /\ (k - 1) + 1 = k /\ k \in 1 .. Len(names)
      BY <2>4, <2>10, Sizes DEF Slots
    <3>2. Fill(l.slots, names)[k - 1] = names[k]
      BY <3>1 DEF Fill
    <3>3. PageFiles(d, p)[k] = files[c + k]
      BY <2>10, PageIs DEF c, files
    <3> QED
      BY <2>6, <3>1, <3>2, <3>3
  <2> HIDE DEF n
  <2> QED
    BY <2>8, <2>10, <2>11
<1> QED
  BY <1>2, <1>3

(* Then the menu's table has the page. *)
LEMMA EntriesArePage ==
  ASSUME NEW l, IsList(l), NEW d \in Seq(FileName), NEW p \in Nat, PageBegins(d, p)
  PROVE  Entries(list_files_of_page(l, d, p, 0), 0) =
           IF PageFiles(d, p) = <<>> THEN <<Text("NO SUPPORTED FILES")>> ELSE PageFiles(d, p)
<1> DEFINE r == list_files_of_page(l, d, p, 0)
           q == PageFiles(d, p)
<1>1. q \in Seq(FileName)
  BY PageIs
<1>2. r.size = Len(q) /\ \A k \in 1 .. r.size : r.slots[k - 1] = q[k]
  BY ListIsPage
<1>3. Entries(r, 0) = IF r.size > 0 THEN [k \in 1 .. r.size |-> r.slots[k - 1]]
                      ELSE <<Text("NO SUPPORTED FILES")>>
  BY DEF Entries
<1> HIDE DEF r, q
<1>4. Len(q) \in Nat /\ (q = <<>> <=> Len(q) = 0)
  BY <1>1, EmptySeq
<1>5. r.size > 0 => Entries(r, 0) = q /\ q # <<>>
  <2> SUFFICES ASSUME r.size > 0 PROVE Entries(r, 0) = q /\ q # <<>>
    OBVIOUS
  <2>1. q = [k \in 1 .. Len(q) |-> q[k]]
    BY <1>1
  <2>2. [k \in 1 .. r.size |-> r.slots[k - 1]] = [k \in 1 .. Len(q) |-> q[k]]
    BY <1>2
  <2>3. Entries(r, 0) = q
    BY <1>3, <2>1, <2>2
  <2>4. q # <<>>
    BY <1>2, <1>4
  <2> QED
    BY <2>3, <2>4
<1>6. ~(r.size > 0) => q = <<>>
  BY <1>2, <1>4
<1>7. Entries(r, 0) = IF q = <<>> THEN <<Text("NO SUPPORTED FILES")>> ELSE q
  BY <1>3, <1>5, <1>6
<1> QED
  BY <1>7 DEF r, q

LEMMA Division ==
  ASSUME NEW a \in Nat, NEW b \in Nat, b > 0
  PROVE  a \div b \in Nat /\ (a \div b) * b <= a
OBVIOUS

LEMMA TimesMonotonic ==
  ASSUME NEW p \in Nat, NEW q \in Nat, NEW b \in Nat, p <= q
  PROVE  p * b <= q * b /\ p * b \in Nat /\ q * b \in Nat
OBVIOUS

LEMMA TimesReflects ==
  ASSUME NEW p \in Nat, NEW q \in Nat, NEW b \in Nat, b > 0, p * b < q * b
  PROVE  p < q
OBVIOUS

(* Every page that is counted begins on the card, and a card of no more       *)
(* entries than fit in the pages a byte can number has no more pages.         *)
LEMMA PagesAreThere ==
  ASSUME NEW d \in Seq(FileName), NEW fail
  PROVE  LET n == num_of_pages(d, fail)
         IN  /\ n = -1 \/ n \in Nat \ {0}
             /\ \A p \in Nat : p < n => PageBegins(d, p)
             /\ Len(d) <= FilesPerPage * ByteMod => n <= ByteMod
<1> DEFINE n == num_of_pages(d, fail)
           c == Count(d)
           q == (c - 1) \div FilesPerPage
<1>1. ByteMod \in Nat /\ ByteMod >= 1 /\ FilesPerPage \in Nat /\ FilesPerPage > 0
  BY SizesAssumption, Sizes
<1>2. c \in Nat /\ c <= Len(d) /\ Len(d) \in Nat
  BY CountType
<1>3. Supported(d, 1, Len(d)) = <<>> <=> c = 0
  <2>1. Supported(d, 1, Len(d)) \in Seq(Files(d))
    BY CountType
  <2> QED
    BY <2>1, EmptySeq DEF Count
<1>4. n = IF d = <<>> \/ fail \in Calls(d) THEN -1 ELSE IF c = 0 THEN 1 ELSE q + 1
  <2>1. c = Len(Supported(d, 1, Len(d)))
    BY DEF Count
  <2> QED
    BY <1>3, <2>1 DEF num_of_pages
<1>5. CASE n = -1
  BY <1>1, <1>5
<1>6. CASE n = 1
  BY <1>1, <1>6 DEF PageBegins
<1>7. CASE c > 0 /\ n = q + 1
  <2>1. c - 1 \in Nat
    BY <1>2, <1>7
  <2>2. q \in Nat /\ q * FilesPerPage <= c - 1
    <3> DEFINE a == c - 1
    <3>1. a \in Nat
      BY <2>1
    <3> HIDE DEF a
    <3>2. a \div FilesPerPage \in Nat /\ (a \div FilesPerPage) * FilesPerPage <= a
      BY <1>1, <3>1, Division
    <3> QED
      BY <3>2 DEF a
  <2> HIDE DEF q
  <2>3. ASSUME NEW p \in Nat, p < n PROVE PageBegins(d, p)
    <3>1. p <= q
      BY <1>7, <2>2, <2>3
    <3>2. p * FilesPerPage <= q * FilesPerPage /\ p * FilesPerPage \in Nat
          /\ q * FilesPerPage \in Nat
      BY <1>1, <2>2, <3>1, TimesMonotonic
    <3>3. p * FilesPerPage < c
      BY <1>2, <2>2, <3>2
    <3> QED
      BY <3>3 DEF PageBegins
  <2>4. ASSUME Len(d) <= FilesPerPage * ByteMod PROVE n <= ByteMod
    <3>1. FilesPerPage * ByteMod = ByteMod * FilesPerPage /\ ByteMod * FilesPerPage \in Nat
          /\ q * FilesPerPage \in Nat
      BY <1>1, <2>2
    <3>2. q * FilesPerPage < ByteMod * FilesPerPage
      BY <1>2, <2>2, <2>4, <3>1
    <3>3. q < ByteMod
      BY <1>1, <2>2, <3>2, TimesReflects
    <3> QED
      BY <1>1, <1>7, <2>2, <3>3
  <2>5. n \in Nat \ {0}
    BY <1>7, <2>2
  <2> HIDE DEF n
  <2> QED
    BY <2>3, <2>4, <2>5 DEF n
<1> QED
  BY <1>2, <1>4, <1>5, <1>6, <1>7

-----------------------------------------------------------------------------
(* The names of save states. *)

\* What curr_game_filename may be.
Games == [stem : DOMAIN StemLength, tags : Seq(Int)] \union {NoGame}

LEMMA FrontAndLast ==
  ASSUME NEW S, NEW s \in Seq(S), s # <<>>
  PROVE  Last(s) \in S /\ Front(s) \in Seq(S)
<1>1. Len(s) \in Nat /\ Len(s) >= 1 /\ Len(s) - 1 \in Int
  BY EmptySeq
<1>2. Last(s) \in S
  BY <1>1 DEF Last
<1>3. \A i \in 1 .. Len(s) - 1 : s[i] \in S
  BY <1>1
<1>4. SubSeq(s, 1, Len(s) - 1) \in Seq(S)
  BY <1>1, <1>3, SubSeqProperties
<1> QED
  BY <1>2, <1>4 DEF Front

LEMMA BaseType ==
  ASSUME NEW g \in Games
  PROVE  /\ WithoutTag(g) \in [stem : DOMAIN StemLength, tags : Seq(Int)]
         /\ OwnNum(g) \subseteq Int /\ OwnNum(g) # {}
         /\ \E own : OwnNum(g) = {own}
<1> DEFINE b == Named(g)
<1>1. b \in [stem : DOMAIN StemLength, tags : Seq(Int)]
  BY StemsAssumption, EmptySeq DEF Named, Games
<1> HIDE DEF b
<1>0. /\ WithoutTag(g) = IF b.tags = <<>> THEN b ELSE [b EXCEPT !.tags = Front(@)]
      /\ OwnNum(g) = IF b.tags = <<>> THEN {-1} ELSE {Last(b.tags)}
  BY DEF WithoutTag, OwnNum, b
<1>2. CASE b.tags = <<>>
  BY <1>0, <1>1, <1>2
<1>3. CASE b.tags # <<>>
  <2>1. b.tags \in Seq(Int) /\ b.tags # <<>>
    BY <1>1, <1>3
  <2>2. Last(b.tags) \in Int /\ Front(b.tags) \in Seq(Int)
    BY <2>1, FrontAndLast
  <2>3. [b EXCEPT !.tags = Front(@)] \in [stem : DOMAIN StemLength, tags : Seq(Int)]
    BY <1>1, <2>2
  <2> QED
    BY <1>0, <1>3, <2>2, <2>3
<1> QED
  BY <1>2, <1>3

LEMMA StrictPrefixIsShorter ==
  ASSUME NEW S, NEW s \in Seq(S), NEW t \in Seq(S), IsStrictPrefix(s, t)
  PROVE  Len(s) \in Nat /\ Len(t) \in Nat /\ Len(s) < Len(t)
<1>1. /\ Len(s) \in Nat /\ Len(t) \in Nat /\ Len(s) <= Len(t) /\ s # t
      /\ SubSeq(s, 1, Len(s)) = SubSeq(t, 1, Len(s))
  BY DEF IsStrictPrefix, IsPrefix
<1>2. \A i \in 1 .. Len(s) : SubSeq(s, 1, Len(s))[i] = s[i] /\ SubSeq(t, 1, Len(s))[i] = t[i]
  BY <1>1
<1>3. ASSUME Len(s) = Len(t) PROVE FALSE
  <2>1. \A i \in 1 .. Len(s) : s[i] = t[i]
    BY <1>1, <1>2
  <2>2. s = t
    BY <1>3, <2>1, SeqEqual
  <2> QED
    BY <1>1, <2>2
<1> QED
  BY <1>1, <1>3

LEMMA AppendHasPrefix ==
  ASSUME NEW S, NEW s \in Seq(S), NEW e \in S
  PROVE  IsStrictPrefix(s, Append(s, e))
<1>1. /\ Append(s, e) \in Seq(S) /\ Len(Append(s, e)) = Len(s) + 1 /\ Len(s) \in Nat
      /\ \A i \in 1 .. Len(s) : Append(s, e)[i] = s[i]
  BY AppendProperties
<1> DEFINE t == Append(s, e)
<1> HIDE DEF t
<1>2. SubSeq(s, 1, Len(s)) \in Seq(S) /\ Len(SubSeq(s, 1, Len(s))) = Len(s)
      /\ \A i \in 1 .. Len(s) : SubSeq(s, 1, Len(s))[i] = s[i]
  OBVIOUS
<1>3. SubSeq(t, 1, Len(s)) \in Seq(S) /\ Len(SubSeq(t, 1, Len(s))) = Len(s)
      /\ \A i \in 1 .. Len(s) : SubSeq(t, 1, Len(s))[i] = s[i]
  BY <1>1 DEF t
<1>4. SubSeq(s, 1, Len(s)) = SubSeq(t, 1, Len(s))
  BY <1>2, <1>3, SeqEqual
<1>5. s # t
  BY <1>1 DEF t
<1> QED
  BY <1>1, <1>4, <1>5 DEF IsStrictPrefix, IsPrefix, t

\* The numbers that the next one must be higher than.
Nums(g, d) == OwnNum(g) \union SaveNums(d, WithoutTag(g))

(* There is a highest number, the game's own among them.                      *)
LEMMA HighestNum ==
  ASSUME NEW g \in Games, NEW d \in Seq(FileName)
  PROVE  /\ Nums(g, d) \subseteq Int /\ Max(Nums(g, d)) \in Int
         /\ \A y \in Nums(g, d) : Max(Nums(g, d)) >= y
<1> DEFINE files == Supported(d, 1, Len(d))
           b     == WithoutTag(g)
           n     == Len(files)
           at(f) == f.tags[Len(b.tags) + 1]
<1>1. b.tags \in Seq(Int) /\ Len(b.tags) \in Nat
  <2>1. b.tags \in Seq(Int)
    BY BaseType
  <2> QED
    BY <2>1
<1>2. PICK own : OwnNum(g) = {own}
  BY BaseType
<1>3. own \in Int
  BY <1>2, BaseType
<1>4. files \in Seq(FileName) /\ n \in Nat
  <2>1. files \in Seq(Files(d)) /\ Files(d) \subseteq FileName
    BY CountType, FilesAreNames
  <2>2. files \in Seq(FileName)
    <3> HIDE DEF files
    <3> QED BY <2>1, SeqMonotonic
  <2> QED
    BY <2>2
<1>5. SaveNums(d, b) = {at(f) : f \in {f \in ToSet(files) :
                          f.stem = b.stem /\ IsStrictPrefix(b.tags, f.tags)}}
  BY DEF SaveNums
<1> HIDE DEF files, b
<1>6. ASSUME NEW y \in SaveNums(d, b)
      PROVE  y \in Int /\ \E i \in 1 .. n : y = at(files[i])
  <2>1. PICK f \in ToSet(files) : IsStrictPrefix(b.tags, f.tags) /\ y = at(f)
    BY <1>5, <1>6
  <2>2. PICK i \in 1 .. n : f = files[i]
    BY <1>4, <2>1 DEF ToSet
  <2>3. f \in FileName
    BY <1>4, <2>2
  <2>4. f.tags \in Seq(Int)
    BY <2>3 DEF FileName
  <2>5. Len(f.tags) \in Nat /\ Len(b.tags) < Len(f.tags)
    BY <1>1, <2>1, <2>4, StrictPrefixIsShorter
  <2>6. Len(b.tags) + 1 \in 1 .. Len(f.tags)
    BY <1>1, <2>5
  <2>7. at(f) \in Int
    BY <2>4, <2>6
  <2> QED
    BY <2>1, <2>2, <2>7
<1> DEFINE T == Nums(g, d)
           h == [i \in 1 .. n + 1 |-> IF i = n + 1 THEN own ELSE at(files[i])]
<1>7. T = {own} \union SaveNums(d, b)
  BY <1>2 DEF Nums, b
<1>8. T \subseteq Int /\ T # {}
  BY <1>3, <1>6, <1>7
<1>9. ASSUME NEW y \in T PROVE \E i \in 1 .. n + 1 : y = h[i]
  <2>1. CASE y = own
    BY <1>4, <2>1
  <2>2. CASE y \in SaveNums(d, b)
    <3>1. PICK i \in 1 .. n : y = at(files[i])
      BY <1>6, <2>2
    <3>2. i \in 1 .. n + 1 /\ i # n + 1
      BY <1>4
    <3> QED
      BY <3>1, <3>2
  <2> QED
    BY <1>7, <1>9, <2>1, <2>2
<1> HIDE DEF T, h, n
<1>10. \E x \in T : \A y \in T : x >= y
  <2>1. n + 1 \in Nat
    BY <1>4 DEF n
  <2> QED
    BY <1>8, <1>9, <2>1, GreatestOfImage
<1>11. Max(T) \in T /\ \A y \in T : Max(T) >= y
  BY <1>10 DEF Max
<1> QED
  BY <1>8, <1>11 DEF T

(* A save state has a name that a directory can have. *)
LEMMA SaveNameType ==
  ASSUME NEW g \in Games, NEW d \in Seq(FileName), NEW fail
  PROVE  SaveName(g, d, fail) \in FileName
<1> DEFINE b == WithoutTag(g)
           n == get_save_num(g, d, fail)
<1>1. b \in [stem : DOMAIN StemLength, tags : Seq(Int)]
  BY BaseType
<1>2. n \in Int
  <2>1. Max(Nums(g, d)) \in Int
    BY HighestNum
  <2> QED
    BY <2>1 DEF get_save_num, Nums
<1> HIDE DEF b, n
<1>3. Tag(n) \in Int
  BY <1>2 DEF Tag, FirstDigit
<1>4. Append(b.tags, Tag(n)) \in Seq(Int)
  BY <1>1, <1>3, AppendProperties
<1>5. SaveName(g, d, fail) = Name(b.stem, Append(b.tags, Tag(n)), "sna")
  BY DEF SaveName, b, n
<1> QED
  BY <1>1, <1>4, <1>5 DEF Name, FileName

(* The name of a save state is not on the card. *)
LEMMA NewSaveName ==
  ASSUME NEW g \in Games, NEW d \in Seq(FileName),
         Max(Nums(g, d)) \in -1 .. MaxSaveNum - 1,
         is_supported_file(SaveName(g, d, 0))
  PROVE  SaveName(g, d, 0) \notin ToSet(d)
<1> DEFINE b     == WithoutTag(g)
           next  == Max(Nums(g, d)) + 1
           name  == SaveName(g, d, 0)
           files == Supported(d, 1, Len(d))
<1> SUFFICES ASSUME name \in ToSet(d) PROVE FALSE
  OBVIOUS
<1>1. PICK i \in 1 .. Len(d) : name = d[i]
  BY DEF ToSet
<1>2. Len(d) \in Nat /\ d # <<>> /\ 0 \notin Calls(d)
  <2>1. Len(d) \in Nat /\ Len(d) >= 1
    BY <1>1
  <2> QED
    BY <2>1, EmptySeq DEF Calls
<1>3. MaxSaveNum \in Nat /\ Max(Nums(g, d)) \in Int /\ next \in 0 .. MaxSaveNum /\ next \in Int
  BY CardSizesAssumption, HighestNum
<1>4. get_save_num(g, d, 0) = next /\ Tag(next) = next
  <2>1. get_save_num(g, d, 0) = IF next > MaxSaveNum THEN 0 ELSE next
    BY <1>2 DEF get_save_num, Nums
  <2> QED
    BY <1>3, <2>1 DEF Tag
<1>5. b.tags \in Seq(Int)
  BY BaseType
<1>6. name.stem = b.stem /\ name.tags = Append(b.tags, next)
  BY <1>4 DEF SaveName, Name
<1>7. IsStrictPrefix(b.tags, name.tags) /\ name.tags[Len(b.tags) + 1] = next
  <2> HIDE DEF b, next
  <2>1. IsStrictPrefix(b.tags, Append(b.tags, next))
    BY <1>3, <1>5, AppendHasPrefix
  <2>2. Append(b.tags, next)[Len(b.tags) + 1] = next
    BY <1>3, <1>5, AppendProperties
  <2> QED
    BY <1>6, <2>1, <2>2
<1>8. name \in ToSet(files)
  <2>1. \E k \in 1 .. Len(files) : files[k] = d[i]
    <3>1. is_supported_file(d[i]) /\ Len(d) \in Nat /\ Len(d) <= Len(d)
      BY <1>1, <1>2
    <3> QED
      BY <3>1, SupportedHasAll
  <2>2. files \in Seq(Files(d))
    BY CountType
  <2> HIDE DEF files, name
  <2> QED
    BY <1>1, <2>1, <2>2 DEF ToSet
<1>9. next \in SaveNums(d, b)
  <2> HIDE DEF b, next, name
  <2> QED
    BY <1>6, <1>7, <1>8 DEF SaveNums
<1>10. next \in Nums(g, d)
  BY <1>9 DEF Nums
<1>11. Max(Nums(g, d)) >= next
  BY <1>10, HighestNum
<1> QED
  BY <1>3, <1>11

(* Saving leaves the directory a directory, and no shorter. *)
LEMMA CreateType ==
  ASSUME NEW d \in Seq(FileName), IsInjective(d), NEW x \in FileName
  PROVE  /\ Create(d, x) \in Seq(FileName) /\ IsInjective(Create(d, x))
         /\ Count(d) <= Count(Create(d, x))
         /\ Len(Create(d, x)) <= Len(d) + 1
<1>0. Len(d) \in Nat /\ Count(d) \in Nat
  BY CountType
<1>1. CASE x \in ToSet(d)
  BY <1>0, <1>1 DEF Create
<1>2. CASE x \notin ToSet(d)
  <2> DEFINE e == Append(d, x)
  <2>1. /\ e \in Seq(FileName) /\ Len(e) = Len(d) + 1
        /\ \A i \in 1 .. Len(d) : e[i] = d[i]
        /\ e[Len(d) + 1] = x
    BY AppendProperties
  <2>2. \A i \in 1 .. Len(d) : d[i] # x
    BY <1>2 DEF ToSet
  <2>3. Count(d) <= Count(e)
    BY <1>0, CountType, <2>1, SupportedGrows DEF Count
  <2>4. Create(d, x) = e
    BY <1>2 DEF Create
  <2> HIDE DEF e
  <2>5. \A i, j \in 1 .. Len(d) : d[i] = d[j] => i = j
    BY <1>0 DEF IsInjective
  <2>6. ASSUME NEW i \in 1 .. Len(d) + 1, NEW j \in 1 .. Len(d) + 1, e[i] = e[j]
        PROVE  i = j
    <3>1. CASE i = Len(d) + 1 /\ j \in 1 .. Len(d)
      BY <2>1, <2>2, <2>6, <3>1
    <3>2. CASE j = Len(d) + 1 /\ i \in 1 .. Len(d)
      BY <2>1, <2>2, <2>6, <3>2
    <3>3. CASE i \in 1 .. Len(d) /\ j \in 1 .. Len(d)
      BY <2>1, <2>5, <2>6, <3>3
    <3> QED
      BY <1>0, <3>1, <3>2, <3>3
  <2>7. IsInjective(e)
    <3>1. DOMAIN e = 1 .. Len(d) + 1
      BY <2>1
    <3> QED
      BY <2>6, <3>1 DEF IsInjective
  <2> QED
    BY <1>0, <2>1, <2>3, <2>4, <2>7
<1> QED
  BY <1>1, <1>2

-----------------------------------------------------------------------------
(* The inductive invariant of the loader. *)

\* A user who waits for the firmware, and presses the save-state button only
\* where a program or a menu runs.
CalmUser == /\ HastyUser = FALSE
            /\ ButtonWhen \subseteq {"main_menu", "file_menu", "basic", "game"}

\* The firmware has a command before it that it has not answered.
Pending == en /\ fw \in {"listen", "dispatch", "menu"}

\* What the firmware's place says of the register; before its main loop the
\* Z80 has not got beyond its first HALT.
Control ==
  /\ Acking => ~en /\ ~button
  /\ fw \in {"dispatch", "menu"} => en /\ type = reg.type
  /\ fw = "dispatch" => no_sd # -1
  /\ fw = "menu" => type = "INIT"
  /\ fw = "boot" => z80 \in {"boot", "init_cmd", "init_halt"} /\ nmi_code = "zero"

\* The Z80 is where it left the command that is pending.
Commands ==
  Pending =>
    /\ reg.type = "INIT" => z80 \in {"init_cmd", "init_halt"}
    /\ reg.type = "SD" /\ reg.rw = "read" =>
         z80 \in {"page_cmd", "page_halt"} /\ reg.page = page
    /\ reg.type = "SD" /\ reg.rw = "write" =>
         /\ z80 \in {"load_cmd", "load_halt"}
         /\ reg.page = page /\ reg.game = index % FilesPerPage
    /\ reg.type = "STATE" => z80 \in {"main_menu", "file_menu", "basic", "game"}

\* A RETN is left at 0x4000 only under a Z80 that nothing will wake, or that
\* clears it.
Routine ==
  nmi_code = "retn" => \/ z80 \in {"boot", "crashed"}
                       \/ z80 \in {"init_halt", "page_halt"} /\ ~Pending

\* A page that is asked for comes up with its first entry highlighted.
TopFirst == z80 \in {"page_cmd", "page_halt"} => index = 0

\* The menu shows the list the firmware has.
Shown ==
  z80 \in {"file_menu", "load_cmd", "load_halt"} /\ fw # "reset" =>
    /\ table = Entries(list, no_sd) /\ curr_page = page /\ no_sd # -1
    /\ no_sd # 1 /\ ~sd_empty => list.size > 0

\* The types of all variables, in parts.
Row == FileName \union {Text("NO SD CARD"), Text("NO SUPPORTED FILES")}

Command == [type : {"NA", "INIT", "STATE", "SD"}, rw : {"none", "read", "write"},
            page : 0 .. ByteMod - 1, game : Slots]

Z80Types == /\ z80 \in Phases /\ page \in 0 .. ByteMod - 1 /\ index \in Nat
            /\ loaded \in FileName \union {Text("none"), Text("part")}
MemTypes == /\ left \in 0 .. ByteMod - 1 /\ table \in Seq(Row)
            /\ nmi_code \in {"zero", "retn", "video"}
RegTypes == button \in BOOLEAN /\ en \in BOOLEAN /\ reg \in Command
FwTypes  == /\ fw \in {"boot", "listen", "dispatch", "menu", "ack", "acking", "ack_menu",
                       "acking_menu", "ended", "reset"}
            /\ type \in {"NA", "INIT", "STATE", "SD"}
SdTypes  == /\ no_sd \in {-1, 0, 1} /\ sd_empty \in BOOLEAN
            /\ max_page \in Nat /\ curr_page \in 0 .. ByteMod - 1
            /\ IsList(list)
CardTypes == /\ game \in Games
             /\ dir \in Seq(FileName) /\ IsInjective(dir)
             /\ adverse \in BOOLEAN /\ resets \in 0 .. MaxResets

Types == Z80Types /\ MemTypes /\ RegTypes /\ FwTypes /\ SdTypes /\ CardTypes

IInv == /\ Types
        /\ Control /\ Commands /\ Routine
        /\ TopFirst /\ IndexInTable /\ Shown /\ NoCrash

\* The parts of it that are about the Z80 and its memory.
Rest == Commands /\ Routine /\ TopFirst /\ IndexInTable /\ Shown /\ NoCrash

LEMMA ByteSize == ByteMod \in Nat /\ ByteMod > 0 /\ 0 \in 0 .. ByteMod - 1
BY SizesAssumption

LEMMA CmdType ==
  /\ Cleared \in Command /\ Cmd("INIT", "read", 0, 0) \in Command
  /\ \A p \in 0 .. ByteMod - 1 : Cmd("SD", "read", p, 0) \in Command
  /\ \A p \in 0 .. ByteMod - 1 : \A g \in Slots : Cmd("SD", "write", p, g) \in Command
  /\ \A c \in StateCmds : c \in Command /\ c.type = "STATE" /\ c.rw = "write"
BY ByteSize, Sizes DEF Cleared, Cmd, Command, StateCmds

(* The table of the file menu has one line at least, and the list's names if  *)
(* it has any.                                                                *)
LEMMA EntriesType ==
  ASSUME NEW l, IsList(l), NEW s
  PROVE  /\ Entries(l, s) \in Seq(Row)
         /\ Len(Entries(l, s)) > 0
         /\ l.size > 0 => Len(Entries(l, s)) = l.size /\ l.size \in 1 .. FilesPerPage
         /\ l.size > 0 => \A k \in 0 .. l.size - 1 :
                            Entries(l, s)[k + 1] = l.slots[k] /\ k \in Slots
<1> DEFINE X == Row
<1>1. l.size \in 0 .. FilesPerPage /\ FilesPerPage \in Nat
  BY Sizes DEF IsList
<1>2. CASE l.size > 0
  <2>1. Entries(l, s) = [k \in 1 .. l.size |-> l.slots[k - 1]]
    BY <1>2 DEF Entries
  <2>2. ASSUME NEW k \in 1 .. l.size PROVE l.slots[k - 1] \in X
    <3>1. k - 1 \in Slots /\ k - 1 < l.size
      BY <1>1 DEF Slots
    <3> QED
      BY <3>1 DEF IsList, Row
  <2> HIDE DEF X
  <2>3. Entries(l, s) \in Seq(X) /\ Len(Entries(l, s)) = l.size
    BY <1>1, <2>1, <2>2
  <2>4. ASSUME NEW k \in 0 .. l.size - 1 PROVE Entries(l, s)[k + 1] = l.slots[k] /\ k \in Slots
    BY <1>1, <2>1 DEF Slots
  <2>5. Len(Entries(l, s)) > 0 /\ l.size \in 1 .. FilesPerPage
    BY <1>1, <1>2, <2>3
  <2> QED
    BY <2>3, <2>4, <2>5, Zenon DEF X
<1>3. CASE ~(l.size > 0)
  <2>1. PICK t \in X : Entries(l, s) = <<t>>
    BY <1>3 DEF Entries, Row
  <2>2. <<t>> \in Seq(X) /\ Len(<<t>>) = 1
    <3> HIDE DEF X
    <3> QED OBVIOUS
  <2>3. Entries(l, s) \in Seq(X) /\ Len(Entries(l, s)) > 0
    <3> HIDE DEF X
    <3> QED BY <2>1, <2>2
  <2> QED
    BY <1>3, <2>3, Zenon DEF X
<1> QED
  BY <1>2, <1>3, Zenon

LEMMA InitInv == Init => IInv
<1> SUFFICES ASSUME Init PROVE IInv
  OBVIOUS
<1>1. Z80Types /\ MemTypes /\ RegTypes /\ FwTypes
  <2>1. <<>> \in Seq(Row)
    BY EmptySeq
  <2> QED
    BY <2>1, ByteSize, CmdType
    DEF Init, Z80Types, MemTypes, RegTypes, FwTypes, Phases, Halted, Lagging
<1>2. SdTypes /\ CardTypes
  <2>1. IsList(list)
    BY Sizes DEF Init, Empty, IsList, Slots, Slot
  <2>2. dir \in Seq(FileName) /\ IsInjective(dir)
    BY CardsAssumption DEF Init
  <2>3. adverse \in BOOLEAN /\ resets \in 0 .. MaxResets
    BY SizesAssumption DEF Init
  <2> QED
    BY <2>1, <2>2, <2>3, ByteSize DEF Init, SdTypes, CardTypes, Games
<1>3. Control /\ Rest
  BY DEF Init, Control, Rest, Acking, Commands, Pending, Routine, TopFirst, IndexInTable,
         Shown, NoCrash
<1> QED
  BY <1>1, <1>2, <1>3 DEF IInv, Types, Rest

(* A calm user acts on a firmware that listens, or does not run yet.          *)
LEMMA CalmActs ==
  ASSUME CalmUser, UserMayAct
  PROVE  /\ fw \in {"reset", "boot", "listen"} /\ ~en /\ ~button
         /\ \A c : Issue(c) => en' = TRUE /\ reg' = c /\ button' = button
BY DEF CalmUser, UserMayAct, Issue, Acking

LEMMA ReleaseButtonInv == IInv /\ ReleaseButton => IInv'
<1> SUFFICES ASSUME IInv, ReleaseButton PROVE IInv'
  OBVIOUS
<1>1. /\ button' = FALSE
      /\ UNCHANGED <<z80Vars, memVars, en, reg, fwVars, envVars>>
  BY DEF ReleaseButton
<1>2. Types'
  <2>1. RegTypes'
    BY <1>1 DEF IInv, Types, RegTypes
  <2> QED
    BY <1>1, <2>1 DEF IInv, Types, Z80Types, MemTypes, FwTypes, SdTypes, CardTypes,
                      z80Vars, memVars, fwVars, sdVars, envVars
<1>3. Control'
  BY <1>1 DEF IInv, Control, Acking, z80Vars, memVars, fwVars, sdVars
<1>4. Commands' /\ Routine' /\ TopFirst' /\ IndexInTable' /\ Shown' /\ NoCrash'
  BY <1>1 DEF IInv, Commands, Pending, Routine, TopFirst, IndexInTable, Shown, NoCrash,
              z80Vars, memVars, fwVars, sdVars, envVars
<1> QED
  BY <1>2, <1>3, <1>4 DEF IInv

(* Ignore and ToMenu *)
LEMMA PassInv == IInv /\ (Ignore \/ ToMenu) => IInv'
<1> SUFFICES ASSUME IInv, Ignore \/ ToMenu PROVE IInv'
  OBVIOUS
<1>1. /\ fw = "dispatch" /\ fw' \in {"ack", "menu"} /\ (fw' = "menu" => type = "INIT")
      /\ UNCHANGED <<z80Vars, memVars, regVars, type, game, sdVars, envVars>>
  BY DEF Ignore, ToMenu
<1>2. Types'
  BY <1>1 DEF IInv, Types, Z80Types, MemTypes, RegTypes, FwTypes, SdTypes, CardTypes,
              z80Vars, memVars, regVars, fwVars, sdVars, envVars
<1>3. Control'
  BY <1>1 DEF IInv, Control, Acking, z80Vars, memVars, regVars
<1>4. Commands' /\ Routine' /\ TopFirst' /\ IndexInTable' /\ Shown' /\ NoCrash'
  BY <1>1 DEF IInv, Commands, Pending, Routine, TopFirst, IndexInTable, Shown, NoCrash,
              z80Vars, memVars, regVars, fwVars, sdVars, envVars
<1> QED
  BY <1>2, <1>3, <1>4 DEF IInv

LEMMA HaltInv == IInv /\ Halt => IInv'
<1> SUFFICES ASSUME IInv, Halt PROVE IInv'
  OBVIOUS
<1>1. /\ \/ z80 = "init_cmd" /\ z80' = "init_halt"
         \/ z80 = "page_cmd" /\ z80' = "page_halt"
         \/ z80 = "load_cmd" /\ z80' = "load_halt"
      /\ UNCHANGED <<page, index, loaded, memVars, regVars, fwVars, envVars>>
  BY DEF Halt, Lagging, HaltOf
<1>2. Types'
  BY <1>1 DEF IInv, Types, Z80Types, MemTypes, RegTypes, FwTypes, SdTypes, CardTypes,
              Phases, Lagging, Halted, memVars, regVars, fwVars, sdVars, envVars
<1>3. Control'
  BY <1>1 DEF IInv, Control, Acking, memVars, regVars, fwVars, sdVars
<1>4. Commands' /\ Routine' /\ TopFirst' /\ IndexInTable' /\ Shown' /\ NoCrash'
  BY <1>1 DEF IInv, Commands, Pending, Routine, TopFirst, IndexInTable, Shown, NoCrash,
              memVars, regVars, fwVars, sdVars, envVars
<1> QED
  BY <1>2, <1>3, <1>4 DEF IInv

LEMMA BasicHandlerInv == IInv /\ BasicHandler => IInv'
<1> SUFFICES ASSUME IInv, BasicHandler PROVE IInv'
  OBVIOUS
<1>1. /\ z80 = "main_menu" /\ z80' = "basic" /\ nmi_code' = "video"
      /\ UNCHANGED <<page, index, loaded, left, table, regVars, fwVars, envVars>>
  BY DEF BasicHandler
<1>2. Types'
  BY <1>1 DEF IInv, Types, Z80Types, MemTypes, RegTypes, FwTypes, SdTypes, CardTypes,
              Phases, regVars, fwVars, sdVars, envVars
<1>3. Control'
  BY <1>1 DEF IInv, Control, Acking, regVars, fwVars, sdVars
<1>4. Commands' /\ Routine' /\ TopFirst' /\ IndexInTable' /\ Shown' /\ NoCrash'
  BY <1>1 DEF IInv, Commands, Pending, Routine, TopFirst, IndexInTable, Shown, NoCrash,
              regVars, fwVars, sdVars, envVars
<1> QED
  BY <1>2, <1>3, <1>4 DEF IInv

LEMMA MoveInv == IInv /\ (MoveUp \/ MoveDown) => IInv'
<1> SUFFICES ASSUME IInv, MoveUp \/ MoveDown PROVE IInv'
  OBVIOUS
<1>1. /\ z80 = "file_menu"
      /\ UNCHANGED <<z80, page, loaded, memVars, regVars, fwVars, envVars>>
      /\ \/ index' = IF index = 0 THEN Len(table) - 1 ELSE index - 1
         \/ index' = IF index + 1 > Len(table) - 1 THEN 0 ELSE index + 1
  BY DEF MoveUp, MoveDown
<1>2. index \in Nat /\ Len(table) \in Nat /\ index < Len(table)
  BY <1>1 DEF IInv, Types, Z80Types, MemTypes, IndexInTable
<1>3. index' \in Nat /\ index' < Len(table)
  BY <1>1, <1>2
<1>4. Types'
  BY <1>1, <1>3 DEF IInv, Types, Z80Types, MemTypes, RegTypes, FwTypes, SdTypes, CardTypes,
              memVars, regVars, fwVars, sdVars, envVars
<1>5. Control'
  BY <1>1 DEF IInv, Control, Acking, memVars, regVars, fwVars, sdVars
<1>6. Commands' /\ Routine' /\ TopFirst' /\ IndexInTable' /\ Shown' /\ NoCrash'
  BY <1>1, <1>3 DEF IInv, Commands, Pending, Routine, TopFirst, IndexInTable, Shown, NoCrash,
                    memVars, regVars, fwVars, sdVars, envVars
<1> QED
  BY <1>4, <1>5, <1>6 DEF IInv

(* Reboot, and the reset of the Z80 *)
LEMMA StartInv ==
  ASSUME CalmUser
  PROVE  IInv /\ (Reboot \/ ResetZ80) => IInv'
<1> SUFFICES ASSUME IInv, Reboot \/ ResetZ80 PROVE IInv'
  OBVIOUS
<1>1. /\ StartZ80
      /\ fw' = fw \/ (fw = "reset" /\ fw' = "boot")
      /\ fw' # "reset" \/ fw' = fw
      /\ UNCHANGED <<regVars, type, game, sdVars, envVars>>
  BY DEF Reboot, ResetZ80, fwVars, sdVars, UserMayAct
<1>2. fw \in {"reset", "boot", "listen"} /\ (fw # "reset" => ~en)
  BY CalmActs DEF Reboot, ResetZ80
<1>3. Types'
  <2>1. <<>> \in Seq(Row)
    BY EmptySeq
  <2> QED
    BY <1>1, <2>1, ByteSize DEF IInv, Types, Z80Types, MemTypes, RegTypes, FwTypes, SdTypes, CardTypes,
              StartZ80, Phases, regVars, sdVars, envVars
<1>4. Control'
  BY <1>1, <1>2 DEF IInv, Control, Acking, StartZ80, regVars
<1>5. Commands' /\ Routine' /\ TopFirst' /\ IndexInTable' /\ Shown' /\ NoCrash'
  BY <1>1, <1>2 DEF IInv, Commands, Pending, Routine, TopFirst, IndexInTable, Shown, NoCrash,
                    StartZ80, regVars, sdVars, envVars
<1> QED
  BY <1>3, <1>4, <1>5 DEF IInv

(* The commands *)
LEMMA PressButtonInv ==
  ASSUME CalmUser
  PROVE  IInv /\ PressButton => IInv'
<1> SUFFICES ASSUME IInv, PressButton PROVE IInv'
  OBVIOUS
<1>1. /\ fw \in {"reset", "boot", "listen"} /\ ~en /\ ~button
      /\ z80 \in {"main_menu", "file_menu", "basic", "game"}
  BY CalmActs DEF PressButton, CalmUser
<1>2. /\ button' = TRUE /\ en' = TRUE /\ reg' \in StateCmds
      /\ UNCHANGED <<z80Vars, memVars, fwVars, envVars>>
  BY <1>1 DEF PressButton, Acking
<1>3. reg' \in Command /\ reg'.type = "STATE"
  BY <1>2, CmdType
<1>4. Types'
  <2>1. RegTypes'
    BY <1>2, <1>3 DEF RegTypes
  <2> QED
    BY <1>2, <2>1 DEF IInv, Types, Z80Types, MemTypes, FwTypes, SdTypes, CardTypes,
                      z80Vars, memVars, fwVars, sdVars, envVars
<1>5. Control'
  BY <1>1, <1>2 DEF IInv, Control, Acking, z80Vars, memVars, fwVars, sdVars
<1>6. Commands' /\ Routine' /\ TopFirst' /\ IndexInTable' /\ Shown' /\ NoCrash'
  BY <1>1, <1>2, <1>3 DEF IInv, Commands, Pending, Routine, TopFirst, IndexInTable, Shown,
     NoCrash, z80Vars, memVars, fwVars, sdVars, envVars
<1> QED
  BY <1>4, <1>5, <1>6 DEF IInv

LEMMA RequestMenuInv ==
  ASSUME CalmUser
  PROVE  IInv /\ RequestMenu => IInv'
<1> SUFFICES ASSUME IInv, RequestMenu PROVE IInv'
  OBVIOUS
<1>1. /\ fw \in {"reset", "boot", "listen"} /\ ~en /\ ~button
      /\ z80 = "boot" /\ z80' = "init_cmd"
      /\ en' = TRUE /\ reg' = Cmd("INIT", "read", 0, 0) /\ button' = button
      /\ left' = 0 /\ table' = <<>> /\ nmi_code' = "zero"
      /\ UNCHANGED <<page, index, loaded, fwVars, envVars>>
  BY CalmActs DEF RequestMenu
<1>2. reg' \in Command /\ reg'.type = "INIT"
  BY <1>1, CmdType DEF Cmd
<1>3. Types'
  <2>1. <<>> \in Seq(Row)
    BY EmptySeq
  <2>2. RegTypes' /\ MemTypes'
    BY <1>1, <1>2, <2>1, ByteSize DEF RegTypes, MemTypes, IInv, Types
  <2> QED
    BY <1>1, <2>2 DEF IInv, Types, Z80Types, FwTypes, SdTypes, CardTypes, Phases, Lagging,
                      fwVars, sdVars, envVars
<1>4. Control'
  BY <1>1 DEF IInv, Control, Acking, fwVars, sdVars
<1>5. Commands' /\ Routine' /\ TopFirst' /\ IndexInTable' /\ Shown' /\ NoCrash'
  BY <1>1, <1>2 DEF IInv, Commands, Pending, Routine, TopFirst, IndexInTable, Shown,
     NoCrash, fwVars, sdVars, envVars
<1> QED
  BY <1>3, <1>4, <1>5 DEF IInv

(* SdHandler, Right and Left: one page or another is asked for. *)
LEMMA ShowPageInv ==
  ASSUME CalmUser
  PROVE  IInv /\ (SdHandler \/ Right \/ Left) => IInv'
<1> SUFFICES ASSUME IInv, SdHandler \/ Right \/ Left PROVE IInv'
  OBVIOUS
<1>1. page \in 0 .. ByteMod - 1
  BY DEF IInv, Types, Z80Types
<1>2. /\ 0 \in 0 .. ByteMod - 1 /\ (page + 1) % ByteMod \in 0 .. ByteMod - 1
      /\ page # 0 => page - 1 \in 0 .. ByteMod - 1
  BY <1>1, ByteSize
<1>3. PICK p \in 0 .. ByteMod - 1 :
        /\ z80 \in {"main_menu", "file_menu"} /\ UserMayAct
        /\ z80' = "page_cmd" /\ page' = p /\ index' = 0
        /\ Issue(Cmd("SD", "read", p, 0))
        /\ UNCHANGED <<loaded, memVars, fwVars, envVars>>
  BY <1>2 DEF SdHandler, Right, Left, ShowPage
<1>4. /\ fw \in {"reset", "boot", "listen"} /\ ~en /\ ~button
      /\ en' = TRUE /\ reg' = Cmd("SD", "read", p, 0) /\ button' = button
  BY <1>3, CalmActs
<1>5. reg' \in Command /\ reg'.type = "SD" /\ reg'.rw = "read" /\ reg'.page = p
  BY <1>4, CmdType DEF Cmd
<1>6. Types'
  <2>1. RegTypes' /\ Z80Types'
    BY <1>3, <1>4, <1>5 DEF RegTypes, Z80Types, IInv, Types, Phases, Lagging
  <2> QED
    BY <1>3, <2>1 DEF IInv, Types, MemTypes, FwTypes, SdTypes, CardTypes,
                      memVars, fwVars, sdVars, envVars
<1>7. Control'
  BY <1>3, <1>4 DEF IInv, Control, Acking, memVars, fwVars, sdVars
<1>8. Commands' /\ Routine' /\ TopFirst' /\ IndexInTable' /\ Shown' /\ NoCrash'
  BY <1>3, <1>4, <1>5 DEF IInv, Commands, Pending, Routine, TopFirst, IndexInTable, Shown,
     NoCrash, memVars, fwVars, sdVars, envVars
<1> QED
  BY <1>6, <1>7, <1>8 DEF IInv

LEMMA SelectInv ==
  ASSUME CalmUser
  PROVE  IInv /\ Select => IInv'
<1> SUFFICES ASSUME IInv, Select PROVE IInv'
  OBVIOUS
<1>1. /\ fw \in {"reset", "boot", "listen"} /\ ~en /\ ~button
      /\ z80 = "file_menu" /\ z80' = "load_cmd"
      /\ en' = TRUE /\ reg' = Cmd("SD", "write", page, index % FilesPerPage)
      /\ button' = button
      /\ UNCHANGED <<page, index, loaded, memVars, fwVars, envVars>>
  BY CalmActs DEF Select
<1>2. page \in 0 .. ByteMod - 1 /\ index % FilesPerPage \in Slots
  <2>1. page \in 0 .. ByteMod - 1 /\ index \in Nat
    BY DEF IInv, Types, Z80Types
  <2> QED
    BY <2>1, Sizes DEF Slots
<1>3. /\ reg' \in Command /\ reg'.type = "SD" /\ reg'.rw = "write"
      /\ reg'.page = page /\ reg'.game = index % FilesPerPage
  BY <1>1, <1>2, CmdType DEF Cmd
<1>4. Types'
  <2>1. RegTypes' /\ Z80Types'
    BY <1>1, <1>3 DEF RegTypes, Z80Types, IInv, Types, Phases, Lagging
  <2> QED
    BY <1>1, <2>1 DEF IInv, Types, MemTypes, FwTypes, SdTypes, CardTypes,
                      memVars, fwVars, sdVars, envVars
<1>5. Control'
  BY <1>1 DEF IInv, Control, Acking, memVars, fwVars, sdVars
<1>6. Commands' /\ Routine' /\ TopFirst' /\ IndexInTable' /\ Shown' /\ NoCrash'
  BY <1>1, <1>3 DEF IInv, Commands, Pending, Routine, TopFirst, IndexInTable, Shown,
     NoCrash, memVars, fwVars, sdVars, envVars
<1> QED
  BY <1>4, <1>5, <1>6 DEF IInv

(* The acknowledge *)
LEMMA AckSetInv ==
  ASSUME CalmUser
  PROVE  IInv /\ AckSet => IInv'
<1> SUFFICES ASSUME IInv, AckSet PROVE IInv'
  OBVIOUS
<1>1. /\ fw' \in {"acking", "acking_menu"} /\ ~button
      /\ en' = FALSE /\ reg' = Cleared
      /\ UNCHANGED <<z80Vars, memVars, button, type, game, sdVars, envVars>>
      /\ fw # "reset"
  BY DEF AckSet, CalmUser
<1>2. Types'
  <2>1. RegTypes' /\ FwTypes'
    BY <1>1, CmdType DEF RegTypes, FwTypes, IInv, Types
  <2> QED
    BY <1>1, <2>1 DEF IInv, Types, Z80Types, MemTypes, SdTypes, CardTypes,
                      z80Vars, memVars, sdVars, envVars
<1>3. Control'
  BY <1>1 DEF Control, Acking
<1>4. Commands' /\ Routine' /\ TopFirst' /\ IndexInTable' /\ Shown' /\ NoCrash'
  BY <1>1 DEF IInv, Commands, Pending, Routine, TopFirst, IndexInTable, Shown,
     NoCrash, z80Vars, memVars, sdVars, envVars
<1> QED
  BY <1>2, <1>3, <1>4 DEF IInv

LEMMA AckClearInv == IInv /\ AckClear => IInv'
<1> SUFFICES ASSUME IInv, AckClear PROVE IInv'
  OBVIOUS
<1>1. /\ fw' \in {"listen", "ack"} /\ ~en /\ fw # "reset"
      /\ UNCHANGED <<z80Vars, memVars, regVars, type, game, sdVars, envVars>>
  BY DEF AckClear, Acking, IInv, Control, regVars
<1>2. Types'
  <2>1. FwTypes'
    BY <1>1 DEF FwTypes, IInv, Types
  <2> QED
    BY <1>1, <2>1 DEF IInv, Types, Z80Types, MemTypes, RegTypes, SdTypes, CardTypes,
                      z80Vars, memVars, regVars, sdVars, envVars
<1>3. Control'
  BY <1>1 DEF Control, Acking
<1>4. Commands' /\ Routine' /\ TopFirst' /\ IndexInTable' /\ Shown' /\ NoCrash'
  BY <1>1 DEF IInv, Commands, Pending, Routine, TopFirst, IndexInTable, Shown,
     NoCrash, z80Vars, memVars, regVars, sdVars, envVars
<1> QED
  BY <1>2, <1>3, <1>4 DEF IInv

LEMMA ResetNiosInv == IInv /\ ResetNios => IInv'
<1> SUFFICES ASSUME IInv, ResetNios PROVE IInv'
  OBVIOUS
<1>1. /\ fw' = "reset" /\ type' = "NA" /\ game' = NoGame
      /\ no_sd' = -1 /\ sd_empty' = FALSE /\ max_page' = 0 /\ curr_page' = 0
      /\ list' = Empty /\ en' = FALSE /\ reg' = Cleared
      /\ resets < MaxResets /\ resets' = resets + 1
      /\ UNCHANGED <<z80Vars, memVars, button, dir, adverse>>
  BY DEF ResetNios
<1>2. Types'
  <2>1. RegTypes' /\ FwTypes'
    BY <1>1, CmdType DEF RegTypes, FwTypes, IInv, Types
  <2>2. IsList(Empty)
    BY Sizes DEF Empty, IsList, Slots, Slot
  <2>3. resets' \in 0 .. MaxResets
    BY <1>1, SizesAssumption DEF IInv, Types, CardTypes
  <2>4. SdTypes' /\ CardTypes'
    BY <1>1, <2>2, <2>3, ByteSize DEF IInv, Types, SdTypes, CardTypes, Games
  <2> QED
    BY <1>1, <2>1, <2>4 DEF IInv, Types, Z80Types, MemTypes, z80Vars, memVars
<1>3. Control'
  BY <1>1 DEF Control, Acking
<1>4. Commands' /\ Routine' /\ TopFirst' /\ IndexInTable' /\ Shown' /\ NoCrash'
  BY <1>1 DEF IInv, Commands, Pending, Routine, TopFirst, IndexInTable, Shown,
     NoCrash, z80Vars, memVars
<1> QED
  BY <1>2, <1>3, <1>4 DEF IInv

LEMMA FailingCallType ==
  ASSUME dir \in Seq(FileName)
  PROVE  /\ FailingCall \subseteq Nat
         /\ ~adverse => FailingCall = {0}
         /\ \A f \in Faults : adverse
<1>1. Len(dir) \in Nat
  OBVIOUS
<1> QED
  BY <1>1 DEF FailingCall, Calls, Faults

LEMMA WriteMenuInv == IInv /\ WriteMenu => IInv'
<1> SUFFICES ASSUME IInv, WriteMenu PROVE IInv'
  OBVIOUS
<1>1. /\ fw \in {"boot", "menu"} /\ fw' \in {"ack", "ack_menu", "ended"}
      /\ UNCHANGED <<page, index, loaded, left, table, regVars, type, game, sdVars, envVars>>
      /\ RunNmi("retn") \/ UNCHANGED <<z80, nmi_code>>
  BY DEF WriteMenu
<1>2. z80 \in {"boot", "init_cmd", "init_halt"}
  BY <1>1 DEF IInv, Control, Commands, Pending
<1>3. \/ z80' = "main_menu" /\ nmi_code' = "zero"
      \/ z80' \in {"init_halt", "boot"} /\ nmi_code' = "retn"
      \/ UNCHANGED <<z80, nmi_code>>
  BY <1>1, <1>2 DEF RunNmi, NmiReturn, Lagging, HaltOf
<1>4. Types'
  <2>1. Z80Types' /\ MemTypes' /\ FwTypes'
    BY <1>1, <1>3 DEF IInv, Types, Z80Types, MemTypes, FwTypes, Phases, Halted
  <2> QED
    BY <1>1, <2>1 DEF IInv, Types, RegTypes, SdTypes, CardTypes, regVars, sdVars, envVars
<1>5. Control'
  BY <1>1 DEF Control, Acking
<1>6. Commands' /\ Routine' /\ TopFirst' /\ IndexInTable' /\ Shown' /\ NoCrash'
  BY <1>1, <1>2, <1>3 DEF IInv, Commands, Pending, Routine, TopFirst, IndexInTable, Shown,
                          NoCrash
<1> QED
  BY <1>4, <1>5, <1>6 DEF IInv

LEMMA InitSdType ==
  ASSUME IInv, InitSd
  PROVE  /\ no_sd' \in {0, 1} /\ max_page' \in Nat /\ curr_page' = 0
         /\ UNCHANGED <<sd_empty, list>>
<1>1. PICK fail : /\ no_sd' = IF num_of_pages(dir, fail) < 0 THEN 1 ELSE 0
                  /\ max_page' = IF num_of_pages(dir, fail) < 0 THEN 1
                                 ELSE num_of_pages(dir, fail)
                  /\ curr_page' = 0 /\ UNCHANGED <<sd_empty, list>>
  BY DEF InitSd
<1>2. dir \in Seq(FileName)
  BY DEF IInv, Types, CardTypes
<1>3. num_of_pages(dir, fail) = -1 \/ num_of_pages(dir, fail) \in Nat \ {0}
  BY <1>2, PagesAreThere
<1> QED
  BY <1>1, <1>3

LEMMA ReadCommandInv == IInv /\ ReadCommand => IInv'
<1> SUFFICES ASSUME IInv, ReadCommand PROVE IInv'
  OBVIOUS
<1>1. /\ fw = "listen" /\ en /\ type' = reg.type /\ fw' = "dispatch"
      /\ UNCHANGED <<z80Vars, memVars, regVars, game, envVars>>
      /\ IF no_sd = -1 THEN InitSd ELSE UNCHANGED sdVars
  BY DEF ReadCommand, Heard
<1>2. /\ no_sd' \in {0, 1} /\ max_page' \in Nat /\ curr_page' \in 0 .. ByteMod - 1
      /\ UNCHANGED <<sd_empty, list>>
      /\ no_sd # -1 => UNCHANGED <<no_sd, max_page, curr_page>>
  BY <1>1, InitSdType, ByteSize DEF IInv, Types, SdTypes, sdVars
<1>3. Types'
  <2>1. FwTypes'
    BY <1>1 DEF IInv, Types, FwTypes, RegTypes, Command
  <2>2. SdTypes'
    BY <1>2 DEF IInv, Types, SdTypes
  <2> QED
    BY <1>1, <2>1, <2>2 DEF IInv, Types, Z80Types, MemTypes, RegTypes, CardTypes,
                            z80Vars, memVars, regVars, envVars
<1>4. Control'
  BY <1>1, <1>2 DEF Control, Acking, regVars
<1>5. Commands' /\ Routine' /\ TopFirst' /\ IndexInTable' /\ Shown' /\ NoCrash'
  BY <1>1, <1>2 DEF IInv, Commands, Pending, Routine, TopFirst, IndexInTable, Shown, NoCrash,
                    z80Vars, memVars, regVars, envVars
<1> QED
  BY <1>3, <1>4, <1>5 DEF IInv

(* Where load_page leads: to the file menu with the page, when all is well; a *)
(* Z80 that has not come to its HALT yet is left in it, and one whose bus was *)
(* not granted runs astray.                                                   *)
LEMMA LoadPageDoes ==
  ASSUME IInv, LoadPage
  PROVE  /\ z80 \in {"page_cmd", "page_halt"} /\ reg.page = page /\ index = 0
         /\ curr_page' = page /\ no_sd # -1 /\ IsList(list') /\ sd_empty' \in BOOLEAN
         /\ no_sd # 1 /\ ~sd_empty' => list'.size > 0
         /\ \/ /\ table' = Entries(list', no_sd) /\ left' = PagesLeft(page)
               /\ \/ z80 = "page_halt" /\ z80' = "file_menu" /\ nmi_code' = "zero"
                  \/ z80 = "page_cmd" /\ z80' = "page_halt" /\ nmi_code' = "retn"
            \/ /\ adverse /\ UNCHANGED <<table, left>>
               /\ z80' = "crashed" /\ nmi_code' \in {"zero", "video"}
<1>1. /\ fw = "dispatch" /\ type = "SD" /\ reg.rw = "read" /\ curr_page' = reg.page
      /\ sd_empty' = IF list'.size > 0 THEN FALSE ELSE (no_sd = 0 \/ sd_empty)
      /\ \/ /\ table' = Entries(list', no_sd) /\ left' = PagesLeft(reg.page)
            /\ RunNmi("retn")
         \/ "dma" \in Faults /\ UNCHANGED <<table, left>> /\ RunNmi(nmi_code)
  BY DEF LoadPage
<1>2. /\ z80 \in {"page_cmd", "page_halt"} /\ reg.page = page /\ no_sd # -1
      /\ nmi_code # "retn" /\ index = 0
  BY <1>1 DEF IInv, Control, Commands, Pending, Routine, TopFirst
<1>3. /\ dir \in Seq(FileName) /\ IsList(list) /\ page \in Nat /\ no_sd \in {-1, 0, 1}
      /\ sd_empty \in BOOLEAN /\ nmi_code \in {"zero", "retn", "video"}
  BY DEF IInv, Types, Z80Types, MemTypes, SdTypes, CardTypes
<1>4. IsList(list')
  <2>1. CASE no_sd = 1
    BY <1>3, <2>1, Sizes DEF LoadPage, IsList, Slots
  <2>2. CASE no_sd # 1
    <3>1. PICK fail \in FailingCall : list' = list_files_of_page(list, dir, page, fail)
      BY <1>2, <2>2 DEF LoadPage
    <3>2. fail \in Nat
      BY <1>3, FailingCallType
    <3> QED
      BY <1>3, <3>1, <3>2, ListType
  <2> QED
    BY <2>1, <2>2
<1>5. sd_empty' \in BOOLEAN /\ (no_sd # 1 /\ ~sd_empty' => list'.size > 0)
  BY <1>1, <1>2, <1>3
<1>6. RunNmi("retn") => \/ z80 = "page_halt" /\ z80' = "file_menu" /\ nmi_code' = "zero"
                        \/ z80 = "page_cmd" /\ z80' = "page_halt" /\ nmi_code' = "retn"
  BY <1>2 DEF RunNmi, NmiReturn, Lagging, HaltOf
<1>7. RunNmi(nmi_code) => z80' = "crashed" /\ nmi_code' \in {"zero", "video"}
  BY <1>2, <1>3 DEF RunNmi
<1>8. "dma" \in Faults => adverse
  BY <1>3, FailingCallType
<1> QED
  BY <1>1, <1>2, <1>4, <1>5, <1>6, <1>7, <1>8

LEMMA LoadPageInv == IInv /\ LoadPage => IInv'
<1> SUFFICES ASSUME IInv, LoadPage PROVE IInv'
  OBVIOUS
<1>1. /\ fw' = "ack"
      /\ UNCHANGED <<page, index, loaded, regVars, type, game, no_sd, max_page, envVars>>
  BY DEF LoadPage
<1> DEFINE Up == z80 = "page_halt" /\ z80' = "file_menu" /\ nmi_code' = "zero"
           In == z80 = "page_cmd" /\ z80' = "page_halt" /\ nmi_code' = "retn"
<1>2. /\ index = 0 /\ curr_page' = page /\ no_sd # -1 /\ IsList(list')
      /\ sd_empty' \in BOOLEAN /\ (no_sd # 1 /\ ~sd_empty' => list'.size > 0)
      /\ \/ /\ table' = Entries(list', no_sd) /\ left' = PagesLeft(page) /\ (Up \/ In)
         \/ /\ adverse /\ UNCHANGED <<table, left>>
            /\ z80' = "crashed" /\ nmi_code' \in {"zero", "video"}
  BY LoadPageDoes
<1>3. /\ Entries(list', no_sd) \in Seq(Row) /\ Len(Entries(list', no_sd)) > 0
      /\ PagesLeft(page) \in 0 .. ByteMod - 1
  <2>1. Entries(list', no_sd) \in Seq(Row) /\ Len(Entries(list', no_sd)) > 0
    BY <1>2, EntriesType
  <2>2. max_page \in Nat /\ page \in Nat
    BY DEF IInv, Types, SdTypes, Z80Types
  <2> QED
    BY <2>1, <2>2, ByteSize DEF PagesLeft
<1>4. z80' \in {"file_menu", "page_halt", "crashed"} /\ nmi_code' \in {"zero", "video", "retn"}
  BY <1>2
<1>5. Types'
  <2>1. Z80Types'
    BY <1>1, <1>4 DEF IInv, Types, Z80Types, Phases, Halted
  <2>2. MemTypes'
    BY <1>2, <1>3, <1>4 DEF IInv, Types, MemTypes
  <2>3. FwTypes' /\ SdTypes'
    BY <1>1, <1>2 DEF IInv, Types, FwTypes, SdTypes, Z80Types
  <2> QED
    BY <1>1, <2>1, <2>2, <2>3 DEF IInv, Types, RegTypes, CardTypes, regVars, envVars
<1>6. Control' /\ Commands'
  BY <1>1 DEF Control, Acking, Commands, Pending
<1>7. Routine' /\ TopFirst' /\ IndexInTable' /\ Shown' /\ NoCrash'
  BY <1>1, <1>2, <1>3 DEF Routine, Pending, TopFirst, IndexInTable, Shown, NoCrash, envVars
<1> QED
  BY <1>5, <1>6, <1>7 DEF IInv

(* load_game takes the name that is highlighted, from the list that is shown. *)
LEMMA LoadGameDoes ==
  ASSUME IInv, LoadGame
  PROVE  /\ z80 \in {"load_cmd", "load_halt"} /\ list' = list
         /\ table[index + 1] = list.slots[reg.game] /\ list.slots[reg.game] \in FileName
<1>1. /\ fw = "dispatch" /\ type = "SD" /\ reg.rw = "write" /\ no_sd # 1 /\ ~sd_empty
  BY DEF LoadGame
<1>2. /\ z80 \in {"load_cmd", "load_halt"} /\ reg.page = page
      /\ reg.game = index % FilesPerPage
  BY <1>1 DEF IInv, Control, Commands, Pending
<1>3. table = Entries(list, no_sd) /\ curr_page = page /\ list.size > 0 /\ index < Len(table)
  BY <1>1, <1>2 DEF IInv, Shown, IndexInTable
<1>4. list' = list
  BY <1>2, <1>3 DEF LoadGame
<1>5. index \in Nat /\ IsList(list)
  BY DEF IInv, Types, Z80Types, SdTypes
<1>6. Len(table) = list.size /\ list.size \in 1 .. FilesPerPage
  BY <1>3, <1>5, EntriesType
<1>7. index \in 0 .. list.size - 1 /\ index % FilesPerPage = index
  BY <1>3, <1>5, <1>6, Sizes
<1>8. table[index + 1] = list.slots[index] /\ index \in Slots
  BY <1>3, <1>5, <1>7, EntriesType
<1>9. list.slots[index] \in FileName
  BY <1>5, <1>6, <1>7, <1>8 DEF IsList
<1> QED
  BY <1>2, <1>4, <1>7, <1>8, <1>9

LEMMA LoadGameInv == IInv /\ LoadGame => IInv'
<1> SUFFICES ASSUME IInv, LoadGame PROVE IInv'
  OBVIOUS
<1> DEFINE name == list.slots[reg.game]
<1>1. name \in FileName /\ z80 \in {"load_cmd", "load_halt"} /\ list' = list
  BY LoadGameDoes
<1>2. dir \in Seq(FileName)
  BY DEF IInv, Types, CardTypes
<1>3. /\ fw = "dispatch" /\ fw' = "ack"
      /\ game' = Chosen(name) \/ game' = game
      /\ \/ loaded' = name /\ z80' = "game" /\ nmi_code' = "video"
         \/ UNCHANGED <<loaded, z80, nmi_code>>
         \/ /\ loaded' = Text("part") /\ z80' = "crashed" /\ nmi_code' = "retn"
            /\ "read" \in Faults
      /\ UNCHANGED <<page, index, left, table, regVars, type,
                     no_sd, sd_empty, max_page, curr_page, envVars>>
  BY <1>1 DEF LoadGame
<1>4. "read" \in Faults => adverse
  BY <1>2, FailingCallType
<1>5. Chosen(name) \in Games
  BY <1>1 DEF Chosen, Games, FileName
<1> HIDE DEF name
<1>6. Types'
  <2>1. Z80Types'
    BY <1>1, <1>3 DEF IInv, Types, Z80Types, Phases
  <2>2. MemTypes' /\ FwTypes'
    BY <1>3 DEF IInv, Types, MemTypes, FwTypes
  <2>3. CardTypes'
    BY <1>3, <1>5 DEF IInv, Types, CardTypes, envVars
  <2> QED
    BY <1>1, <1>3, <2>1, <2>2, <2>3 DEF IInv, Types, RegTypes, SdTypes, regVars
<1>7. Control' /\ Commands'
  BY <1>3 DEF Control, Acking, Commands, Pending
<1>8. Routine' /\ TopFirst' /\ IndexInTable' /\ Shown' /\ NoCrash'
  BY <1>1, <1>3, <1>4 DEF IInv, Routine, Pending, TopFirst, IndexInTable, Shown, NoCrash, envVars
<1> QED
  BY <1>6, <1>7, <1>8 DEF IInv

LEMMA SaveStateInv == IInv /\ SaveState => IInv'
<1> SUFFICES ASSUME IInv, SaveState PROVE IInv'
  OBVIOUS
<1>1. /\ fw = "dispatch" /\ type = "STATE" /\ fw' = "ack" /\ game' = WithoutTag(game)
      /\ UNCHANGED <<page, index, loaded, left, table, regVars, type, sdVars, adverse, resets>>
  BY DEF SaveState
<1>2. z80 \in {"main_menu", "file_menu", "basic", "game"}
  BY <1>1 DEF IInv, Control, Commands, Pending
<1>3. dir \in Seq(FileName) /\ IsInjective(dir) /\ game \in Games
  BY DEF IInv, Types, CardTypes
<1>4. NmiReturn(z80) = z80
  BY <1>2 DEF NmiReturn, Lagging
<1>5. /\ nmi_code' = nmi_code
      /\ z80' = z80 \/ (z80' = "stopped" /\ "create" \in Faults)
      /\ dir' = dir \/ \E fail \in FailingCall : dir' = Create(dir, SaveName(game, dir, fail))
  BY <1>2, <1>4 DEF SaveState
<1>6. dir' \in Seq(FileName) /\ IsInjective(dir')
  BY <1>3, <1>5, SaveNameType, CreateType
<1>7. game' \in Games
  BY <1>1, <1>3, BaseType DEF Games
<1>8. "create" \in Faults => adverse
  BY <1>3, FailingCallType
<1>9. Types'
  <2>1. Z80Types' /\ MemTypes'
    BY <1>1, <1>2, <1>5 DEF IInv, Types, Z80Types, MemTypes, Phases
  <2>2. FwTypes' /\ CardTypes'
    BY <1>1, <1>6, <1>7 DEF IInv, Types, FwTypes, CardTypes
  <2> QED
    BY <1>1, <2>1, <2>2 DEF IInv, Types, RegTypes, SdTypes, regVars, sdVars
<1>10. Control' /\ Commands'
  BY <1>1 DEF Control, Acking, Commands, Pending
<1>11. Routine' /\ TopFirst' /\ IndexInTable' /\ Shown' /\ NoCrash'
  BY <1>1, <1>2, <1>5, <1>8 DEF IInv, Routine, Pending, TopFirst, IndexInTable, Shown,
                                NoCrash, sdVars
<1> QED
  BY <1>9, <1>10, <1>11 DEF IInv

LEMMA NextInv ==
  ASSUME CalmUser
  PROVE  IInv /\ [Next]_vars => IInv'
<1> SUFFICES ASSUME IInv, [Next]_vars PROVE IInv'
  OBVIOUS
<1>1. CASE UNCHANGED vars
  <2>1. UNCHANGED <<z80Vars, memVars, regVars, fwVars, envVars>>
    BY <1>1 DEF vars
  <2>2. Types'
    BY <2>1 DEF IInv, Types, Z80Types, MemTypes, RegTypes, FwTypes, SdTypes, CardTypes,
                z80Vars, memVars, regVars, fwVars, sdVars, envVars
  <2>3. Control'
    BY <2>1 DEF IInv, Control, Acking, z80Vars, memVars, regVars, fwVars, sdVars
  <2>4. Commands' /\ Routine' /\ TopFirst' /\ IndexInTable' /\ Shown' /\ NoCrash'
    BY <2>1 DEF IInv, Commands, Pending, Routine, TopFirst, IndexInTable, Shown, NoCrash,
                z80Vars, memVars, regVars, fwVars, sdVars, envVars
  <2> QED
    BY <2>2, <2>3, <2>4 DEF IInv
<1>2. CASE PressButton \/ ReleaseButton \/ RequestMenu \/ Halt \/ Reboot
  BY <1>2, PressButtonInv, ReleaseButtonInv, RequestMenuInv, HaltInv, StartInv
<1>3. CASE Menu
  BY <1>3, ShowPageInv, BasicHandlerInv, MoveInv, SelectInv DEF Menu
<1>4. CASE Firmware
  BY <1>4, WriteMenuInv, ReadCommandInv, PassInv, LoadPageInv, LoadGameInv, SaveStateInv,
     AckSetInv, AckClearInv DEF Firmware
<1>5. CASE ResetNios \/ ResetZ80
  BY <1>5, ResetNiosInv, StartInv
<1> QED
  BY <1>1, <1>2, <1>3, <1>4, <1>5 DEF Next

(* The inductive invariant. *)
THEOREM LoaderInvariant ==
  ASSUME CalmUser
  PROVE  Spec => []IInv
<1>1. Init => IInv
  BY InitInv
<1>2. IInv /\ [Next]_vars => IInv'
  BY NextInv
<1> QED
  BY <1>1, <1>2, PTL DEF Spec

(* No handler, whatever call of the card or of the DMA layer fails, gives a   *)
(* variable a value it should not have: a name that is loaded is one of the   *)
(* card's, a page number a byte, the directory has no name twice.             *)
THEOREM TypeCorrect ==
  ASSUME CalmUser
  PROVE  Spec => []TypeOK
<1>1. IInv => TypeOK
  <2> SUFFICES ASSUME IInv PROVE TypeOK
    OBVIOUS
  <2>1. Types
    BY DEF IInv
  <2>2. list \in [size : 0 .. FilesPerPage, slots : [Slots -> Slot]]
    BY <2>1 DEF Types, SdTypes, IsList
  <2> QED
    BY <2>1, <2>2 DEF TypeOK, Types, Z80Types, MemTypes, RegTypes, FwTypes, SdTypes,
                      CardTypes, Row, Command, Games
<1> QED
  BY <1>1, LoaderInvariant, PTL

(* As long as nothing fails, no NMI sends the Z80 to bytes that are no        *)
(* routine, and no stopped Z80 is left behind (load_page, write_menu).        *)
THEOREM NothingCrashes ==
  ASSUME CalmUser
  PROVE  Spec => []NoCrash
<1>1. IInv => NoCrash
  BY DEF IInv
<1> QED
  BY <1>1, LoaderInvariant, PTL

(* The index that FILE_SEL_HNDLR sends unchecked is that of an entry of the   *)
(* table, whatever the last listing did.                                      *)
THEOREM HighlightInTable ==
  ASSUME CalmUser
  PROVE  Spec => []IndexInTable
<1>1. IInv => IndexInTable
  BY DEF IInv
<1> QED
  BY <1>1, LoaderInvariant, PTL

(* A save state replaces no file of the card, with the exceptions that        *)
(* SaveNameIsNew names (get_save_num, save_state).                            *)
THEOREM SavesAreNew ==
  ASSUME CalmUser
  PROVE  Spec => []SaveNameIsNew
<1>1. IInv => SaveNameIsNew
  <2> SUFFICES ASSUME IInv, Max(Nums(game, dir)) \in -1 .. MaxSaveNum - 1,
                      is_supported_file(SaveName(game, dir, 0))
               PROVE  SaveName(game, dir, 0) \notin ToSet(dir)
    BY DEF SaveNameIsNew, Nums
  <2>1. game \in Games /\ dir \in Seq(FileName)
    BY DEF IInv, Types, CardTypes
  <2> QED
    BY <2>1, NewSaveName
<1> QED
  BY <1>1, LoaderInvariant, PTL

(* The file that load_game loads is the one whose name is highlighted, also   *)
(* after listings that failed half way.                                       *)
THEOREM LoadsTheHighlighted ==
  ASSUME CalmUser
  PROVE  Spec => SelectionHonoured
<1>1. IInv /\ [Next]_vars =>
        [loaded' \notin {loaded, Text("part"), Text("none")} => loaded' = table[index + 1]]_vars
  <2> SUFFICES ASSUME IInv, Next, loaded' \notin {loaded, Text("part"), Text("none")}
               PROVE  loaded' = table[index + 1]
    OBVIOUS
  <2>1. CASE LoadGame
    <3>1. list' = list /\ table[index + 1] = list.slots[reg.game]
      BY <2>1, LoadGameDoes
    <3>2. loaded' \in {list'.slots[reg.game], loaded, Text("part")}
      BY <2>1 DEF LoadGame
    <3> QED
      BY <3>1, <3>2
  <2>2. CASE ~LoadGame
    <3>1. ~Reboot /\ ~ResetZ80
      BY DEF Reboot, ResetZ80, StartZ80
    <3>2. ~(PressButton \/ ReleaseButton \/ RequestMenu \/ Halt \/ Menu \/ ResetNios)
      BY DEF PressButton, ReleaseButton, RequestMenu, Halt, Menu, SdHandler, BasicHandler,
             MoveUp, MoveDown, Right, Left, ShowPage, Select, ResetNios, z80Vars
    <3>3. ~Firmware
      BY <2>2 DEF Firmware, WriteMenu, ReadCommand, Ignore, ToMenu, LoadPage, SaveState,
                  AckSet, AckClear, z80Vars
    <3> QED
      BY <3>1, <3>2, <3>3 DEF Next
  <2> QED
    BY <2>1, <2>2
<1> QED
  BY <1>1, LoaderInvariant, PTL DEF Spec, SelectionHonoured

-----------------------------------------------------------------------------
(* The pages of a card that a byte can number. *)

CardsFit == /\ MaxEntries <= FilesPerPage * ByteMod
            /\ \A d \in Cards : Len(d) <= FilesPerPage * ByteMod

\* max_page is not more than the pages of the card.
Counted ==
  /\ no_sd = -1 => max_page = 0
  /\ no_sd = 1 => max_page = 1
  /\ no_sd = 0 => /\ max_page \in 1 .. ByteMod
                  /\ \A p \in Nat : p < max_page => PageBegins(dir, p)

\* There is room for the save state that is pending.
Room ==
  /\ Len(dir) <= FilesPerPage * ByteMod
  /\ Pending /\ reg.type = "STATE" => Len(dir) < MaxEntries

\* The page the Z80 is on, or has asked for, is one of them.
OnAPage ==
  fw # "reset" =>
    /\ z80 \in {"page_cmd", "page_halt", "file_menu", "load_cmd", "load_halt"} =>
         page = 0 \/ page < max_page
    /\ z80 = "file_menu" => left = PagesLeft(page)

Paged == Counted /\ Room /\ OnAPage

LEMMA CardAndCount ==
  ASSUME [Next]_vars, ~SaveState
  PROVE  /\ UNCHANGED dir
         /\ UNCHANGED <<no_sd, max_page>> \/ ReadCommand \/ ResetNios
<1>1. CASE UNCHANGED vars
  BY <1>1 DEF vars, fwVars, sdVars, envVars
<1>2. CASE PressButton \/ ReleaseButton \/ RequestMenu \/ Halt \/ Reboot
  BY <1>2 DEF PressButton, ReleaseButton, RequestMenu, Halt, Reboot, fwVars, sdVars, envVars
<1>3. CASE Menu
  BY <1>3 DEF Menu, SdHandler, BasicHandler, MoveUp, MoveDown, Right, Left, ShowPage, Select,
              fwVars, sdVars, envVars
<1>4. CASE WriteMenu \/ Ignore \/ ToMenu \/ LoadPage \/ LoadGame \/ AckSet \/ AckClear
  BY <1>4 DEF WriteMenu, Ignore, ToMenu, LoadPage, LoadGame, AckSet, AckClear, sdVars, envVars
<1>5. CASE ReadCommand \/ ResetNios
  BY <1>5 DEF ReadCommand, ResetNios, envVars
<1>6. CASE ResetZ80
  BY <1>6 DEF ResetZ80, sdVars, envVars
<1> QED
  BY <1>1, <1>2, <1>3, <1>4, <1>5, <1>6 DEF Next, Firmware

LEMMA SaveStateKeeps ==
  ASSUME IInv, Counted, Room, CardsFit, SaveState
  PROVE  Counted' /\ Len(dir') <= FilesPerPage * ByteMod
<1>1. dir \in Seq(FileName) /\ IsInjective(dir) /\ game \in Games /\ Count(dir) \in Nat
      /\ Len(dir) \in Nat
  BY CountType DEF IInv, Types, CardTypes
<1>2. Len(dir) < MaxEntries /\ MaxEntries <= FilesPerPage * ByteMod
  BY DEF SaveState, IInv, Control, Pending, Room, CardsFit
<1>3. dir' = dir \/ \E fail : dir' = Create(dir, SaveName(game, dir, fail))
  BY DEF SaveState
<1>4. Count(dir) <= Count(dir') /\ Len(dir') <= Len(dir) + 1 /\ dir' \in Seq(FileName)
  <2>1. CASE dir' = dir
    BY <1>1, <2>1
  <2>2. CASE dir' # dir
    <3>1. PICK fail : dir' = Create(dir, SaveName(game, dir, fail))
      BY <1>3, <2>2
    <3>2. SaveName(game, dir, fail) \in FileName
      BY <1>1, SaveNameType
    <3> QED
      BY <1>1, <3>1, <3>2, CreateType
  <2> QED
    BY <2>1, <2>2
<1>5. Count(dir') \in Nat /\ Len(dir') \in Nat
  BY <1>4, CountType
<1>6. ASSUME NEW p \in Nat, PageBegins(dir, p) PROVE PageBegins(dir', p)
  <2>1. p * FilesPerPage \in Nat
    BY Products
  <2> QED
    BY <1>1, <1>4, <1>5, <1>6, <2>1 DEF PageBegins
<1>7. UNCHANGED <<no_sd, max_page>>
  BY DEF SaveState, sdVars
<1>8. Counted'
  BY <1>6, <1>7 DEF Counted
<1>9. FilesPerPage * ByteMod \in Nat /\ MaxEntries \in Nat
  BY Sizes, SizesAssumption
<1> QED
  BY <1>1, <1>2, <1>4, <1>5, <1>8, <1>9

LEMMA ReadCommandCounts ==
  ASSUME IInv, Counted, Room, ReadCommand
  PROVE  /\ Counted' /\ no_sd' # -1
         /\ page = 0 \/ page < max_page => page = 0 \/ page < max_page'
<1>1. dir' = dir /\ dir \in Seq(FileName) /\ Len(dir) <= FilesPerPage * ByteMod
  BY DEF ReadCommand, envVars, IInv, Types, CardTypes, Room
<1>2. CASE no_sd = -1
  <2>1. PICK fail : /\ no_sd' = IF num_of_pages(dir, fail) < 0 THEN 1 ELSE 0
                    /\ max_page' = IF num_of_pages(dir, fail) < 0 THEN 1
                                   ELSE num_of_pages(dir, fail)
    BY <1>2 DEF ReadCommand, InitSd
  <2> DEFINE n == num_of_pages(dir, fail)
  <2>2. /\ n = -1 \/ n \in Nat \ {0}
        /\ \A p \in Nat : p < n => PageBegins(dir, p)
        /\ n <= ByteMod
    BY <1>1, PagesAreThere
  <2> HIDE DEF n
  <2>3. CASE n = -1
    <3>1. no_sd' = 1 /\ max_page' = 1
      BY <2>1, <2>3 DEF n
    <3> QED
      BY <1>2, <3>1 DEF Counted, IInv, Types, Z80Types
  <2>4. CASE n \in Nat \ {0}
    <3>1. no_sd' = 0 /\ max_page' = n
      BY <2>1, <2>4 DEF n
    <3>2. Counted'
      BY <1>1, <2>2, <2>4, <3>1, ByteSize DEF Counted
    <3> QED
      BY <1>2, <3>1, <3>2 DEF Counted, IInv, Types, Z80Types
  <2> QED
    BY <2>2, <2>3, <2>4
<1>3. CASE no_sd # -1
  <2>1. UNCHANGED <<no_sd, max_page>>
    BY <1>3 DEF ReadCommand, sdVars
  <2> QED
    BY <1>1, <1>3, <2>1 DEF Counted
<1> QED
  BY <1>2, <1>3

LEMMA CountedStep ==
  ASSUME IInv, Counted, Room, CardsFit, [Next]_vars
  PROVE  Counted'
<1>1. CASE SaveState
  BY <1>1, SaveStateKeeps
<1>2. CASE ReadCommand
  BY <1>2, ReadCommandCounts
<1>3. CASE ResetNios
  BY <1>3 DEF ResetNios, Counted
<1>4. CASE UNCHANGED <<dir, no_sd, max_page>>
  BY <1>4 DEF Counted
<1> QED
  BY <1>1, <1>2, <1>3, <1>4, CardAndCount

LEMMA RoomStep ==
  ASSUME CalmUser, IInv, Counted, Room, CardsFit, [Next]_vars
  PROVE  Room'
<1>1. CASE SaveState
  <2>1. fw' = "ack"
    BY <1>1 DEF SaveState
  <2> QED
    BY <1>1, <2>1, SaveStateKeeps DEF Room, Pending
<1>2. CASE ~SaveState
  <2>1. dir' = dir
    BY <1>2, CardAndCount
  <2>2. CASE PressButton
    <3>1. Len(dir) < MaxEntries
      BY <2>2 DEF PressButton
    <3> QED
      BY <2>1, <3>1 DEF Room
  <2>3. CASE RequestMenu \/ SdHandler \/ Right \/ Left \/ Select
    <3>1. UserMayAct /\ \E c : Issue(c) /\ c.type # "STATE"
      BY <2>3 DEF RequestMenu, SdHandler, Right, Left, ShowPage, Select, Cmd
    <3>2. reg'.type # "STATE"
      BY <3>1, CalmActs
    <3> QED
      BY <2>1, <3>2 DEF Room
  <2>4. CASE ReleaseButton \/ Halt \/ Reboot \/ BasicHandler \/ MoveUp \/ MoveDown
    <3>1. UNCHANGED <<en, reg, fw>>
      BY <2>4 DEF ReleaseButton, Halt, Reboot, BasicHandler, MoveUp, MoveDown, regVars, fwVars
    <3> QED
      BY <2>1, <3>1 DEF Room, Pending
  <2>5. CASE WriteMenu \/ Ignore \/ ToMenu \/ LoadPage \/ LoadGame \/ ResetZ80
    <3>1. UNCHANGED <<en, reg>> /\ (fw = "dispatch" \/ fw' \notin {"listen", "dispatch", "menu"})
      BY <2>5 DEF WriteMenu, Ignore, ToMenu, LoadPage, LoadGame, ResetZ80, regVars
    <3> QED
      BY <2>1, <3>1 DEF Room, Pending
  <2>6. CASE ReadCommand
    <3>1. UNCHANGED <<en, reg>> /\ fw = "listen"
      BY <2>6 DEF ReadCommand, regVars
    <3> QED
      BY <2>1, <3>1 DEF Room, Pending
  <2>7. CASE AckSet \/ AckClear \/ ResetNios
    <3>1. ~en'
      BY <2>7 DEF AckSet, AckClear, ResetNios, IInv, Control
    <3> QED
      BY <2>1, <3>1 DEF Room, Pending
  <2>8. CASE UNCHANGED vars
    <3>1. UNCHANGED <<en, reg, fw>>
      BY <2>8 DEF vars, regVars, fwVars
    <3> QED
      BY <2>1, <3>1 DEF Room, Pending
  <2> QED
    BY <1>2, <2>2, <2>3, <2>4, <2>5, <2>6, <2>7, <2>8 DEF Next, Menu, Firmware
<1> QED
  BY <1>1, <1>2

(* The pages after the Z80's, when its page is one of the card's: the cut to  *)
(* a byte loses nothing.                                                      *)
LEMMA LeftIsRest ==
  ASSUME IInv, Counted, no_sd # -1, page = 0 \/ page < max_page
  PROVE  /\ page < max_page /\ PagesLeft(page) = max_page - 1 - page
         /\ no_sd = 0 => PageBegins(dir, page)
         /\ PagesLeft(page) # 0 => (page + 1) % ByteMod = page + 1 /\ page + 1 < max_page
<1>1. /\ page \in 0 .. ByteMod - 1 /\ page \in Nat /\ no_sd \in {0, 1} /\ max_page \in Nat
      /\ ByteMod \in Nat /\ ByteMod > 0
  BY ByteSize DEF IInv, Types, Z80Types, SdTypes
<1>2. max_page \in 1 .. ByteMod
  BY <1>1 DEF Counted
<1>3. page < max_page
  BY <1>1, <1>2
<1>4. max_page - (page + 1) \in 0 .. ByteMod - 1
  BY <1>1, <1>2, <1>3
<1>5. PagesLeft(page) = max_page - 1 - page
  BY <1>1, <1>4 DEF PagesLeft
<1>6. no_sd = 0 => PageBegins(dir, page)
  BY <1>1, <1>3 DEF Counted
<1>7. ASSUME PagesLeft(page) # 0
      PROVE  (page + 1) % ByteMod = page + 1 /\ page + 1 < max_page
  <2>1. page + 1 < max_page
    BY <1>1, <1>3, <1>5, <1>7
  <2>2. page + 1 \in 0 .. ByteMod - 1
    BY <1>1, <1>2, <2>1
  <2> QED
    BY <1>1, <2>1, <2>2
<1> QED
  BY <1>3, <1>5, <1>6, <1>7

LEMMA OnAPageStep ==
  ASSUME CalmUser, IInv, Paged, [Next]_vars
  PROVE  OnAPage'
<1>1. CASE ReleaseButton \/ PressButton \/ MoveUp \/ MoveDown \/ Halt \/ Select \/ UNCHANGED vars
  <2>1. /\ UNCHANGED <<page, left, max_page, fw>>
        /\ \/ z80' = z80
           \/ z80' = "init_halt"
           \/ z80 = "page_cmd" /\ z80' = "page_halt"
           \/ z80 \in {"file_menu", "load_cmd"} /\ z80' \in {"load_cmd", "load_halt"}
    BY <1>1 DEF ReleaseButton, PressButton, MoveUp, MoveDown, Halt, Select, Lagging, HaltOf,
                vars, z80Vars, memVars, fwVars, sdVars
  <2> QED
    BY <2>1 DEF Paged, OnAPage, PagesLeft
<1>2. CASE RequestMenu \/ BasicHandler \/ Reboot \/ ResetZ80 \/ SdHandler
  BY <1>2 DEF RequestMenu, BasicHandler, Reboot, ResetZ80, StartZ80, SdHandler, OnAPage
<1>3. CASE ResetNios
  BY <1>3 DEF ResetNios, OnAPage
<1>4. CASE Right \/ Left
  <2>1. /\ z80 = "file_menu" /\ z80' = "page_cmd" /\ UNCHANGED <<max_page, fw>>
        /\ \/ left # 0 /\ page' = (page + 1) % ByteMod
           \/ page # 0 /\ page' = page - 1
    BY <1>4 DEF Right, Left, ShowPage, fwVars, sdVars
  <2> SUFFICES ASSUME fw # "reset" PROVE page' = 0 \/ page' < max_page
    BY <2>1 DEF OnAPage
  <2>2. (page = 0 \/ page < max_page) /\ left = PagesLeft(page) /\ no_sd # -1
    BY <2>1 DEF Paged, OnAPage, IInv, Shown
  <2>3. /\ page < max_page
        /\ PagesLeft(page) # 0 => (page + 1) % ByteMod = page + 1 /\ page + 1 < max_page
    BY <2>2, LeftIsRest DEF Paged
  <2>4. page \in Nat /\ max_page \in Nat
    BY DEF IInv, Types, Z80Types, SdTypes
  <2> QED
    BY <2>1, <2>2, <2>3, <2>4
<1>5. CASE WriteMenu
  <2>1. z80 \in {"boot", "init_cmd", "init_halt"}
    BY <1>5 DEF WriteMenu, Heard, IInv, Control, Commands, Pending
  <2>2. z80' \in {"boot", "init_cmd", "init_halt", "main_menu"}
    BY <1>5, <2>1 DEF WriteMenu, RunNmi, NmiReturn, Lagging, HaltOf
  <2> QED
    BY <2>2 DEF OnAPage
<1>6. CASE ReadCommand
  <2>1. UNCHANGED <<z80, page, left>> /\ fw = "listen"
    BY <1>6 DEF ReadCommand, z80Vars, memVars
  <2>2. page = 0 \/ page < max_page => page = 0 \/ page < max_page'
    BY <1>6, ReadCommandCounts DEF Paged
  <2>3. z80 = "file_menu" => no_sd # -1
    BY <2>1 DEF IInv, Shown
  <2>4. no_sd # -1 => max_page' = max_page
    BY <1>6 DEF ReadCommand, sdVars
  <2> QED
    BY <2>1, <2>2, <2>3, <2>4 DEF Paged, OnAPage, PagesLeft
<1>7. CASE Ignore \/ ToMenu \/ AckSet \/ AckClear
  <2>1. UNCHANGED <<z80, page, left, max_page>> /\ fw # "reset"
    BY <1>7 DEF Ignore, ToMenu, AckSet, AckClear, Acking, z80Vars, memVars, sdVars
  <2> QED
    BY <2>1 DEF Paged, OnAPage, PagesLeft
<1>8. CASE LoadPage
  <2>1. /\ fw = "dispatch" /\ UNCHANGED <<page, max_page>>
    BY <1>8 DEF LoadPage
  <2>2. /\ z80 \in {"page_cmd", "page_halt"}
        /\ z80' = "file_menu" => left' = PagesLeft(page)
    BY <1>8, LoadPageDoes
  <2> QED
    BY <2>1, <2>2 DEF Paged, OnAPage, PagesLeft
<1>9. CASE LoadGame
  <2>1. /\ fw = "dispatch" /\ UNCHANGED <<page, left, max_page>>
        /\ z80' \in {z80, "game", "crashed"}
    BY <1>9 DEF LoadGame
  <2> QED
    BY <2>1 DEF Paged, OnAPage, PagesLeft
<1>10. CASE SaveState
  <2>1. z80 \in {"main_menu", "file_menu", "basic", "game"} /\ fw = "dispatch"
    BY <1>10 DEF SaveState, IInv, Control, Commands, Pending
  <2>2. z80' \in {z80, "stopped"} /\ UNCHANGED <<page, left, max_page>>
    BY <1>10, <2>1 DEF SaveState, NmiReturn, Lagging, sdVars
  <2> QED
    BY <2>1, <2>2 DEF Paged, OnAPage, PagesLeft
<1> QED
  BY <1>1, <1>2, <1>3, <1>4, <1>5, <1>6, <1>7, <1>8, <1>9, <1>10 DEF Next, Menu, Firmware

(* Whatever fails, the page the Z80 is on is one that the card has, and the   *)
(* firmware's count of pages fits a byte.                                     *)
THEOREM PagesInvariant ==
  ASSUME CalmUser, CardsFit
  PROVE  Spec => [](IInv /\ Paged)
<1>1. Init => IInv /\ Paged
  <2>1. Init => Paged
    <3>1. Init => Len(dir) <= FilesPerPage * ByteMod
      BY DEF Init, CardsFit
    <3> QED
      BY <3>1 DEF Init, Paged, Counted, Room, Pending, OnAPage
  <2> QED
    BY <2>1, InitInv
<1>2. IInv /\ Paged /\ [Next]_vars => (IInv /\ Paged)'
  BY NextInv, CountedStep, RoomStep, OnAPageStep DEF Paged
<1> QED
  BY <1>1, <1>2, PTL DEF Spec

(* As long as nothing fails, the page that comes up on the menu is the page   *)
(* of the card that the Z80 counts as its own, file for file, and the count   *)
(* of the pages left fits it (RT_LT_HNDLR, load_page, list_files_of_page).    *)
THEOREM ShowsTheRequested ==
  ASSUME CalmUser, CardsFit
  PROVE  Spec => PageShownIsRequested
<1> DEFINE Agrees ==
      ~adverse /\ z80 = "page_halt" /\ z80' = "file_menu" =>
        /\ table' = IF no_sd' = 1 THEN <<Text("NO SD CARD")>>
                    ELSE IF PageFiles(dir, page) = <<>>
                    THEN <<Text("NO SUPPORTED FILES")>>
                    ELSE PageFiles(dir, page)
        /\ left' = max_page' - 1 - page'
<1>1. IInv /\ Paged /\ [Next]_vars => [Agrees]_vars
  <2> SUFFICES ASSUME IInv, Paged, Next, ~adverse, z80 = "page_halt", z80' = "file_menu"
               PROVE  Agrees
    OBVIOUS
  <2>1. LoadPage
    <3>1. ~(PressButton \/ ReleaseButton \/ RequestMenu \/ Halt \/ Reboot \/ ResetNios \/ ResetZ80)
      BY DEF PressButton, ReleaseButton, RequestMenu, Halt, Lagging, Reboot, StartZ80,
             ResetNios, ResetZ80, z80Vars
    <3>2. ~Menu
      BY DEF Menu, SdHandler, BasicHandler, MoveUp, MoveDown, Right, Left, Select
    <3>3. ~WriteMenu
      BY DEF WriteMenu, Heard, IInv, Control, Commands, Pending
    <3>4. ~SaveState
      BY DEF SaveState, IInv, Control, Commands, Pending
    <3>5. ~LoadGame
      BY LoadGameDoes
    <3>6. ~(ReadCommand \/ Ignore \/ ToMenu \/ AckSet \/ AckClear)
      BY DEF ReadCommand, Ignore, ToMenu, AckSet, AckClear, z80Vars
    <3> QED
      BY <3>1, <3>2, <3>3, <3>4, <3>5, <3>6 DEF Next, Firmware
  <2>2. /\ table' = Entries(list', no_sd) /\ left' = PagesLeft(page)
        /\ reg.page = page /\ no_sd # -1
    BY <2>1, LoadPageDoes
  <2>3. UNCHANGED <<no_sd, max_page, page>> /\ fw = "dispatch"
    BY <2>1 DEF LoadPage
  <2>4. page = 0 \/ page < max_page
    BY <2>3 DEF Paged, OnAPage
  <2>5. left' = max_page' - 1 - page' /\ (no_sd = 0 => PageBegins(dir, page))
    BY <2>2, <2>3, <2>4, LeftIsRest DEF Paged
  <2>6. /\ dir \in Seq(FileName) /\ page \in Nat /\ IsList(list) /\ no_sd \in {-1, 0, 1}
    BY DEF IInv, Types, CardTypes, Z80Types, SdTypes
  <2>7. CASE no_sd = 1
    <3>1. list'.size = 0
      BY <2>1, <2>6, <2>7 DEF LoadPage, IsList
    <3>2. ~(list'.size > 0)
      BY <3>1
    <3>3. Entries(list', no_sd) = <<Text("NO SD CARD")>>
      BY <2>7, <3>2, Zenon DEF Entries
    <3>4. table' = Entries(list', no_sd) /\ no_sd' = 1
      BY <2>2, <2>3, <2>7
    <3> QED
      BY <2>5, <3>3, <3>4, Zenon
  <2>8. CASE no_sd = 0
    <3>1. FailingCall = {0}
      BY <2>6, FailingCallType
    <3>2. list' = list_files_of_page(list, dir, page, 0)
      BY <2>1, <2>2, <2>8, <3>1 DEF LoadPage
    <3>3. Entries(list', 0) = IF PageFiles(dir, page) = <<>>
                              THEN <<Text("NO SUPPORTED FILES")>> ELSE PageFiles(dir, page)
      BY <2>5, <2>6, <2>8, <3>2, EntriesArePage
    <3>4. table' = Entries(list', 0) /\ no_sd' # 1
      BY <2>2, <2>3, <2>8
    <3> QED
      BY <2>5, <3>3, <3>4, Zenon
  <2> QED
    BY <2>2, <2>6, <2>7, <2>8
<1> QED
  BY <1>1, PagesInvariant, PTL DEF Spec, PageShownIsRequested
=============================================================================
