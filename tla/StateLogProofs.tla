--------------------------- MODULE StateLogProofs ---------------------------
(***************************************************************************)
(* What load() can read from completed.log, for all keys, any number of    *)
(* records, resets, torn writes and power losses.                          *)
(***************************************************************************)
EXTENDS StateLog, SequenceTheorems, FiniteSetTheorems, TLAPS

(* F is the set of the first pieces of the keys ever marked, torn the      *)
(* number of writes that were cut short.  The second field of a line,      *)
(* which load() takes for the key, is one of F, or it was cut; then the field    *)
(* behind it, which must be a number, is one of F that was glued to it.    *)
LineOK(L, F, torn) ==
    /\ Len(L) >= 1
    /\ Len(L) >= 2 => L[2] \in F \cup {Junk}
    /\ Len(L) >= 3 /\ L[2] = Junk => L[3] \in F \cup {Junk}
    /\ torn > 0 \/ (Len(L) >= 2 /\ L[2] \in F)

FileOK(ls, o, F, torn) ==
    /\ ls \in Seq(Seq(Fields))
    /\ \A i \in 1 .. Len(ls) : LineOK(ls[i], F, torn)
    /\ o => Len(ls) > 0 /\ torn > 0

(* What is on the disk of the line after the synced ones is a part of it.  *)
SyncedOK(ls, s) ==
    /\ s.lines \in Nat /\ s.fields \in Nat
    /\ s.fields > 0 => s.lines < Len(ls) /\ s.fields <= Len(ls[s.lines + 1])

IInv ==
    /\ ever \subseteq Keys /\ tears \in Nat
    /\ FileOK(lines, open, FirstPieces(ever), tears)
    /\ FileOK(cut[1], cut[2], FirstPieces(ever), tears)
    /\ SyncedOK(lines, synced)

-----------------------------------------------------------------------------
LEMMA JunkIsField == Junk \in Fields /\ Time \in Fields /\ Size \in Fields /\ MD5 \in Fields
BY DEF Fields

(* More keys and more tears leave a line as good as it was.                *)
LEMMA FileGrows ==
    ASSUME NEW ls, NEW o, NEW F, NEW G, NEW t \in Nat, NEW u \in Nat,
           FileOK(ls, o, F, t), F \subseteq G, t <= u
    PROVE  FileOK(ls, o, G, u)
BY DEF FileOK, LineOK

LEMMA EmptyFileOK == ASSUME NEW F, NEW t PROVE FileOK(<<>>, FALSE, F, t)
BY EmptySeq DEF FileOK

(* The record of a key has at least four fields, the second of them the    *)
(* first piece of the key; load() takes it for a record when the key has   *)
(* no tab.                                                                 *)
LEMMA RecordFields ==
    ASSUME PiecesAssumption, NEW k \in Keys
    PROVE  /\ Record(k) \in Seq(Fields)
           /\ Len(Record(k)) >= 4 /\ Record(k)[2] = Pieces[k][1]
           /\ k \in Plain => IsRecord(Record(k)) /\ Record(k)[2] = k
<1> DEFINE P == Pieces[k]
<1>1. P \in Seq(Fields) /\ Len(P) \in Nat /\ Len(P) >= 1
  BY DEF PiecesAssumption
<1>2. k \in Plain => P = <<k>>
  BY DEF Plain
<1> HIDE DEF P
<1>3. /\ <<Time>> \in Seq(Fields) /\ <<Size, MD5>> \in Seq(Fields)
      /\ Len(<<Time>>) = 1 /\ Len(<<Size, MD5>>) = 2
  BY JunkIsField
<1> DEFINE Q == <<Time>> \o P
<1>4. /\ Q \in Seq(Fields) /\ Len(Q) = 1 + Len(P) /\ Q[2] = P[1]
  BY <1>1, <1>3, ConcatProperties
<1> HIDE DEF Q
<1>5. /\ Q \o <<Size, MD5>> \in Seq(Fields)
      /\ Len(Q \o <<Size, MD5>>) = 3 + Len(P)
      /\ (Q \o <<Size, MD5>>)[2] = P[1]
      /\ (Q \o <<Size, MD5>>)[2 + Len(P)] = Size
  BY <1>1, <1>3, <1>4, ConcatProperties
<1>6. Record(k) = Q \o <<Size, MD5>>
  BY DEF Record, P, Q
<1>7. ASSUME k \in Plain PROVE IsRecord(Record(k)) /\ Record(k)[2] = k
  <2>1. Len(P) = 1 /\ P[1] = k
    BY <1>2, <1>7
  <2> QED BY <1>5, <1>6, <2>1, PiecesAssumption DEF IsRecord
<1>8. Pieces[k][1] = P[1]
  BY DEF P
<1> QED BY <1>1, <1>5, <1>6, <1>7, <1>8

LEMMA RecordIsLine ==
    ASSUME PiecesAssumption, NEW k \in Keys, NEW F, Pieces[k][1] \in F,
           NEW t \in Nat
    PROVE  Record(k) \in Seq(Fields) /\ LineOK(Record(k), F, t)
<1>1. Pieces[k][1] # Junk
  BY DEF PiecesAssumption, FirstPieces
<1>2. /\ Record(k) \in Seq(Fields) /\ Len(Record(k)) \in Nat
      /\ Len(Record(k)) >= 4 /\ Record(k)[2] = Pieces[k][1]
  BY RecordFields, LenProperties
<1> QED BY <1>1, <1>2 DEF LineOK

(* A line that is cut is a line.                                           *)
LEMMA TornIsLine ==
    ASSUME NEW L \in Seq(Fields), NEW F, NEW t \in Nat, LineOK(L, F, t),
           NEW u \in Nat, u > 0,
           NEW n \in 1 .. Len(L), NEW x \in TornAt(L, n)
    PROVE  x \in Seq(Fields) /\ LineOK(x, F, u)
<1> DEFINE S == SubSeq(L, 1, n)
<1>0. PICK l \in Nat : l = Len(L) /\ l >= n
  BY LenProperties
<1>1. /\ S \in Seq(Fields) /\ Len(S) = n /\ n \in Nat /\ n >= 1
      /\ \A i \in 1 .. n : S[i] = L[i]
  BY SubSeqProperties
<1> HIDE DEF S
<1>2. (n >= 2 => S[2] = L[2]) /\ (n >= 3 => S[3] = L[3])
  BY <1>1
<1>3. CASE x = S
  BY <1>0, <1>1, <1>2, <1>3 DEF LineOK
<1>4. CASE x = [S EXCEPT ![n] = Junk]
  <2>1. /\ x \in Seq(Fields) /\ Len(x) = n
        /\ \A i \in 1 .. n : x[i] = IF i = n THEN Junk ELSE S[i]
    BY <1>1, <1>4, JunkIsField, ExceptSeq
  <2>2. /\ n >= 2 => x[2] = IF 2 = n THEN Junk ELSE L[2]
        /\ n >= 3 => x[3] = IF 3 = n THEN Junk ELSE L[3]
    BY <1>1, <1>2, <2>1
  <2> QED BY <1>0, <1>1, <2>1, <2>2 DEF LineOK
<1> QED BY <1>3, <1>4 DEF TornAt, S

(* What is appended to an open line makes it a longer one.                 *)
LEMMA GlueIsLine ==
    ASSUME NEW L \in Seq(Fields), NEW M \in Seq(Fields), NEW F,
           NEW u \in Nat, u > 0, LineOK(L, F, u), LineOK(M, F, u)
    PROVE  /\ Glue(L, M) \in Seq(Fields) /\ LineOK(Glue(L, M), F, u)
           /\ Len(Glue(L, M)) >= Len(L)
<1>1. PICK l \in Nat : l = Len(L) /\ l >= 1
  BY LenProperties DEF LineOK
<1>2. PICK m \in Nat : m = Len(M) /\ m >= 1
  BY LenProperties DEF LineOK
<1> DEFINE J == [L EXCEPT ![l] = Junk]
           T == Tail(M)
<1>3. /\ J \in Seq(Fields) /\ Len(J) = l
      /\ \A i \in 1 .. l : J[i] = IF i = l THEN Junk ELSE L[i]
  BY <1>1, JunkIsField, ExceptSeq
<1>4. /\ T \in Seq(Fields) /\ Len(T) = m - 1
      /\ \A i \in 1 .. m - 1 : T[i] = M[i + 1]
  BY <1>2, HeadTailProperties
<1> DEFINE G == J \o T
<1> HIDE DEF J, T
<1>5. /\ G \in Seq(Fields) /\ Len(G) = l + (m - 1)
      /\ \A i \in 1 .. l + (m - 1) :
            G[i] = IF i <= l THEN J[i] ELSE T[i - l]
  <2>1. Len(J) = l /\ Len(T) = m - 1
    BY <1>3, <1>4
  <2>2. /\ J \o T \in Seq(Fields) /\ Len(J \o T) = Len(J) + Len(T)
        /\ \A i \in 1 .. Len(J) + Len(T) :
              (J \o T)[i] = IF i <= Len(J) THEN J[i] ELSE T[i - Len(J)]
    BY <1>3, <1>4, ConcatProperties
  <2> QED BY <2>1, <2>2
<1> HIDE DEF G
<1>6. Glue(L, M) = G
  BY <1>1 DEF Glue, J, T, G
<1>7. \A i \in 1 .. l + (m - 1) :
         G[i] = IF i < l THEN L[i] ELSE IF i = l THEN Junk ELSE M[(i - l) + 1]
  <2> TAKE i \in 1 .. l + (m - 1)
  <2>1. i \in Nat /\ i >= 1 /\ i <= l + (m - 1)
    OBVIOUS
  <2>2. CASE i <= l
    <3>1. G[i] = J[i] /\ i \in 1 .. l
      BY <1>5, <2>1, <2>2
    <3> QED BY <1>3, <2>1, <2>2, <3>1
  <2>3. CASE i > l
    <3>1. G[i] = T[i - l] /\ i - l \in 1 .. m - 1
      BY <1>1, <1>2, <1>5, <2>1, <2>3
    <3> QED BY <1>1, <1>4, <2>1, <2>3, <3>1
  <2> QED BY <1>1, <2>1, <2>2, <2>3
<1>8. LineOK(G, F, u)
  <2>1. CASE l = 1
    <3>1. /\ Len(G) = m
          /\ \A i \in 1 .. m : G[i] = IF i = 1 THEN Junk ELSE M[(i - 1) + 1]
      <4>1. l + (m - 1) = m
        BY <2>1
      <4> QED BY <1>5, <1>7, <2>1, <4>1
    <3>2. (m >= 2 => G[2] = M[2]) /\ (m >= 3 => G[3] = M[3])
      BY <3>1
    <3> QED BY <1>2, <3>1, <3>2 DEF LineOK
  <2>2. CASE l = 2
    <3>1. /\ Len(G) = m + 1
          /\ \A i \in 1 .. m + 1 :
                G[i] = IF i < 2 THEN L[i] ELSE IF i = 2 THEN Junk
                       ELSE M[(i - 2) + 1]
      <4>1. l + (m - 1) = m + 1
        BY <2>2
      <4> QED BY <1>5, <1>7, <2>2, <4>1
    <3>2. G[2] = Junk /\ (m >= 2 => G[3] = M[2])
      BY <1>2, <3>1
    <3> QED BY <1>2, <3>1, <3>2 DEF LineOK
  <2>3. CASE l >= 3
    <3>1. G[2] = L[2] /\ (G[3] = L[3] \/ G[3] = Junk)
      <4>1. PICK g \in Nat : g = l + (m - 1) /\ g >= 3
        BY <1>1, <1>2, <2>3
      <4>2. \A i \in 1 .. g : G[i] = IF i < l THEN L[i] ELSE IF i = l THEN Junk
                                    ELSE M[(i - l) + 1]
        BY <1>7, <4>1
      <4>3. G[2] = L[2]
        BY <4>1, <4>2, <2>3
      <4>4. G[3] = IF 3 < l THEN L[3] ELSE IF 3 = l THEN Junk ELSE M[(3 - l) + 1]
        BY <4>1, <4>2
      <4> QED BY <2>3, <4>3, <4>4
    <3>2. Len(G) \in Nat /\ Len(G) >= 3
      BY <1>1, <1>2, <1>5, <2>3
    <3>3. /\ L[2] \in F \cup {Junk}
          /\ L[2] = Junk => L[3] \in F \cup {Junk}
      BY <1>1, <2>3 DEF LineOK
    <3> QED BY <3>1, <3>2, <3>3 DEF LineOK
  <2>4. l = 1 \/ l = 2 \/ l >= 3
    BY <1>1
  <2> QED BY <2>1, <2>2, <2>3, <2>4
<1>9. Len(G) >= Len(L)
  BY <1>1, <1>2, <1>5
<1> QED BY <1>5, <1>6, <1>8, <1>9

(* A write leaves a file of lines, also when it is cut short, and nothing  *)
(* of what was synced is less than it was.                                 *)
LEMMA AppendedIsFile ==
    ASSUME NEW L \in Seq(Fields), NEW F, NEW t \in Nat,
           FileOK(lines, open, F, t), LineOK(L, F, t), SyncedOK(lines, synced),
           NEW o \in BOOLEAN, o => t > 0
    PROVE  FileOK(Appended(L), o, F, t) /\ SyncedOK(Appended(L), synced)
<1>1. PICK n \in Nat : n = Len(lines)
  BY LenProperties DEF FileOK
<1>2. \A i \in 1 .. n : lines[i] \in Seq(Fields) /\ LineOK(lines[i], F, t)
  BY <1>1, LenProperties DEF FileOK
<1>3. CASE open
  <2>1. n > 0 /\ t > 0
    BY <1>1, <1>3 DEF FileOK
  <2> DEFINE G == Glue(lines[n], L)
  <2>2. /\ G \in Seq(Fields) /\ LineOK(G, F, t) /\ Len(G) >= Len(lines[n])
    BY <1>2, <2>1, GlueIsLine
  <2> HIDE DEF G
  <2>3. Appended(L) = [lines EXCEPT ![n] = G]
    BY <1>1, <1>3, <2>1 DEF Appended, G
  <2>4. /\ Appended(L) \in Seq(Seq(Fields)) /\ Len(Appended(L)) = n
        /\ \A i \in 1 .. n : Appended(L)[i] = IF i = n THEN G ELSE lines[i]
    BY <1>1, <2>1, <2>2, <2>3, ExceptSeq DEF FileOK
  <2>5. FileOK(Appended(L), o, F, t)
    BY <1>2, <2>1, <2>2, <2>4 DEF FileOK
  <2>6. ASSUME synced.fields > 0
        PROVE  synced.lines < n /\ synced.fields <= Len(Appended(L)[synced.lines + 1])
    <3>1. PICK s \in Nat : s = synced.lines /\ s < n
      BY <1>1, <2>6 DEF SyncedOK
    <3>2. synced.fields \in Nat /\ synced.fields <= Len(lines[s + 1])
      BY <2>6, <3>1 DEF SyncedOK
    <3>3. s + 1 \in 1 .. n
      BY <1>1, <3>1
    <3>4. CASE s + 1 = n
      <4>1. Appended(L)[s + 1] = G /\ Len(G) \in Nat /\ Len(lines[n]) \in Nat
        BY <1>2, <2>2, <2>4, <3>3, <3>4, LenProperties
      <4> QED BY <2>2, <3>1, <3>2, <3>4, <4>1
    <3>5. CASE s + 1 # n
      <4>1. Appended(L)[s + 1] = lines[s + 1]
        BY <2>4, <3>3, <3>5
      <4> QED BY <3>1, <3>2, <4>1
    <3> QED BY <3>4, <3>5
  <2> QED BY <2>4, <2>5, <2>6 DEF SyncedOK
<1>4. CASE ~open
  <2>1. Appended(L) = Append(lines, L)
    BY <1>4 DEF Appended
  <2>2. /\ Appended(L) \in Seq(Seq(Fields)) /\ Len(Appended(L)) = n + 1
        /\ \A i \in 1 .. n : Appended(L)[i] = lines[i]
        /\ Appended(L)[n + 1] = L
    BY <1>1, <2>1, AppendProperties DEF FileOK
  <2>3. FileOK(Appended(L), o, F, t)
    <3>1. \A i \in 1 .. n + 1 : LineOK(Appended(L)[i], F, t)
      BY <1>2, <2>2
    <3> QED BY <2>2, <3>1 DEF FileOK
  <2>4. ASSUME synced.fields > 0
        PROVE  /\ synced.lines < n + 1
               /\ synced.fields <= Len(Appended(L)[synced.lines + 1])
    <3>1. PICK s \in Nat : s = synced.lines /\ s < n
      BY <1>1, <2>4 DEF SyncedOK
    <3>2. synced.fields <= Len(lines[s + 1])
      BY <2>4, <3>1 DEF SyncedOK
    <3>3. Appended(L)[s + 1] = lines[s + 1]
      BY <1>1, <2>2, <3>1
    <3> QED BY <1>1, <3>1, <3>2, <3>3
  <2> QED BY <2>2, <2>3, <2>4 DEF SyncedOK
<1> QED BY <1>3, <1>4

LEMMA WholeIsSynced ==
    ASSUME NEW ls, NEW o, NEW F, NEW t, FileOK(ls, o, F, t)
    PROVE  SyncedOK(ls, Whole(ls, o))
<1>1. PICK n \in Nat : n = Len(ls)
  BY LenProperties DEF FileOK
<1>2. CASE o
  <2>1. n > 0 /\ ls[n] \in Seq(Fields)
    BY <1>1, <1>2, LenProperties DEF FileOK
  <2>2. PICK l \in Nat : l = Len(ls[n])
    BY <2>1, LenProperties
  <2>3. Whole(ls, o) = [lines |-> n - 1, fields |-> l]
    BY <1>1, <1>2, <2>2 DEF Whole
  <2>4. n - 1 \in Nat /\ (n - 1) + 1 = n /\ n - 1 < n
    BY <2>1
  <2> QED BY <1>1, <2>2, <2>3, <2>4 DEF SyncedOK
<1>3. CASE ~o
  <2>1. Whole(ls, o) = [lines |-> n, fields |-> 0]
    BY <1>1, <1>3 DEF Whole
  <2> QED BY <2>1 DEF SyncedOK
<1> QED BY <1>2, <1>3

(* What a power loss leaves of a file: some lines, and after them a part   *)
(* of the next one or nothing.                                             *)
LEMMA RemainderIsFile ==
    ASSUME NEW F, NEW t \in Nat, FileOK(lines, open, F, t),
           NEW u \in Nat, u > 0, NEW n \in Nat, n < Len(lines)
    PROVE  /\ FileOK(SubSeq(lines, 1, n), FALSE, F, u)
           /\ \A m \in 1 .. Len(lines[n + 1]) : \A x \in TornAt(lines[n + 1], m) :
                 FileOK(Append(SubSeq(lines, 1, n), x), TRUE, F, u)
<1> DEFINE kept == SubSeq(lines, 1, n)
<1>1. PICK l \in Nat : l = Len(lines)
  BY LenProperties DEF FileOK
<1>2. \A i \in 1 .. l : lines[i] \in Seq(Fields) /\ LineOK(lines[i], F, t)
  BY <1>1, LenProperties DEF FileOK
<1>3. \A i \in 1 .. n : i \in 1 .. l
  BY <1>1
<1>4. /\ kept \in Seq(Seq(Fields)) /\ Len(kept) = n
      /\ \A i \in 1 .. n : kept[i] = lines[i]
  BY <1>2, <1>3, SubSeqProperties
<1> HIDE DEF kept
<1>5. \A i \in 1 .. n : LineOK(kept[i], F, u)
  BY <1>2, <1>3, <1>4 DEF LineOK
<1>6. FileOK(kept, FALSE, F, u)
  BY <1>4, <1>5 DEF FileOK
<1>7. ASSUME NEW m \in 1 .. Len(lines[n + 1]), NEW x \in TornAt(lines[n + 1], m)
      PROVE  FileOK(Append(kept, x), TRUE, F, u)
  <2>1. n + 1 \in 1 .. l
    BY <1>1
  <2>2. x \in Seq(Fields) /\ LineOK(x, F, u)
    BY <1>2, <2>1, TornIsLine
  <2>3. /\ Append(kept, x) \in Seq(Seq(Fields)) /\ Len(Append(kept, x)) = n + 1
        /\ \A i \in 1 .. n : Append(kept, x)[i] = kept[i]
        /\ Append(kept, x)[n + 1] = x
    BY <1>4, <2>2, AppendProperties
  <2>4. ASSUME NEW i \in 1 .. n + 1 PROVE LineOK(Append(kept, x)[i], F, u)
    <3>1. CASE i \in 1 .. n
      BY <1>5, <2>3, <3>1
    <3>2. CASE i = n + 1
      BY <2>2, <2>3, <3>2
    <3>3. i \in 1 .. n \/ i = n + 1
      OBVIOUS
    <3> QED BY <3>1, <3>2, <3>3
  <2>5. /\ Len(Append(kept, x)) > 0
        /\ \A i \in 1 .. Len(Append(kept, x)) : LineOK(Append(kept, x)[i], F, u)
    BY <2>3, <2>4
  <2> QED BY <2>3, <2>5 DEF FileOK
<1> QED BY <1>6, <1>7 DEF kept

-----------------------------------------------------------------------------
LEMMA InitEstablishes == Init => IInv
<1> SUFFICES ASSUME Init PROVE IInv
  OBVIOUS
<1>1. /\ lines = <<>> /\ open = FALSE /\ ever = {} /\ tears = 0
      /\ cut[1] = <<>> /\ cut[2] = FALSE
      /\ synced.lines = 0 /\ synced.fields = 0
  BY DEF Init, NoCut, Nothing
<1>2. FileOK(<<>>, FALSE, FirstPieces({}), 0)
  BY EmptyFileOK
<1>3. SyncedOK(lines, synced)
  BY <1>1 DEF SyncedOK
<1>4. /\ FileOK(lines, open, FirstPieces(ever), tears)
      /\ FileOK(cut[1], cut[2], FirstPieces(ever), tears)
  BY <1>1, <1>2
<1> QED BY <1>1, <1>3, <1>4 DEF IInv

(* The files are untouched, or what is kept of them on the disk grows.     *)
LEMMA SameFiles ==
    ASSUME IInv, UNCHANGED <<file, ever, tears>>,
           cut' = cut \/ cut' = NoCut,
           synced' = synced \/ synced' = Whole(lines, open)
    PROVE  IInv'
<1>1. lines' = lines /\ open' = open /\ ever' = ever /\ tears' = tears
  BY DEF file
<1>2. SyncedOK(lines, Whole(lines, open))
  BY WholeIsSynced DEF IInv
<1>3. FileOK(cut'[1], cut'[2], FirstPieces(ever), tears)
  <2>1. FileOK(<<>>, FALSE, FirstPieces(ever), tears)
    BY EmptyFileOK
  <2>2. NoCut[1] = <<>> /\ NoCut[2] = FALSE
    BY DEF NoCut
  <2>3. CASE cut' = cut
    BY <2>3 DEF IInv
  <2>4. CASE cut' = NoCut
    BY <2>1, <2>2, <2>4
  <2> QED BY <2>3, <2>4
<1>4. SyncedOK(lines, synced')
  BY <1>2 DEF IInv
<1> QED BY <1>1, <1>3, <1>4 DEF IInv

LEMMA MarkCompletedPreserves ==
    ASSUME IInv, NEW k \in Keys, MarkCompleted(k) PROVE IInv'
<1> DEFINE F == FirstPieces(ever)
           E == ever \cup {k}
           G == FirstPieces(E)
<1>1. ever' = E /\ cut' = cut /\ synced' = synced /\ E \subseteq Keys
  BY DEF MarkCompleted, Mark, IInv
<1>2. F \subseteq G /\ Pieces[k][1] \in G
  BY DEF FirstPieces
<1>3. tears' \in Nat /\ tears <= tears' /\ tears \in Nat
  BY DEF MarkCompleted, IInv
<1> DEFINE t == tears
<1>4. /\ FileOK(lines, open, F, t) /\ FileOK(cut[1], cut[2], F, t)
      /\ SyncedOK(lines, synced)
  BY DEF IInv
<1> HIDE DEF F, G, E
<1>5. PICK u \in Nat : u = tears' /\ t <= u
  BY <1>3
<1>6. FileOK(lines, open, G, u) /\ FileOK(cut[1], cut[2], G, u)
  BY <1>2, <1>3, <1>4, <1>5, FileGrows
<1>7. /\ Record(k) \in Seq(Fields) /\ LineOK(Record(k), G, u)
  BY <1>2, PiecesAssumption, RecordIsLine
<1>8. FileOK(lines', open', G, u) /\ SyncedOK(lines', synced)
  <2>1. CASE lines' = Appended(Record(k)) /\ open' = FALSE
    BY <1>4, <1>6, <1>7, <2>1, AppendedIsFile
  <2>2. ASSUME NEW x \in Torn(Record(k)), lines' = Appended(x), open' = TRUE,
               tears' = tears + 1
        PROVE  FileOK(lines', open', G, u) /\ SyncedOK(lines', synced)
    <3>1. u > 0
      BY <1>3, <1>5, <2>2
    <3>2. PICK n \in 1 .. Len(Record(k)) : x \in TornAt(Record(k), n)
      BY <1>7, LenProperties DEF Torn
    <3>3. x \in Seq(Fields) /\ LineOK(x, G, u)
      BY <1>7, <3>1, <3>2, TornIsLine
    <3> QED BY <1>4, <1>6, <2>2, <3>1, <3>3, AppendedIsFile
  <2>3. CASE UNCHANGED file
    BY <1>4, <1>6, <2>3 DEF file
  <2> QED BY <2>1, <2>2, <2>3 DEF MarkCompleted
<1>9. FirstPieces(ever') = G
  BY <1>1 DEF G
<1> QED BY <1>1, <1>5, <1>6, <1>8, <1>9 DEF IInv

LEMMA ResetPreserves == ASSUME IInv, Reset PROVE IInv'
<1>1. CASE UNCHANGED file /\ (Sync \/ UNCHANGED <<synced, cut, flushed>>)
  <2>1. /\ cut' = cut \/ cut' = NoCut
        /\ synced' = synced \/ synced' = Whole(lines, open)
        /\ UNCHANGED <<file, ever, tears>>
    BY <1>1 DEF Reset, Sync, file
  <2> QED BY <2>1, SameFiles
<1>2. CASE /\ lines' = <<>> /\ open' = FALSE /\ synced' = Nothing
           /\ cut' = (IF cut = NoCut THEN file ELSE cut) \/ cut' = NoCut
  <2>1. ever' = ever /\ tears' = tears
    BY DEF Reset
  <2>2. FileOK(<<>>, FALSE, FirstPieces(ever), tears)
    BY EmptyFileOK
  <2>3. \/ cut' = cut \/ (cut'[1] = lines /\ cut'[2] = open)
        \/ cut'[1] = <<>> /\ cut'[2] = FALSE
    <3>1. NoCut[1] = <<>> /\ NoCut[2] = FALSE
      BY DEF NoCut
    <3>2. file[1] = lines /\ file[2] = open
      BY DEF file
    <3> QED BY <1>2, <3>1, <3>2
  <2>4. FileOK(cut'[1], cut'[2], FirstPieces(ever), tears)
    BY <2>2, <2>3 DEF IInv
  <2>5. SyncedOK(<<>>, Nothing)
    BY DEF SyncedOK, Nothing
  <2> QED BY <1>2, <2>1, <2>2, <2>4, <2>5 DEF IInv
<1> QED BY <1>1, <1>2 DEF Reset

LEMMA PowerLossPreserves == ASSUME IInv, PowerLoss PROVE IInv'
<1> DEFINE F == FirstPieces(ever)
<1>1. /\ FileOK(lines, open, F, tears) /\ FileOK(cut[1], cut[2], F, tears)
      /\ SyncedOK(lines, synced) /\ tears \in Nat /\ ever \subseteq Keys
  BY DEF IInv
<1>2. /\ ever' = ever /\ tears' = tears + 1 /\ cut' = NoCut
      /\ synced' = Whole(lines', open')
  BY DEF PowerLoss
<1> HIDE DEF F
<1>3. PICK t \in Nat : t = tears
  BY <1>1
<1>4. PICK u \in Nat : u = tears' /\ u > 0 /\ t <= u
  BY <1>2, <1>3
<1>5. FileOK(lines, open, F, u) /\ FileOK(cut[1], cut[2], F, u)
  BY <1>1, <1>3, <1>4, FileGrows
<1>6. FileOK(lines', open', F, u)
  <2>1. CASE UNCHANGED file
    BY <1>5, <2>1 DEF file
  <2>2. CASE lines' = cut[1] /\ open' = cut[2]
    BY <1>5, <2>2
  <2>3. ASSUME NEW n \in synced.lines .. Len(lines) - 1,
               LET kept == SubSeq(lines, 1, n)
                   safe == IF n = synced.lines THEN synced.fields ELSE 0
               IN  \/ safe = 0 /\ lines' = kept /\ open' = FALSE
                   \/ \E m \in safe + 1 .. Len(lines[n + 1]) :
                         \E x \in TornAt(lines[n + 1], m) :
                            lines' = Append(kept, x) /\ open' = TRUE
                   \/ /\ safe > 0
                      /\ lines' = Append(kept, SubSeq(lines[n + 1], 1, safe))
                      /\ open' = TRUE
        PROVE  FileOK(lines', open', F, u)
    <3> DEFINE kept == SubSeq(lines, 1, n)
               safe == IF n = synced.lines THEN synced.fields ELSE 0
    <3>1. n \in Nat /\ n < Len(lines)
      <4>1. Len(lines) \in Nat /\ synced.lines \in Nat
        BY <1>1, LenProperties DEF FileOK, SyncedOK
      <4> QED BY <4>1
    <3>2. safe \in Nat /\ (safe > 0 => safe <= Len(lines[n + 1]))
      BY <1>1 DEF SyncedOK
    <3>3. /\ FileOK(kept, FALSE, F, u)
          /\ \A m \in 1 .. Len(lines[n + 1]) : \A x \in TornAt(lines[n + 1], m) :
                FileOK(Append(kept, x), TRUE, F, u)
      BY <1>1, <1>3, <1>4, <3>1, RemainderIsFile
    <3> HIDE DEF kept, safe
    <3>4. CASE safe = 0 /\ lines' = kept /\ open' = FALSE
      BY <3>3, <3>4
    <3>5. ASSUME NEW m \in safe + 1 .. Len(lines[n + 1]),
                 NEW x \in TornAt(lines[n + 1], m),
                 lines' = Append(kept, x), open' = TRUE
          PROVE  FileOK(lines', open', F, u)
      <4>1. m \in 1 .. Len(lines[n + 1])
        BY <3>2
      <4> QED BY <3>3, <3>5, <4>1
    <3>6. CASE /\ safe > 0 /\ open' = TRUE
               /\ lines' = Append(kept, SubSeq(lines[n + 1], 1, safe))
      <4>1. Len(lines[n + 1]) \in Nat
        BY <1>1, <3>1, LenProperties DEF FileOK
      <4>2. safe \in 1 .. Len(lines[n + 1])
        BY <3>2, <3>6, <4>1
      <4>3. SubSeq(lines[n + 1], 1, safe) \in TornAt(lines[n + 1], safe)
        BY DEF TornAt
      <4> QED BY <3>3, <3>6, <4>2, <4>3
    <3> QED BY <2>3, <3>4, <3>5, <3>6 DEF kept, safe
  <2> QED BY <2>1, <2>2, <2>3 DEF PowerLoss
<1>7. SyncedOK(lines', synced')
  BY <1>2, <1>6, WholeIsSynced
<1>8. FileOK(cut'[1], cut'[2], F, u)
  <2>1. cut'[1] = <<>> /\ cut'[2] = FALSE
    BY <1>2 DEF NoCut
  <2> QED BY <2>1, EmptyFileOK
<1>9. FirstPieces(ever') = F
  BY <1>2 DEF F
<1> QED BY <1>1, <1>2, <1>4, <1>6, <1>7, <1>8, <1>9 DEF IInv

LEMMA StepPreserves == IInv /\ [Next]_vars => IInv'
<1> SUFFICES ASSUME IInv, [Next]_vars PROVE IInv'
  OBVIOUS
<1>1. CASE NewStateManager \/ Flush \/ Close \/ Kill \/ UNCHANGED vars
  <2>1. /\ UNCHANGED <<file, ever, tears>>
        /\ cut' = cut \/ cut' = NoCut
        /\ synced' = synced \/ synced' = Whole(lines, open)
    BY <1>1 DEF NewStateManager, Flush, Close, Kill, Sync, vars, file
  <2> QED BY <2>1, SameFiles
<1>2. CASE Reset
  BY <1>2, ResetPreserves
<1>3. CASE PowerLoss
  BY <1>3, PowerLossPreserves
<1>4. ASSUME NEW k \in Keys, MarkCompleted(k) PROVE IInv'
  BY <1>4, MarkCompletedPreserves
<1> QED BY <1>1, <1>2, <1>3, <1>4 DEF Next

(* What a restart takes for completed was completed once, for any keys,    *)
(* any number of writes and power losses that cut the log anywhere, and    *)
(* any resets (state.go:54-64, 125-155, 182-210).                          *)
THEOREM LoadedKeysWereMarked == Spec => []LoadedWasMarked
<1>1. IInv => LoadedWasMarked
  <2> SUFFICES ASSUME IInv PROVE LoadedWasMarked
    OBVIOUS
  <2>0. Junk \notin FirstPieces(ever)
    <3>1. FirstPieces(ever) \subseteq FirstPieces(Keys)
      BY DEF IInv, FirstPieces
    <3> QED BY <3>1, PiecesAssumption
  <2> SUFFICES ASSUME NEW i \in DOMAIN lines, IsRecord(lines[i])
               PROVE  \/ lines[i][2] \in FirstPieces(ever)
                      \/ /\ lines[i][2] = Junk /\ tears > 0
                         /\ \E k \in ever : Pieces[k][1] \in Numeric
    BY <2>0 DEF LoadedWasMarked, Loaded
  <2> DEFINE L == lines[i]
             F == FirstPieces(ever)
  <2>1. LineOK(L, F, tears) /\ L \in Seq(Fields)
    BY LenProperties DEF IInv, FileOK
  <2>2. Len(L) \in Nat /\ Len(L) >= 3 /\ L[3] \in Numeric
    BY <2>1, LenProperties DEF IsRecord
  <2>3. /\ L[2] \in F \cup {Junk} /\ (L[2] = Junk => L[3] \in F \cup {Junk})
        /\ tears > 0 \/ L[2] \in F
    BY <2>1, <2>2 DEF LineOK
  <2>4. Junk \notin Numeric
    BY PiecesAssumption
  <2>5. CASE L[2] = Junk /\ L[2] \notin F
    <3>1. L[3] \in F
      BY <2>2, <2>3, <2>4, <2>5
    <3>2. \E k \in ever : Pieces[k][1] \in Numeric
      BY <2>2, <3>1 DEF FirstPieces
    <3> QED BY <2>3, <2>5, <3>2
  <2> QED BY <2>3, <2>5
<1> QED BY <1>1, InitEstablishes, StepPreserves, PTL DEF Spec

-----------------------------------------------------------------------------
(* While no write is cut short, the log holds a record of each key that is *)
(* marked and nothing else.                                                *)
LogIsMarks ==
    tears = 0 => /\ \A i \in 1 .. Len(lines) : \E k \in marked : lines[i] = Record(k)
                 /\ \A k \in marked : \E i \in 1 .. Len(lines) : lines[i] = Record(k)

KInv == /\ IInv /\ LogIsMarks
        /\ flushed \subseteq marked /\ marked \subseteq ever

LEMMA KInvInit == Init => KInv
<1> SUFFICES ASSUME Init PROVE KInv
  OBVIOUS
<1>1. lines = <<>> /\ Len(lines) = 0 /\ marked = {} /\ ever = {} /\ flushed = {}
  BY EmptySeq DEF Init
<1> QED BY <1>1, InitEstablishes DEF KInv, LogIsMarks

LEMMA KInvStep == KInv /\ [Next]_vars => KInv'
<1> SUFFICES ASSUME KInv, [Next]_vars PROVE KInv'
  OBVIOUS
<1>1. IInv'
  BY StepPreserves DEF KInv
<1>2. CASE NewStateManager \/ Flush \/ Close \/ Kill \/ UNCHANGED vars
  <2>1. /\ UNCHANGED <<lines, marked, ever, tears>>
        /\ flushed' = flushed \/ flushed' = marked
    BY <1>2 DEF NewStateManager, Flush, Close, Kill, Sync, vars, file
  <2> QED BY <1>1, <2>1 DEF KInv, LogIsMarks
<1>3. CASE Reset
  <2>1. CASE lines' = <<>> /\ marked' = {} /\ flushed' = {}
    <3>1. Len(lines') = 0
      BY <2>1, EmptySeq
    <3> QED BY <1>1, <2>1, <3>1 DEF KInv, LogIsMarks
  <2>2. CASE UNCHANGED <<lines, marked>> /\ (flushed' = flushed \/ flushed' = marked)
    <3>1. UNCHANGED <<lines, marked, ever, tears>>
      BY <1>3, <2>2 DEF Reset
    <3> QED BY <1>1, <2>2, <3>1 DEF KInv, LogIsMarks
  <2> QED BY <1>3, <2>1, <2>2 DEF Reset, Sync, file
<1>4. CASE PowerLoss
  <2>1. tears' # 0
    BY <1>4 DEF PowerLoss, KInv, IInv
  <2>2. /\ marked' = flushed \cup (marked \cap Loaded(lines'))
        /\ flushed' = marked' /\ ever' = ever
    BY <1>4 DEF PowerLoss
  <2> QED BY <1>1, <2>1, <2>2 DEF KInv, LogIsMarks
<1>5. ASSUME NEW k \in Keys, MarkCompleted(k) PROVE KInv'
  <2>1. /\ marked' = marked \cup {k} /\ ever' = ever \cup {k}
        /\ flushed' = flushed
    BY <1>5 DEF MarkCompleted, Mark
  <2>2. ASSUME tears' = 0 PROVE LogIsMarks'
    <3>1. tears = 0 /\ lines' = Appended(Record(k)) /\ tears \in Nat
      BY <1>5, <2>2 DEF MarkCompleted, KInv, IInv
    <3>2. lines \in Seq(Seq(Fields)) /\ ~open
      BY <3>1 DEF KInv, IInv, FileOK
    <3>3. lines' = Append(lines, Record(k)) /\ Record(k) \in Seq(Fields)
      BY <3>1, <3>2, RecordFields, PiecesAssumption DEF Appended
    <3>4. PICK n \in Nat : n = Len(lines)
      BY <3>2, LenProperties
    <3>5. /\ Len(lines') = n + 1 /\ lines'[n + 1] = Record(k)
          /\ \A i \in 1 .. n : lines'[i] = lines[i]
      BY <3>2, <3>3, <3>4, AppendProperties
    <3>6. ASSUME NEW i \in 1 .. Len(lines')
          PROVE  \E j \in marked' : lines'[i] = Record(j)
      <4>1. i = n + 1 \/ i \in 1 .. n
        BY <3>4, <3>5
      <4> QED BY <2>1, <3>1, <3>4, <3>5, <4>1 DEF KInv, LogIsMarks
    <3>7. ASSUME NEW j \in marked'
          PROVE  \E i \in 1 .. Len(lines') : lines'[i] = Record(j)
      <4>1. CASE j = k
        BY <3>4, <3>5, <4>1
      <4>2. CASE j \in marked
        <5>1. PICK i \in 1 .. n : lines[i] = Record(j)
          BY <3>1, <3>4, <4>2 DEF KInv, LogIsMarks
        <5>2. i \in 1 .. n + 1
          BY <3>4
        <5> QED BY <3>5, <5>1, <5>2
      <4> QED BY <2>1, <4>1, <4>2
    <3> QED BY <3>6, <3>7 DEF LogIsMarks
  <2>3. tears' # 0 => LogIsMarks'
    BY DEF LogIsMarks
  <2> QED BY <1>1, <2>1, <2>2, <2>3 DEF KInv
<1> QED BY <1>2, <1>3, <1>4, <1>5 DEF Next

(* A process that is killed loses no record and brings none back that was  *)
(* reset: while every write is complete, what a restart would load is,     *)
(* whenever the process dies, the keys that are marked (state.go:54-64,    *)
(* 125-155).                                                               *)
THEOREM NothingIsLostByKill == Spec => []KillLosesNothing
<1>1. KInv => KillLosesNothing
  <2> SUFFICES ASSUME KInv, tears = 0
               PROVE  /\ marked \cap Plain \subseteq Loaded(lines)
                      /\ Loaded(lines) \subseteq FirstPieces(marked)
    BY DEF KillLosesNothing
  <2>1. DOMAIN lines = 1 .. Len(lines) /\ marked \subseteq Keys
    BY LenProperties DEF KInv, IInv, FileOK
  <2>2. ASSUME NEW k \in marked \cap Plain PROVE k \in Loaded(lines)
    <3>1. PICK i \in DOMAIN lines : lines[i] = Record(k)
      BY <2>1 DEF KInv, LogIsMarks
    <3>2. IsRecord(lines[i]) /\ lines[i][2] = k
      BY <2>1, <3>1, RecordFields, PiecesAssumption
    <3> QED BY <3>2 DEF Loaded
  <2>3. ASSUME NEW i \in DOMAIN lines PROVE lines[i][2] \in FirstPieces(marked)
    <3>1. PICK k \in marked : lines[i] = Record(k)
      BY <2>1 DEF KInv, LogIsMarks
    <3>2. lines[i][2] = Pieces[k][1]
      BY <2>1, <3>1, RecordFields, PiecesAssumption
    <3> QED BY <3>2 DEF FirstPieces
  <2> QED BY <2>2, <2>3 DEF Loaded
<1> QED BY <1>1, KInvInit, KInvStep, PTL DEF Spec

-----------------------------------------------------------------------------
(* What a tear may cost.  A line without a newline is counted as lost      *)
(* before the next record is glued to it, so that a tear that leaves one   *)
(* has used up half of what it may cost, and the glued record the rest.    *)
Ended(ls, o) == IF o THEN Len(ls) - 1 ELSE Len(ls)
Shows(ls, n, k) == \E i \in 1 .. n : IsRecord(ls[i]) /\ ls[i][2] = k
Lost(S, ls, n) == {k \in S \cap Plain : ~Shows(ls, n, k)}

(* Of all that is marked, and of what is safe from a power loss.           *)
LostSoFar == Lost(marked, lines, Ended(lines, open))
LostOnDisk == Lost(flushed, lines, synced.lines)

TInv ==
    /\ KInv
    /\ IsFiniteSet(marked)
    /\ synced.lines <= Ended(lines, open)
    /\ cut # NoCut => flushed = {}
    /\ Cardinality(LostSoFar) + (IF open THEN 1 ELSE 0) <= 2 * tears
    /\ Cardinality(LostOnDisk) <= 2 * tears

LEMMA AtMostOneMore ==
    ASSUME NEW B, IsFiniteSet(B), NEW x, NEW A, A \subseteq B \cup {x}
    PROVE  /\ IsFiniteSet(A)
           /\ Cardinality(A) \in Nat /\ Cardinality(B) \in Nat
           /\ Cardinality(A) <= Cardinality(B) + 1
<1>1. /\ IsFiniteSet(B \cup {x}) /\ Cardinality(B) \in Nat
      /\ \/ Cardinality(B \cup {x}) = Cardinality(B)
         \/ Cardinality(B \cup {x}) = Cardinality(B) + 1
  BY FS_AddElement, FS_CardinalityType
<1>2. /\ IsFiniteSet(A) /\ Cardinality(A) <= Cardinality(B \cup {x})
      /\ Cardinality(A) \in Nat
  BY <1>1, FS_Subset, FS_CardinalityType
<1> QED BY <1>1, <1>2

LEMMA NoMore ==
    ASSUME NEW B, IsFiniteSet(B), NEW A, A \subseteq B
    PROVE  /\ IsFiniteSet(A)
           /\ Cardinality(A) \in Nat /\ Cardinality(B) \in Nat
           /\ Cardinality(A) <= Cardinality(B)
BY FS_Subset, FS_CardinalityType

(* More lines show no fewer keys.                                          *)
LEMMA LostShrinks ==
    ASSUME NEW S, NEW R, R \subseteq S, NEW ls, NEW ms,
           NEW n \in Int, NEW m \in Int, n <= m,
           \A i \in 1 .. n : ms[i] = ls[i]
    PROVE  Lost(R, ms, m) \subseteq Lost(S, ls, n)
<1>1. \A i \in 1 .. n : i \in 1 .. m
  OBVIOUS
<1>2. ASSUME NEW k, Shows(ls, n, k) PROVE Shows(ms, m, k)
  BY <1>1, <1>2 DEF Shows
<1> QED BY <1>2 DEF Lost

LEMMA LostIsFinite ==
    ASSUME NEW S, IsFiniteSet(S), NEW ls, NEW n
    PROVE  IsFiniteSet(Lost(S, ls, n))
BY FS_Subset DEF Lost

LEMMA EndedIsNat ==
    ASSUME NEW ls, NEW o, NEW F, NEW t \in Nat, FileOK(ls, o, F, t)
    PROVE  /\ Ended(ls, o) \in Nat /\ Len(ls) \in Nat
           /\ Whole(ls, o).lines = Ended(ls, o)
           /\ Ended(ls, o) + (IF o THEN 1 ELSE 0) = Len(ls)
<1>1. PICK n \in Nat : n = Len(ls) /\ (o => n > 0)
  BY LenProperties DEF FileOK
<1> QED BY <1>1 DEF Ended, Whole

(* An append leaves the lines that have ended, and adds one.               *)
LEMMA AppendKeepsEnded ==
    ASSUME NEW F, NEW t \in Nat, FileOK(lines, open, F, t),
           NEW L \in Seq(Fields), LineOK(L, F, t)
    PROVE  /\ Len(Appended(L)) = Ended(lines, open) + 1
           /\ \A i \in 1 .. Ended(lines, open) : Appended(L)[i] = lines[i]
           /\ ~open => Appended(L)[Ended(lines, open) + 1] = L
<1>1. PICK n \in Nat : n = Len(lines) /\ (open => n > 0)
  BY LenProperties DEF FileOK
<1>2. CASE open
  <2>0. Glue(lines[n], L) \in Seq(Fields)
    <3>1. n \in 1 .. Len(lines) /\ t > 0
      BY <1>1, <1>2 DEF FileOK
    <3>2. lines[n] \in Seq(Fields) /\ LineOK(lines[n], F, t)
      BY <3>1, LenProperties DEF FileOK
    <3> QED BY <3>1, <3>2, GlueIsLine
  <2>1. Appended(L) = [lines EXCEPT ![n] = Glue(lines[n], L)]
    BY <1>1, <1>2 DEF Appended
  <2>2. /\ Len(Appended(L)) = n
        /\ \A i \in 1 .. n : i # n => Appended(L)[i] = lines[i]
    BY <1>1, <1>2, <2>0, <2>1, ExceptSeq DEF FileOK
  <2>3. Ended(lines, open) = n - 1
    BY <1>1, <1>2 DEF Ended
  <2>4. \A i \in 1 .. n - 1 : i \in 1 .. n /\ i # n
    BY <1>1
  <2>5. \A i \in 1 .. n - 1 : Appended(L)[i] = lines[i]
    BY <2>2, <2>4
  <2>6. Len(Appended(L)) = (n - 1) + 1
    BY <1>1, <2>2
  <2> QED BY <1>2, <2>3, <2>5, <2>6
<1>3. CASE ~open
  <2>1. Appended(L) = Append(lines, L) /\ Ended(lines, open) = n
    BY <1>1, <1>3 DEF Appended, Ended
  <2>2. /\ Len(Append(lines, L)) = n + 1 /\ Append(lines, L)[n + 1] = L
        /\ \A i \in 1 .. n : Append(lines, L)[i] = lines[i]
    BY <1>1, AppendProperties DEF FileOK
  <2> QED BY <2>1, <2>2
<1> QED BY <1>2, <1>3

(* What MarkCompleted does to the lines: a whole record is shown, unless   *)
(* it is glued to an open line.                                            *)
LEMMA MarkKeepsEnded ==
    ASSUME IInv, NEW k \in Keys, MarkCompleted(k)
    PROVE  /\ Ended(lines, open) \in Nat /\ Ended(lines', open') \in Nat
           /\ Ended(lines, open) <= Ended(lines', open')
           /\ \A i \in 1 .. Ended(lines, open) : lines'[i] = lines[i]
           /\ \/ /\ tears' = tears /\ ~open'
                 /\ ~open /\ k \in Plain => Shows(lines', Ended(lines', open'), k)
              \/ tears' = tears + 1
<1> DEFINE F == FirstPieces(ever)
           G == FirstPieces(ever')
           n == Ended(lines, open)
<1>1. /\ IInv' /\ tears \in Nat /\ tears' \in Nat /\ tears <= tears'
      /\ ever' = ever \cup {k}
  <2>1. IInv'
    BY MarkCompletedPreserves
  <2>2. tears \in Nat
    BY DEF IInv
  <2> QED BY <2>1, <2>2 DEF MarkCompleted, Mark
<1>2. F \subseteq G /\ Pieces[k][1] \in G
  BY <1>1 DEF FirstPieces
<1>3. FileOK(lines, open, F, tears) /\ FileOK(lines', open', G, tears')
  BY <1>1 DEF IInv
<1> HIDE DEF F, G
<1>4. FileOK(lines, open, G, tears')
  BY <1>1, <1>2, <1>3, FileGrows
<1>5. n \in Nat /\ Ended(lines', open') \in Nat
  BY <1>1, <1>3, EndedIsNat
<1>6. Record(k) \in Seq(Fields) /\ LineOK(Record(k), G, tears')
  BY <1>1, <1>2, RecordIsLine, PiecesAssumption
<1>7. ASSUME NEW L \in Seq(Fields), LineOK(L, G, tears'), lines' = Appended(L)
      PROVE  /\ Len(lines') = n + 1 /\ n <= Ended(lines', open')
             /\ \A i \in 1 .. n : lines'[i] = lines[i]
             /\ ~open => lines'[n + 1] = L
  <2>1. /\ Len(lines') = n + 1
        /\ \A i \in 1 .. n : lines'[i] = lines[i]
        /\ ~open => lines'[n + 1] = L
    BY <1>1, <1>4, <1>7, AppendKeepsEnded
  <2> QED BY <1>5, <2>1 DEF Ended
<1>8. CASE lines' = Appended(Record(k)) /\ open' = FALSE /\ tears' = tears
  <2>1. /\ n <= Ended(lines', open') /\ Ended(lines', open') = n + 1
        /\ \A i \in 1 .. n : lines'[i] = lines[i]
        /\ ~open => lines'[n + 1] = Record(k)
    BY <1>6, <1>7, <1>8 DEF Ended
  <2>2. ASSUME ~open, k \in Plain PROVE Shows(lines', n + 1, k)
    <3>1. n + 1 \in 1 .. n + 1 /\ lines'[n + 1] = Record(k)
      BY <1>5, <2>1, <2>2
    <3>2. IsRecord(Record(k)) /\ Record(k)[2] = k
      BY <2>2, RecordFields, PiecesAssumption
    <3> QED BY <3>1, <3>2 DEF Shows
  <2> QED BY <1>5, <1>8, <2>1, <2>2
<1>9. ASSUME NEW x \in Torn(Record(k)), lines' = Appended(x), tears' = tears + 1
      PROVE  n <= Ended(lines', open') /\ \A i \in 1 .. n : lines'[i] = lines[i]
  <2>1. PICK m \in 1 .. Len(Record(k)) : x \in TornAt(Record(k), m)
    BY <1>6, LenProperties DEF Torn
  <2>2. x \in Seq(Fields) /\ LineOK(x, G, tears')
    BY <1>1, <1>6, <1>9, <2>1, TornIsLine
  <2> QED BY <1>7, <1>9, <2>2
<1>10. CASE UNCHANGED file /\ tears' = tears + 1
  BY <1>5, <1>10 DEF file
<1> QED BY <1>5, <1>8, <1>9, <1>10 DEF MarkCompleted

LEMMA TInvMark == ASSUME TInv, NEW k \in Keys, MarkCompleted(k) PROVE TInv'
<1> DEFINE n == Ended(lines, open)
           m == Ended(lines', open')
           c == Cardinality(LostSoFar)
<1>1. /\ marked' = marked \cup {k} /\ flushed' = flushed
      /\ synced' = synced /\ cut' = cut
  BY DEF MarkCompleted, Mark
<1>2. KInv'
  <2>1. [Next]_vars
    BY DEF Next
  <2> QED BY <2>1, KInvStep DEF TInv
<1>3. /\ n \in Nat /\ m \in Nat /\ n <= m
      /\ \A i \in 1 .. n : lines'[i] = lines[i]
      /\ \/ /\ tears' = tears /\ ~open'
            /\ ~open /\ k \in Plain => Shows(lines', m, k)
         \/ tears' = tears + 1
  BY MarkKeepsEnded DEF TInv, KInv
<1>4. IsFiniteSet(marked') /\ IsFiniteSet(LostSoFar) /\ IsFiniteSet(LostOnDisk)
  BY <1>1, FS_AddElement, FS_Subset, LostIsFinite DEF TInv, KInv, LostSoFar, LostOnDisk
<1>5. synced.lines \in Nat /\ synced.lines <= n /\ tears \in Nat
  BY DEF TInv, KInv, IInv, SyncedOK
<1> HIDE DEF n, m
<1>6. LostOnDisk' \subseteq LostOnDisk
  <2>1. \A i \in 1 .. synced.lines : lines'[i] = lines[i]
    BY <1>3, <1>5
  <2> QED BY <1>1, <1>5, <2>1, LostShrinks DEF LostOnDisk
<1>7. /\ Lost(marked, lines', m) \subseteq LostSoFar
      /\ LostSoFar' = Lost(marked', lines', m)
  BY <1>3, LostShrinks DEF LostSoFar, n, m
<1>8. LostSoFar' \subseteq LostSoFar \cup {k}
  BY <1>1, <1>7 DEF Lost
<1>9. /\ c \in Nat /\ Cardinality(LostSoFar') \in Nat
      /\ Cardinality(LostSoFar') <= c + 1
  BY <1>4, <1>8, AtMostOneMore
<1>10. ASSUME ~open, tears' = tears
       PROVE  Cardinality(LostSoFar') <= c
  <2>1. LostSoFar' \subseteq LostSoFar
    BY <1>1, <1>3, <1>5, <1>7, <1>10 DEF Lost
  <2> QED BY <1>4, <2>1, NoMore
<1>11. /\ Cardinality(LostOnDisk') \in Nat /\ Cardinality(LostOnDisk) \in Nat
       /\ Cardinality(LostOnDisk') <= Cardinality(LostOnDisk)
  BY <1>4, <1>6, NoMore
<1>12. c + (IF open THEN 1 ELSE 0) <= 2 * tears
  BY DEF TInv
<1> HIDE DEF c
<1>13. Cardinality(LostSoFar') + (IF open' THEN 1 ELSE 0) <= 2 * tears'
  <2>1. CASE tears' = tears + 1
    BY <1>5, <1>9, <1>12, <2>1
  <2>2. CASE tears' = tears /\ ~open'
    BY <1>5, <1>9, <1>10, <1>12, <2>2
  <2> QED BY <1>3, <2>1, <2>2
<1>14. Cardinality(LostOnDisk') <= 2 * tears'
  <2>1. Cardinality(LostOnDisk) <= 2 * tears /\ (tears' = tears \/ tears' = tears + 1)
    BY <1>3 DEF TInv
  <2> QED BY <1>5, <1>11, <2>1
<1>15. synced'.lines <= m /\ (cut' # NoCut => flushed' = {})
  BY <1>1, <1>3, <1>5 DEF TInv
<1> QED BY <1>2, <1>4, <1>13, <1>14, <1>15 DEF TInv, m

LEMMA TInvInit == Init => TInv
<1> SUFFICES ASSUME Init PROVE TInv
  OBVIOUS
<1>1. KInv /\ marked = {} /\ flushed = {} /\ tears = 0 /\ open = FALSE
  BY KInvInit DEF Init
<1>2. LostSoFar = {} /\ LostOnDisk = {}
  BY <1>1 DEF LostSoFar, LostOnDisk, Lost
<1>3. IsFiniteSet({}) /\ Cardinality({}) = 0
  BY FS_EmptySet
<1>4. synced.lines <= Ended(lines, open)
  BY EmptySeq DEF Init, Nothing, Ended
<1> QED BY <1>1, <1>2, <1>3, <1>4 DEF TInv

(* The files are untouched, or all of the log is on the disk.              *)
LEMMA TInvSync ==
    ASSUME TInv, UNCHANGED <<file, marked, tears>>, KInv',
           \/ Sync
           \/ UNCHANGED <<synced, cut, flushed>>
    PROVE  TInv'
<1>1. UNCHANGED <<lines, open, marked, tears, LostSoFar>>
  BY DEF file, LostSoFar
<1>2. CASE UNCHANGED <<synced, cut, flushed>>
  <2>1. UNCHANGED LostOnDisk
    BY <1>1, <1>2 DEF LostOnDisk
  <2> QED BY <1>1, <1>2, <2>1 DEF TInv
<1>3. CASE Sync
  <2>1. /\ synced'.lines = Ended(lines, open)
        /\ Ended(lines, open) \in Nat /\ tears \in Nat
    BY <1>3, EndedIsNat DEF Sync, TInv, KInv, IInv
  <2>2. LostOnDisk' = LostSoFar /\ cut' = NoCut
    BY <1>1, <1>3, <2>1 DEF LostOnDisk, LostSoFar, Sync
  <2>3. Cardinality(LostSoFar) \in Nat
    BY LostIsFinite, FS_CardinalityType DEF TInv, LostSoFar
  <2>4. Cardinality(LostSoFar) <= 2 * tears
    BY <2>1, <2>3 DEF TInv
  <2> QED BY <1>1, <2>1, <2>2, <2>4 DEF TInv
<1> QED BY <1>2, <1>3

LEMMA TInvReset == ASSUME TInv, Reset PROVE TInv'
<1>1. KInv'
  <2>1. [Next]_vars
    BY DEF Next
  <2> QED BY <2>1, KInvStep DEF TInv
<1>2. CASE /\ lines' = <<>> /\ open' = FALSE /\ synced' = Nothing
           /\ marked' = {} /\ flushed' = {}
  <2>1. LostSoFar' = {} /\ LostOnDisk' = {}
    BY <1>2 DEF LostSoFar, LostOnDisk, Lost
  <2>2. IsFiniteSet({}) /\ Cardinality({}) = 0
    BY FS_EmptySet
  <2>3. synced'.lines <= Ended(lines', open')
    BY <1>2, EmptySeq DEF Nothing, Ended
  <2>4. 0 <= 2 * tears' /\ ~open'
    <3>1. tears' = tears /\ tears \in Nat
      BY DEF Reset, TInv, KInv, IInv
    <3> QED BY <1>2, <3>1
  <2> QED BY <1>1, <1>2, <2>1, <2>2, <2>3, <2>4 DEF TInv
<1>3. CASE /\ UNCHANGED <<file, marked, tears>>
           /\ Sync \/ UNCHANGED <<synced, cut, flushed>>
  BY <1>1, <1>3, TInvSync
<1> QED BY <1>2, <1>3 DEF Reset

(* What a power loss leaves: some of the lines that had ended, of which    *)
(* all that were on the disk, and then perhaps a line that has not.        *)
LEMMA PowerLossKeepsSynced ==
    ASSUME TInv, NEW n \in synced.lines .. Len(lines) - 1, NEW x,
           \/ lines' = SubSeq(lines, 1, n) /\ open' = FALSE
           \/ lines' = Append(SubSeq(lines, 1, n), x) /\ open' = TRUE
    PROVE  /\ Ended(lines', open') = n
           /\ \A i \in 1 .. n : lines'[i] = lines[i]
<1> DEFINE kept == SubSeq(lines, 1, n)
<1>1. /\ synced.lines \in Nat /\ Len(lines) \in Nat
      /\ lines \in Seq(Seq(Fields))
  BY LenProperties DEF TInv, KInv, IInv, FileOK, SyncedOK
<1>2. n \in Nat /\ \A i \in 1 .. n : i \in 1 .. Len(lines)
  BY <1>1
<1>3. /\ kept \in Seq(Seq(Fields)) /\ Len(kept) = n
      /\ \A i \in 1 .. n : kept[i] = lines[i]
  <2>1. \A i \in 1 .. n : lines[i] \in Seq(Fields)
    BY <1>1, <1>2, LenProperties
  <2> QED BY <1>1, <1>2, <2>1, SubSeqProperties
<1> HIDE DEF kept
<1>4. CASE lines' = kept /\ open' = FALSE
  BY <1>3, <1>4 DEF Ended
<1>5. CASE lines' = Append(kept, x) /\ open' = TRUE
  <2> DEFINE U == Seq(Fields) \cup {x}
  <2>1. kept \in Seq(U)
    BY <1>3, LenProperties
  <2>2. /\ Len(Append(kept, x)) = n + 1
        /\ \A i \in 1 .. n : Append(kept, x)[i] = kept[i]
    BY <1>3, <2>1, AppendProperties
  <2> QED BY <1>2, <1>3, <1>5, <2>2 DEF Ended
<1> QED BY <1>4, <1>5 DEF kept

LEMMA TInvPowerLoss == ASSUME TInv, PowerLoss PROVE TInv'
<1> DEFINE m == Ended(lines', open')
           last == lines'[Len(lines')][2]
           Gone == Lost(flushed, lines', m)
           j == IF open' THEN 1 ELSE 0
<1>1. KInv'
  <2>1. [Next]_vars
    BY DEF Next
  <2> QED BY <2>1, KInvStep DEF TInv
<1>2. /\ tears' = tears + 1 /\ cut' = NoCut /\ synced' = Whole(lines', open')
      /\ marked' = flushed \cup (marked \cap Loaded(lines'))
      /\ flushed' = marked'
  BY DEF PowerLoss
<1>3. tears \in Nat /\ flushed \subseteq marked
  BY DEF TInv, KInv, IInv
<1>4. /\ m \in Nat /\ Len(lines') = m + j /\ synced'.lines = m
      /\ DOMAIN lines' = 1 .. Len(lines')
  <2>1. FileOK(lines', open', FirstPieces(ever'), tears') /\ tears' \in Nat
    BY <1>1 DEF KInv, IInv
  <2> QED BY <1>2, <2>1, EndedIsNat, LenProperties DEF FileOK
<1>5. marked' \subseteq marked /\ IsFiniteSet(marked')
  <2>1. marked' \subseteq marked
    BY <1>2, <1>3
  <2> QED BY <2>1, FS_Subset DEF TInv
<1>6. LostSoFar' = Lost(marked', lines', m) /\ LostOnDisk' = Lost(marked', lines', m)
  BY <1>2, <1>4 DEF LostSoFar, LostOnDisk
<1>7. IsFiniteSet(LostSoFar) /\ IsFiniteSet(LostOnDisk)
  BY <1>3, FS_Subset, LostIsFinite DEF TInv, LostSoFar, LostOnDisk
<1> SUFFICES Cardinality(LostSoFar') + j <= 2 * (tears + 1)
  <2>1. IsFiniteSet(LostSoFar')
    BY <1>5, <1>6, LostIsFinite
  <2>2. Cardinality(LostSoFar') \in Nat
    BY <2>1, FS_CardinalityType
  <2>3. Cardinality(LostSoFar') <= 2 * tears'
    BY <1>2, <1>3, <2>2
  <2> QED BY <1>1, <1>2, <1>3, <1>4, <1>5, <1>6, <2>3 DEF TInv
<1>8. CASE UNCHANGED file
  <2>1. LostSoFar' \subseteq LostSoFar /\ UNCHANGED open
    <3>1. lines' = lines /\ open' = open /\ m = Ended(lines, open)
      BY <1>8 DEF file
    <3> QED BY <1>4, <1>5, <1>6, <3>1, LostShrinks DEF LostSoFar
  <2>2. /\ Cardinality(LostSoFar') \in Nat /\ Cardinality(LostSoFar) \in Nat
        /\ Cardinality(LostSoFar') <= Cardinality(LostSoFar)
    BY <1>7, <2>1, NoMore
  <2>3. Cardinality(LostSoFar) + j <= 2 * tears
    BY <2>1 DEF TInv
  <2> QED BY <1>3, <2>2, <2>3
<1>9. ASSUME NEW B, IsFiniteSet(B), Gone \subseteq B, Cardinality(B) <= 2 * tears
      PROVE  Cardinality(LostSoFar') + j <= 2 * (tears + 1)
  <2>1. ASSUME NEW k \in LostSoFar' PROVE k \in B \/ (open' /\ k = last)
    <3>1. k \in marked' /\ k \in Plain /\ ~Shows(lines', m, k)
      BY <1>6 DEF Lost
    <3>2. CASE k \in flushed
      BY <1>9, <3>1, <3>2 DEF Lost
    <3>3. CASE k \in Loaded(lines')
      <4>1. PICK i \in 1 .. m + j : IsRecord(lines'[i]) /\ lines'[i][2] = k
        BY <1>4, <3>3 DEF Loaded
      <4>2. ~(i \in 1 .. m)
        BY <3>1, <4>1 DEF Shows
      <4>3. open' /\ i = m + j
        BY <1>4, <4>2
      <4> QED BY <1>4, <4>1, <4>3
    <3> QED BY <1>2, <3>1, <3>2, <3>3
  <2>2. CASE open'
    <3>1. LostSoFar' \subseteq B \cup {last}
      BY <2>1
    <3> HIDE DEF last
    <3>2. /\ Cardinality(LostSoFar') \in Nat /\ Cardinality(B) \in Nat
          /\ Cardinality(LostSoFar') <= Cardinality(B) + 1
      BY <1>9, <3>1, AtMostOneMore
    <3>3. j = 1
      BY <2>2
    <3> QED BY <1>3, <1>9, <3>2, <3>3
  <2>3. CASE ~open'
    <3>1. LostSoFar' \subseteq B
      BY <2>1, <2>3
    <3>2. /\ Cardinality(LostSoFar') \in Nat /\ Cardinality(B) \in Nat
          /\ Cardinality(LostSoFar') <= Cardinality(B)
      BY <1>9, <3>1, NoMore
    <3>3. j = 0
      BY <2>3
    <3> QED BY <1>3, <1>9, <3>2, <3>3
  <2> QED BY <2>2, <2>3
<1>10. CASE cut # NoCut
  <2>1. flushed = {}
    BY <1>10 DEF TInv
  <2>2. Gone \subseteq {}
    BY <2>1 DEF Lost
  <2>3. IsFiniteSet({}) /\ Cardinality({}) = 0
    BY FS_EmptySet
  <2>4. 0 <= 2 * tears
    BY <1>3
  <2> QED BY <1>9, <2>2, <2>3, <2>4
<1>11. ASSUME NEW n \in synced.lines .. Len(lines) - 1, NEW x,
              \/ lines' = SubSeq(lines, 1, n) /\ open' = FALSE
              \/ lines' = Append(SubSeq(lines, 1, n), x) /\ open' = TRUE
       PROVE  Cardinality(LostSoFar') + j <= 2 * (tears + 1)
  <2>1. m = n /\ \A i \in 1 .. n : lines'[i] = lines[i]
    BY <1>11, PowerLossKeepsSynced
  <2>2. synced.lines \in Nat /\ synced.lines <= n
    BY DEF TInv, KInv, IInv, SyncedOK
  <2>3. \A i \in 1 .. synced.lines : lines'[i] = lines[i]
    BY <2>1, <2>2
  <2>4. Gone \subseteq LostOnDisk
    BY <1>4, <2>1, <2>2, <2>3, LostShrinks DEF LostOnDisk
  <2>5. Cardinality(LostOnDisk) <= 2 * tears
    BY DEF TInv
  <2> QED BY <1>7, <1>9, <2>4, <2>5
<1> HIDE DEF m, last, Gone, j
<1>12. CASE \E n \in synced.lines .. Len(lines) - 1 : \E x :
              \/ lines' = SubSeq(lines, 1, n) /\ open' = FALSE
              \/ lines' = Append(SubSeq(lines, 1, n), x) /\ open' = TRUE
  BY <1>11, <1>12
<1> QED BY <1>8, <1>10, <1>12 DEF PowerLoss

(* What was on the disk before a tear is lost only next to it: each write  *)
(* that is cut short and each power loss costs at most two records, the    *)
(* one it cuts and the one that is glued to what is left of it             *)
(* (state.go:166, 200-203).                                                *)
THEOREM LossesStayLocal == Spec => []TearsStayLocal
<1>1. TInv /\ [Next]_vars => TInv'
  <2> SUFFICES ASSUME TInv, [Next]_vars PROVE TInv'
    OBVIOUS
  <2>1. KInv'
    BY KInvStep DEF TInv
  <2>2. CASE NewStateManager \/ Flush \/ Close \/ Kill \/ UNCHANGED vars
    <3>1. /\ UNCHANGED <<file, marked, tears>>
          /\ Sync \/ UNCHANGED <<synced, cut, flushed>>
      BY <2>2 DEF NewStateManager, Flush, Close, Kill, vars
    <3> QED BY <2>1, <3>1, TInvSync
  <2>3. ASSUME NEW k \in Keys, MarkCompleted(k) PROVE TInv'
    BY <2>3, TInvMark
  <2> QED BY <2>2, <2>3, TInvReset, TInvPowerLoss DEF Next
<1>2. TInv => TearsStayLocal
  <2> SUFFICES ASSUME TInv
               PROVE  Cardinality((flushed \cap Plain) \ Loaded(lines)) <= 2 * tears
    BY DEF TearsStayLocal
  <2>1. /\ tears \in Nat /\ synced.lines \in Nat
        /\ IsFiniteSet(flushed) /\ IsFiniteSet(LostOnDisk)
    BY FS_Subset, LostIsFinite DEF TInv, KInv, IInv, SyncedOK, LostOnDisk
  <2>2. \A i \in 1 .. synced.lines : i \in DOMAIN lines
    <3>1. /\ DOMAIN lines = 1 .. Len(lines) /\ Ended(lines, open) \in Nat
          /\ Len(lines) = Ended(lines, open) + (IF open THEN 1 ELSE 0)
      BY EndedIsNat, LenProperties DEF TInv, KInv, IInv, FileOK
    <3>2. synced.lines <= Ended(lines, open)
      BY DEF TInv
    <3> QED BY <2>1, <3>1, <3>2
  <2>3. (flushed \cap Plain) \ Loaded(lines) \subseteq LostOnDisk
    BY <2>2 DEF LostOnDisk, Lost, Shows, Loaded
  <2>4. /\ Cardinality((flushed \cap Plain) \ Loaded(lines)) \in Nat
        /\ Cardinality(LostOnDisk) \in Nat
        /\ Cardinality((flushed \cap Plain) \ Loaded(lines)) <= Cardinality(LostOnDisk)
    BY <2>1, <2>3, NoMore
  <2>5. Cardinality(LostOnDisk) <= 2 * tears
    BY DEF TInv
  <2> QED BY <2>1, <2>4, <2>5
<1> QED BY <1>1, <1>2, TInvInit, PTL DEF Spec
=============================================================================
