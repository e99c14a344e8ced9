--------------------------- MODULE CommandIOProofs ---------------------------
(***************************************************************************)
(* What CommandIO promises for any number of lines, of commands and of     *)
(* things the application prints: TypeOK and OutputIsOfLastAttempt.        *)
(*                                                                         *)
(* OutputIsOfLastAttempt says something of the end of a read, where all is *)
(* read; ReadingInv says the same of every moment before.  Of what cdb     *)
(* prints for this attempt, the pieces up to a cursor were read, and all   *)
(* that is left to read comes after it (Follows); the halves of lines      *)
(* among the pieces that were read are those up to the cursor, wherever    *)
(* they are, and if the application prints nothing they are in the lines   *)
(* in which they were printed.  The end marker is only after all of them.  *)
(***************************************************************************)
EXTENDS CommandIO, FiniteSetTheorems, SequenceTheorems, TLAPS

-----------------------------------------------------------------------------
(* Lists of lists, joined.                                                 *)

\* Some natural numbers have a least one: that of a smallest set 1 .. x.
LEMMA Least ==
  ASSUME NEW S, S \subseteq Nat, S # {}
  PROVE  \E m \in S : \A x \in S : m <= x
<1> DEFINE Up == {1 .. x : x \in S}
<1>1. Up # {} /\ Up \subseteq FiniteSubsetsOf(Nat)
  <2>1. \A x \in Nat : 1 .. x \in SUBSET Nat /\ IsFiniteSet(1 .. x)
    BY FS_Interval
  <2> QED
    BY <2>1 DEF FiniteSubsetsOf
<1>2. PICK U \in Up : \A V \in Up : ~(<<V, U>> \in StrictSubsetOrdering(Nat))
  BY <1>1, FS_StrictSubsetOrderingWellFounded, WFMin
<1>3. PICK m \in S : U = 1 .. m
  OBVIOUS
<1>4. ASSUME NEW x \in S, x < m PROVE FALSE
  <2>1. 1 .. x \in SUBSET Nat /\ 1 .. m \in SUBSET Nat /\ 1 .. x \subseteq 1 .. m /\ m \in 1 .. m /\ m \notin 1 .. x
    BY <1>4
  <2>2. <<1 .. x, U>> \in StrictSubsetOrdering(Nat)
    BY <1>3, <2>1 DEF StrictSubsetOrdering
  <2> QED
    BY <1>2, <2>2
<1> QED
  BY <1>4

\* Induction on natural numbers, for a set instead of a predicate.
LEMMA NatSetInduction ==
  ASSUME NEW P, 0 \in P, \A n \in Nat : n \in P => n + 1 \in P
  PROVE  Nat \subseteq P
<1> SUFFICES ASSUME Nat \ P # {} PROVE FALSE
  OBVIOUS
<1>1. PICK m \in Nat \ P : \A x \in Nat \ P : m <= x
  BY Least
<1>2. m # 0 /\ m - 1 \in Nat /\ (m - 1) + 1 = m
  BY <1>1
<1> QED
  BY <1>1, <1>2

\* One step of the recursion by which Flat is defined.
FlatStep(lists, flat, n) == IF n = 0 THEN <<>> ELSE flat[n - 1] \o lists[n]

\* There is a function that is defined by this recursion.
LEMMA FlatExists ==
  ASSUME NEW lists, Len(lists) \in Nat
  PROVE  \E flat : flat = [n \in 0 .. Len(lists) |-> FlatStep(lists, flat, n)]
<1> DEFINE P == {m \in Nat : \E flat : flat = [n \in 0 .. m |-> FlatStep(lists, flat, n)]}
<1>1. 0 \in P
  <2>1. [n \in 0 .. 0 |-> <<>>] = [n \in 0 .. 0 |-> FlatStep(lists, [k \in 0 .. 0 |-> <<>>], n)]
    BY DEF FlatStep
  <2> QED
    BY <2>1
<1>2. \A m \in Nat : m \in P => m + 1 \in P
  <2> SUFFICES ASSUME NEW m \in Nat, NEW f, f = [n \in 0 .. m |-> FlatStep(lists, f, n)]
               PROVE  m + 1 \in P
    OBVIOUS
  <2> DEFINE g == [n \in 0 .. m + 1 |-> IF n = m + 1 THEN FlatStep(lists, f, n) ELSE f[n]]
  <2>1. \A n \in 0 .. m + 1 : g[n] = FlatStep(lists, f, n)
    OBVIOUS
  <2>2. \A n \in 0 .. m + 1 : FlatStep(lists, g, n) = FlatStep(lists, f, n)
    BY DEF FlatStep
  <2>3. g = [n \in 0 .. m + 1 |-> FlatStep(lists, g, n)]
    <3> SUFFICES [n \in 0 .. m + 1 |-> g[n]] = [n \in 0 .. m + 1 |-> FlatStep(lists, g, n)]
      OBVIOUS
    <3> HIDE DEF g
    <3> QED
      BY <2>1, <2>2
  <2> HIDE DEF g
  <2> QED
    BY <2>3
<1> QED
  <2> HIDE DEF P
  <2>1. Len(lists) \in P
    BY <1>1, <1>2, NatSetInduction
  <2> QED
    BY <2>1 DEF P

\* Flat is computed by this recursion.
LEMMA FlatRecursion ==
  ASSUME NEW lists, Len(lists) \in Nat
  PROVE  \E flat : /\ flat = [n \in 0 .. Len(lists) |-> FlatStep(lists, flat, n)]
                   /\ Flat(lists) = flat[Len(lists)]
<1> DEFINE flat == CHOOSE f : f = [n \in 0 .. Len(lists) |-> FlatStep(lists, f, n)]
<1>1. flat = [n \in 0 .. Len(lists) |-> FlatStep(lists, flat, n)]
  BY FlatExists
<1>2. Flat(lists) = flat[Len(lists)]
  BY DEF Flat, FlatStep
<1> HIDE DEF flat
<1> QED
  BY <1>1, <1>2

\* Joining no lists.
LEMMA FlatEmpty == Flat(<<>>) = <<>>
<1>1. Len(<<>>) = 0
  OBVIOUS
<1>2. PICK flat : /\ flat = [n \in 0 .. Len(<<>>) |-> FlatStep(<<>>, flat, n)]
                  /\ Flat(<<>>) = flat[Len(<<>>)]
  BY <1>1, FlatRecursion
<1>3. flat[0] = FlatStep(<<>>, flat, 0)
  BY <1>1, <1>2
<1> QED
  BY <1>1, <1>2, <1>3 DEF FlatStep

\* Joining lists when there is one more.
LEMMA FlatAppend ==
  ASSUME NEW T, NEW s \in Seq(T), NEW x \in T
  PROVE  Flat(Append(s, x)) = Flat(s) \o x
<1> DEFINE t == Append(s, x)
           N == Len(s)
<1>1. N \in Nat /\ Len(t) = N + 1 /\ t[N + 1] = x /\ \A n \in 1 .. N : t[n] = s[n]
  OBVIOUS
<1>2. PICK f : f = [n \in 0 .. N |-> FlatStep(s, f, n)] /\ Flat(s) = f[N]
  BY <1>1, FlatRecursion
<1> HIDE DEF t
<1>3. PICK g : g = [n \in 0 .. Len(t) |-> FlatStep(t, g, n)] /\ Flat(t) = g[Len(t)]
  <2>1. Len(t) \in Nat
    BY <1>1
  <2> QED
    BY <2>1, FlatRecursion
<1>4. \A n \in 0 .. N : f[n] = FlatStep(s, f, n)
  BY <1>2
<1>5. \A n \in 0 .. N + 1 : g[n] = FlatStep(t, g, n)
  BY <1>1, <1>3
<1> DEFINE P == {n \in Nat : n <= N => f[n] = g[n]}
<1>6. 0 \in P
  BY <1>1, <1>4, <1>5 DEF FlatStep
<1>7. \A n \in Nat : n \in P => n + 1 \in P
  <2> SUFFICES ASSUME NEW n \in Nat, n + 1 <= N, f[n] = g[n] PROVE f[n + 1] = g[n + 1]
    OBVIOUS
  <2>1. n + 1 \in 0 .. N /\ n + 1 \in 0 .. N + 1 /\ n + 1 # 0 /\ (n + 1) - 1 = n /\ n + 1 \in 1 .. N
    BY <1>1
  <2>2. f[n + 1] = FlatStep(s, f, n + 1) /\ g[n + 1] = FlatStep(t, g, n + 1)
    BY <1>4, <1>5, <2>1
  <2> QED
    BY <1>1, <2>1, <2>2 DEF FlatStep
<1>8. f[N] = g[N]
  <2> HIDE DEF P
  <2>1. N \in P
    BY <1>1, <1>6, <1>7, NatSetInduction
  <2> QED
    BY <1>1, <2>1 DEF P
<1>9. g[N + 1] = g[N] \o x
  <2>1. N + 1 \in 0 .. N + 1 /\ N + 1 # 0 /\ (N + 1) - 1 = N
    BY <1>1
  <2> QED
    BY <1>1, <1>5, <2>1 DEF FlatStep
<1> QED
  BY <1>1, <1>2, <1>3, <1>8, <1>9 DEF t

\* The elements of a list that joins lists are those of the lists.
LEMMA FlatIsList ==
  ASSUME NEW T, NEW s \in Seq(Seq(T))
  PROVE  Flat(s) \in Seq(T)
<1>1. PICK flat : flat = [n \in 0 .. Len(s) |-> FlatStep(s, flat, n)] /\ Flat(s) = flat[Len(s)]
  <2>1. Len(s) \in Nat
    OBVIOUS
  <2> QED
    BY <2>1, FlatRecursion
<1>2. \A n \in 0 .. Len(s) : flat[n] = FlatStep(s, flat, n)
  BY <1>1
<1> DEFINE P == {n \in Nat : n <= Len(s) => flat[n] \in Seq(T)}
<1>3. 0 \in P
  <2>1. flat[0] = <<>>
    BY <1>2 DEF FlatStep
  <2>2. <<>> \in Seq(T)
    OBVIOUS
  <2> QED
    BY <2>1, <2>2
<1>4. \A n \in Nat : n \in P => n + 1 \in P
  <2> SUFFICES ASSUME NEW n \in Nat, n + 1 <= Len(s), flat[n] \in Seq(T) PROVE flat[n + 1] \in Seq(T)
    OBVIOUS
  <2>1. n + 1 \in 0 .. Len(s) /\ n + 1 # 0 /\ (n + 1) - 1 = n /\ s[n + 1] \in Seq(T)
    OBVIOUS
  <2>2. flat[n + 1] = flat[n] \o s[n + 1]
    BY <1>2, <2>1 DEF FlatStep
  <2>3. \A u, v \in Seq(T) : u \o v \in Seq(T)
    OBVIOUS
  <2> QED
    BY <2>1, <2>2, <2>3
<1> HIDE DEF P
<1>5. Len(s) \in P
  BY <1>3, <1>4, NatSetInduction
<1> QED
  BY <1>1, <1>5 DEF P

-----------------------------------------------------------------------------
(* The halves of lines among what was read.                                *)

LEMMA HalvesEmpty == HalvesOf(<<>>) = <<>>
<1> DEFINE Kept(t) == [n \in DOMAIN t |-> IF t[n] \in Halves THEN <<t[n]>> ELSE <<>>]
<1>1. Kept(<<>>) = <<>>
  <2>1. Kept(<<>>) \in Seq(Seq(Halves)) /\ Len(Kept(<<>>)) = 0
    <3>1. DOMAIN <<>> = 1 .. 0
      OBVIOUS
    <3> QED
      BY <3>1
  <2> HIDE DEF Kept
  <2> QED
    BY <2>1
<1> QED
  BY <1>1, FlatEmpty DEF HalvesOf

\* One more piece is read.
LEMMA HalvesAppend ==
  ASSUME NEW T, NEW s \in Seq(T), NEW x \in T
  PROVE  HalvesOf(Append(s, x)) = IF x \in Halves THEN Append(HalvesOf(s), x) ELSE HalvesOf(s)
<1> DEFINE Kept(t) == [n \in DOMAIN t |-> IF t[n] \in Halves THEN <<t[n]>> ELSE <<>>]
           last == IF x \in Halves THEN <<x>> ELSE <<>>
<1>1. /\ last \in Seq(T) /\ Kept(s) \in Seq(Seq(T))
      /\ Kept(Append(s, x)) = Append(Kept(s), last)
  <2>1. /\ s \in [1 .. Len(s) -> T] /\ Len(s) \in Nat /\ DOMAIN s = 1 .. Len(s)
        /\ DOMAIN Append(s, x) = 1 .. Len(s) + 1 /\ Append(s, x)[Len(s) + 1] = x
        /\ \A n \in 1 .. Len(s) : Append(s, x)[n] = s[n]
    OBVIOUS
  <2>2. last \in Seq(T) /\ \A n \in 1 .. Len(s) : (IF s[n] \in Halves THEN <<s[n]>> ELSE <<>>) \in Seq(T)
    BY <2>1
  <2>3. Kept(s) \in [1 .. Len(s) -> Seq(T)]
    BY <2>1, <2>2
  <2>4. Kept(s) \in Seq(Seq(T)) /\ Len(Kept(s)) = Len(s)
    <3>1. \A n \in Nat : \A S : \A t \in [1 .. n -> S] : t \in Seq(S) /\ Len(t) = n
      OBVIOUS
    <3> HIDE DEF Kept
    <3> QED
      BY <2>1, <2>3, <3>1
  <2>5. /\ DOMAIN Kept(Append(s, x)) = 1 .. Len(s) + 1 /\ Kept(Append(s, x))[Len(s) + 1] = last
        /\ \A n \in 1 .. Len(s) : Kept(Append(s, x))[n] = Kept(s)[n]
    BY <2>1
  <2>6. Append(s, x) \in Seq(T) /\ Kept(Append(s, x)) \in [1 .. Len(s) + 1 -> Seq(T)]
    BY <2>1, <2>2
  <2> HIDE DEF Kept, last
  <2>7. Kept(Append(s, x)) \in Seq(Seq(T)) /\ Len(Kept(Append(s, x))) = Len(s) + 1
    <3>1. \A n \in Nat : \A S : \A t \in [1 .. n -> S] : t \in Seq(S) /\ Len(t) = n
      OBVIOUS
    <3> QED
      BY <2>1, <2>6, <3>1
  <2>8. /\ Append(Kept(s), last) \in Seq(Seq(T)) /\ Len(Append(Kept(s), last)) = Len(s) + 1
        /\ Append(Kept(s), last)[Len(s) + 1] = last
        /\ \A n \in 1 .. Len(s) : Append(Kept(s), last)[n] = Kept(s)[n]
    BY <2>1, <2>2, <2>4
  <2>9. \A n \in 1 .. Len(s) + 1 : Kept(Append(s, x))[n] = Append(Kept(s), last)[n]
    BY <2>1, <2>5, <2>8
  <2>10. Kept(Append(s, x)) = Append(Kept(s), last)
    BY <2>7, <2>8, <2>9, SeqEqual
  <2> QED
    BY <2>2, <2>4, <2>10
<1>2. HalvesOf(s) = Flat(Kept(s)) /\ HalvesOf(Append(s, x)) = Flat(Kept(Append(s, x)))
  BY DEF HalvesOf
<1> HIDE DEF Kept
<1>3. Flat(Append(Kept(s), last)) = Flat(Kept(s)) \o last
  BY <1>1, FlatAppend
<1>4. Flat(Kept(s)) \in Seq(T)
  BY <1>1, FlatIsList
<1>5. HalvesOf(s) \in Seq(T) /\ HalvesOf(Append(s, x)) = HalvesOf(s) \o last
  BY <1>1, <1>2, <1>3, <1>4
<1> QED
  BY <1>5

-----------------------------------------------------------------------------
(* The invariant.                                                          *)

\* The cursor: before the start marker, after so many pieces, after the end marker and the prompt.
BeforeStart == -1
AfterEnd == 3 * OutputLines + 1
AfterPrompt == 3 * OutputLines + 2
Cursors == BeforeStart .. AfterPrompt

\* cdb prints a piece at c, and goes on at d.
Prints(attempt, piece, c, d) ==
  \/ piece = START /\ c = BeforeStart /\ d = 0
  \/ piece = ERROR /\ c \in 0 .. 3 * OutputLines /\ d = c
  \/ c \in 0 .. 3 * OutputLines - 1 /\ piece = Printed(attempt)[c + 1] /\ d = c + 1
  \/ piece = END /\ c = 3 * OutputLines /\ d = AfterEnd
  \/ piece = PROMPT /\ c \in BeforeStart .. AfterEnd /\ d = AfterPrompt

\* These pieces may come next at c.
Follows(attempt, pieces, c) ==
  \E cursor \in [Nat -> Cursors] :
    /\ cursor[0] = c
    /\ \A i \in 1 .. Len(pieces) : Prints(attempt, pieces[i], cursor[i - 1], cursor[i])

\* The number of pieces of lines that are before the cursor.
Before(c) == IF c < 0 THEN 0 ELSE IF c > 3 * OutputLines THEN 3 * OutputLines ELSE c

FirstHalves(attempt, n) == [k \in 1 .. n |-> Half(attempt, (k + 1) \div 2, 2 - (k % 2))]
FirstLines(attempt, n) == [i \in 1 .. n |-> Line(attempt, i)]
BeginningOfLine(attempt, i, n) == [half \in 1 .. n |-> Half(attempt, i, half)]

HasReadUpTo(c) ==
  /\ Follows(uAttempt, output, c)
  /\ bStartOfCommandOutputMarkerFound => c >= 0
  /\ bEndOfCommandOutputMarkerFound => c >= AfterEnd
  /\ c <= AfterEnd =>
       /\ HalvesOf(Flat(asbFilteredLines) \o sbFilteredCurrentLine) = FirstHalves(uAttempt, Before(c) - (Before(c) \div 3))
       /\ writes = 0 =>
            /\ asbFilteredLines = FirstLines(uAttempt, Before(c) \div 3)
            /\ sbFilteredCurrentLine = BeginningOfLine(uAttempt, (Before(c) \div 3) + 1, Before(c) % 3)

ReadingInv ==
  pc = "reading" /\ bUseMarkers =>
    sbFilteredCurrentLine # <<PROMPT>> /\ \E c \in Cursors : HasReadUpTo(c)

\* A command is only written to cdb while there are tries left.
WritingInv == pc = "writing" => uAttempt < uTries

IOInv == TypeOK /\ WritingInv /\ ReadingInv /\ OutputIsOfLastAttempt

-----------------------------------------------------------------------------
(* The pieces, and those that cdb prints.                                  *)

\* The pieces of a line that is read.
Text == Pieces \ {LF, ERROR}

LEMMA WhatPiecesAre ==
  /\ START.what = "start" /\ END.what = "end" /\ PROMPT.what = "prompt" /\ LF.what = "lf"
  /\ ERROR.what = "error" /\ CPP.what = "first chance C++" /\ APPLICATION.what = "application"
  /\ \A piece \in Halves : piece.what = "output"
  BY DEF START, END, PROMPT, LF, ERROR, CPP, APPLICATION, Piece, Halves

LEMMA MarksAreNoHalves == {START, END, PROMPT, LF, ERROR, CPP, APPLICATION} \cap Halves = {}
  BY WhatPiecesAre

LEMMA MarksDiffer ==
  /\ {START, END, PROMPT, CPP, APPLICATION} \cap {LF, ERROR} = {} /\ LF # ERROR
  /\ START \notin {END, PROMPT} /\ END # PROMPT /\ APPLICATION \notin {START, END, PROMPT}
  BY WhatPiecesAre

LEMMA TextIsPieces ==
  /\ {START, END, PROMPT, CPP, APPLICATION} \subseteq Text /\ Halves \subseteq Text
  /\ \A piece \in Pieces : piece \in Text <=> piece \notin {LF, ERROR}
<1>1. {START, END, PROMPT, CPP, APPLICATION} \subseteq Pieces /\ Halves \subseteq Pieces
  BY DEF Pieces
<1> QED
  BY <1>1, MarksAreNoHalves, MarksDiffer DEF Text

LEMMA HalfIsHalf ==
  ASSUME NEW attempt \in 0 .. 5, NEW i \in 1 .. OutputLines, NEW half \in {1, 2}
  PROVE  Half(attempt, i, half) \in Halves
  BY DEF Half, Halves

\* Integer division by three, of the number of pieces before the cursor.
LEMMA Thirds ==
  ASSUME NEW n \in Nat
  PROVE  /\ n \div 3 \in Nat /\ n % 3 \in {0, 1, 2} /\ n = 3 * (n \div 3) + (n % 3)
         /\ n % 3 = 2 => (n + 1) \div 3 = (n \div 3) + 1 /\ (n + 1) % 3 = 0
         /\ n % 3 # 2 => (n + 1) \div 3 = n \div 3 /\ (n + 1) % 3 = (n % 3) + 1
  OBVIOUS

LEMMA ThirdsUpTo ==
  ASSUME NEW n \in Nat, NEW m \in 0 .. 3 * n - 1
  PROVE  m \in Nat /\ (m \div 3) + 1 \in 1 .. n
  OBVIOUS

LEMMA LinesAreNat == OutputLines \in Nat
  BY CommandIOAssumption DEF CommandIOAssumption

\* What a line consists of, as it is printed.
LEMMA PrintedPiece ==
  ASSUME NEW attempt, NEW c \in 0 .. 3 * OutputLines - 1
  PROVE  /\ c % 3 = 2 => Printed(attempt)[c + 1] = LF
         /\ c % 3 # 2 => Printed(attempt)[c + 1] = Half(attempt, (c \div 3) + 1, (c % 3) + 1)
<1>1. c \in Nat /\ c + 1 \in 1 .. 3 * OutputLines
  BY LinesAreNat
<1>2. Printed(attempt)[c + 1] = IF (c + 1) % 3 = 0 THEN LF ELSE Half(attempt, ((c + 1) \div 3) + 1, (c + 1) % 3)
  BY <1>1 DEF Printed
<1>3. c % 3 # 2 => (c + 1) % 3 # 0
  BY <1>1, Thirds
<1> QED
  BY <1>1, <1>2, <1>3, Thirds

LEMMA BeforeIsNat ==
  ASSUME NEW c \in Cursors
  PROVE  Before(c) \in 0 .. 3 * OutputLines /\ Before(c) \in Nat
  BY LinesAreNat DEF Before, Cursors, BeforeStart, AfterPrompt

\* What can be printed: a half of a line, a line feed, something between the lines, or the prompt.
LEMMA WhatIsPrinted ==
  ASSUME NEW attempt \in 0 .. 5, NEW piece, NEW c \in Cursors, NEW d \in Cursors, Prints(attempt, piece, c, d)
  PROVE  \/ /\ c \in 0 .. 3 * OutputLines - 1 /\ d = c + 1 /\ c % 3 \in {0, 1}
            /\ piece = Half(attempt, (c \div 3) + 1, (c % 3) + 1) /\ piece \in Halves
         \/ c \in 0 .. 3 * OutputLines - 1 /\ d = c + 1 /\ c % 3 = 2 /\ piece = LF
         \/ piece = START /\ c = BeforeStart /\ d = 0
         \/ piece = ERROR /\ d = c /\ c <= 3 * OutputLines
         \/ piece = END /\ c = 3 * OutputLines /\ d = AfterEnd
         \/ piece = PROMPT /\ c <= AfterEnd /\ d = AfterPrompt
<1>1. CASE c \in 0 .. 3 * OutputLines - 1 /\ piece = Printed(attempt)[c + 1] /\ d = c + 1
  <2>1. c \in Nat /\ c % 3 \in {0, 1, 2} /\ (c \div 3) + 1 \in 1 .. OutputLines
    BY <1>1, LinesAreNat, Thirds, ThirdsUpTo
  <2>2. CASE c % 3 = 2
    BY <1>1, <2>2, PrintedPiece
  <2>3. CASE c % 3 \in {0, 1}
    <3>1. (c % 3) + 1 \in {1, 2} /\ c % 3 # 2
      BY <2>3
    <3>2. piece = Half(attempt, (c \div 3) + 1, (c % 3) + 1)
      BY <1>1, <3>1, PrintedPiece
    <3>3. piece \in Halves
      BY <2>1, <3>1, <3>2, HalfIsHalf
    <3> QED
      BY <1>1, <2>3, <3>2, <3>3
  <2> QED
    BY <2>1, <2>2, <2>3
<1>2. CASE piece = ERROR /\ c \in 0 .. 3 * OutputLines /\ d = c
  BY <1>2
<1>3. CASE piece = PROMPT /\ c \in BeforeStart .. AfterEnd /\ d = AfterPrompt
  BY <1>3
<1> QED
  BY <1>1, <1>2, <1>3 DEF Prints

\* What follows the cursor follows it after a piece of it, from where that leaves the cursor,
LEMMA RestFollows ==
  ASSUME NEW attempt, NEW pieces \in Seq(Pieces), pieces # <<>>, NEW c, Follows(attempt, pieces, c)
  PROVE  /\ c \in Cursors
         /\ \E d \in Cursors : Prints(attempt, Head(pieces), c, d) /\ Follows(attempt, Tail(pieces), d)
<1>1. PICK cursor \in [Nat -> Cursors] :
        cursor[0] = c /\ \A i \in 1 .. Len(pieces) : Prints(attempt, pieces[i], cursor[i - 1], cursor[i])
  BY DEF Follows
<1>2. Len(pieces) \in Nat /\ Len(pieces) >= 1 /\ Head(pieces) = pieces[1]
  OBVIOUS
<1>3. Len(Tail(pieces)) = Len(pieces) - 1 /\ \A i \in 1 .. Len(pieces) - 1 : Tail(pieces)[i] = pieces[i + 1]
  BY <1>2
<1> DEFINE next == [i \in Nat |-> cursor[i + 1]]
<1>4. next \in [Nat -> Cursors] /\ next[0] = cursor[1]
  OBVIOUS
<1>5. ASSUME NEW i \in 1 .. Len(Tail(pieces)) PROVE Prints(attempt, Tail(pieces)[i], next[i - 1], next[i])
  <2>1. i + 1 \in 1 .. Len(pieces) /\ (i + 1) - 1 = i /\ i - 1 \in Nat /\ i \in Nat /\ (i - 1) + 1 = i
    BY <1>2, <1>3
  <2>2. Prints(attempt, pieces[i + 1], cursor[(i + 1) - 1], cursor[i + 1])
    BY <1>1, <2>1
  <2>3. next[i - 1] = cursor[i] /\ next[i] = cursor[i + 1] /\ Tail(pieces)[i] = pieces[i + 1]
    BY <1>2, <1>3, <2>1
  <2> QED
    BY <2>1, <2>2, <2>3
<1>6. cursor[1] \in Cursors /\ cursor[0] \in Cursors
  OBVIOUS
<1>7. Prints(attempt, Head(pieces), c, cursor[1])
  <2>1. 1 \in 1 .. Len(pieces) /\ 1 - 1 = 0
    BY <1>2
  <2> QED
    BY <1>1, <1>2, <2>1
<1> HIDE DEF next
<1>8. Follows(attempt, Tail(pieces), cursor[1])
  BY <1>4, <1>5 DEF Follows
<1> QED
  BY <1>1, <1>6, <1>7, <1>8

\* and the beginning of it follows, too.
LEMMA BeginningFollows ==
  ASSUME NEW attempt, NEW pieces \in Seq(Pieces), NEW n \in 0 .. Len(pieces), NEW c, Follows(attempt, pieces, c)
  PROVE  Follows(attempt, SubSeq(pieces, 1, n), c) /\ SubSeq(pieces, 1, n) \in Seq(Pieces)
<1>1. PICK cursor \in [Nat -> Cursors] :
        cursor[0] = c /\ \A i \in 1 .. Len(pieces) : Prints(attempt, pieces[i], cursor[i - 1], cursor[i])
  BY DEF Follows
<1> DEFINE s == SubSeq(pieces, 1, n)
<1>2. s \in Seq(Pieces) /\ Len(s) = n /\ \A i \in 1 .. n : i \in 1 .. Len(pieces) /\ s[i] = pieces[i]
  OBVIOUS
<1> HIDE DEF s
<1>3. \A i \in 1 .. Len(s) : Prints(attempt, s[i], cursor[i - 1], cursor[i])
  BY <1>1, <1>2
<1>4. Follows(attempt, s, c)
  BY <1>1, <1>3 DEF Follows
<1> QED
  BY <1>2, <1>4 DEF s

\* The prompt is printed once.
LEMMA PromptIsPrinted ==
  ASSUME NEW attempt \in 0 .. 5, NEW c \in Cursors, NEW d \in Cursors, Prints(attempt, PROMPT, c, d)
  PROVE  c \in BeforeStart .. AfterEnd
<1>1. PROMPT \notin Halves /\ PROMPT \notin {LF, START, ERROR, END}
  BY MarksAreNoHalves, MarksDiffer
<1>2. c <= AfterEnd
  BY <1>1, WhatIsPrinted
<1> QED
  BY <1>2 DEF Cursors, BeforeStart

-----------------------------------------------------------------------------
(* What cdb prints for a command.                                          *)

\* The cursor goes this way from c to d while the pieces are printed.
Leads(attempt, pieces, cursor, c, d) ==
  /\ cursor \in [Nat -> Cursors] /\ cursor[0] = c /\ cursor[Len(pieces)] = d
  /\ \A i \in 1 .. Len(pieces) : Prints(attempt, pieces[i], cursor[i - 1], cursor[i])

LEMMA PrintedIsList ==
  ASSUME NEW attempt \in 0 .. 5
  PROVE  Printed(attempt) \in Seq(Pieces) /\ Len(Printed(attempt)) = 3 * OutputLines
<1>1. 3 * OutputLines \in Nat
  BY LinesAreNat
<1>2. ASSUME NEW k \in 1 .. 3 * OutputLines
      PROVE  (IF k % 3 = 0 THEN LF ELSE Half(attempt, (k \div 3) + 1, k % 3)) \in Pieces
  <2>1. CASE k % 3 = 0
    BY <2>1 DEF Pieces
  <2>2. CASE k % 3 # 0
    <3>1. k \in Nat /\ k % 3 \in {0, 1, 2}
      BY Thirds
    <3>2. k % 3 \in {1, 2}
      BY <2>2, <3>1
    <3>3. (k \div 3) + 1 \in 1 .. OutputLines
      BY <2>2, LinesAreNat
    <3>4. Half(attempt, (k \div 3) + 1, k % 3) \in Halves
      BY <3>2, <3>3, HalfIsHalf
    <3> QED
      BY <2>2, <3>4 DEF Pieces
  <2> QED
    BY <2>1, <2>2
<1>3. Printed(attempt) \in [1 .. 3 * OutputLines -> Pieces]
  BY <1>2 DEF Printed
<1> QED
  BY <1>1, <1>3

\* The lines with an error message or without are printed from the start marker to the end marker.
LEMMA LinesLead ==
  ASSUME NEW attempt \in 0 .. 5, NEW printed \in WithErrors(Printed(attempt))
  PROVE  /\ printed \in Seq(Pieces)
         /\ \E cursor : /\ Leads(attempt, printed, cursor, 0, 3 * OutputLines)
                        /\ \A i \in 0 .. Len(printed) : cursor[i] \in 0 .. 3 * OutputLines
<1> DEFINE P == Printed(attempt)
           N == 3 * OutputLines
<1>1. P \in Seq(Pieces) /\ Len(P) = N /\ N \in Nat
  BY PrintedIsList, LinesAreNat
<1>2. \A c \in 0 .. N : c \in Cursors
  BY <1>1 DEF Cursors, BeforeStart, AfterPrompt
<1>3. \A c \in 0 .. N - 1 : Prints(attempt, P[c + 1], c, c + 1)
  BY DEF Prints
<1>4. \A c \in 0 .. N : Prints(attempt, ERROR, c, c)
  BY DEF Prints
<1>5. ERROR \in Pieces
  BY DEF Pieces
<1> HIDE DEF P, N
<1>6. CASE printed = P
  <2> DEFINE cursor == [i \in Nat |-> IF i <= N THEN i ELSE N]
  <2>1. cursor \in [Nat -> Cursors] /\ \A i \in 0 .. N : cursor[i] = i
    BY <1>1, <1>2
  <2>2. ASSUME NEW i \in 1 .. Len(printed) PROVE Prints(attempt, printed[i], cursor[i - 1], cursor[i])
    <3>1. i - 1 \in 0 .. N - 1 /\ (i - 1) + 1 = i /\ i - 1 \in 0 .. N /\ i \in 0 .. N
      BY <1>1, <1>6
    <3>2. Prints(attempt, P[(i - 1) + 1], i - 1, (i - 1) + 1)
      BY <1>3, <3>1
    <3> QED
      BY <1>6, <2>1, <3>1, <3>2
  <2> HIDE DEF cursor
  <2>3. Leads(attempt, printed, cursor, 0, N)
    <3>1. cursor[0] = 0 /\ cursor[Len(printed)] = N
      BY <1>1, <1>6, <2>1
    <3> QED
      BY <2>1, <2>2, <3>1 DEF Leads
  <2>4. \A i \in 0 .. Len(printed) : cursor[i] \in 0 .. N
    BY <1>1, <1>6, <2>1
  <2> QED
    BY <1>1, <1>6, <2>3, <2>4 DEF N
<1>7. ASSUME NEW e \in 1 .. N + 1, printed = InsertAt(P, e, ERROR)
      PROVE  /\ printed \in Seq(Pieces)
             /\ \E cursor : Leads(attempt, printed, cursor, 0, N) /\ \A i \in 0 .. Len(printed) : cursor[i] \in 0 .. N
  <2>1. printed = SubSeq(P, 1, e - 1) \o <<ERROR>> \o SubSeq(P, e, N)
    BY <1>1, <1>7 DEF InsertAt
  <2>2. /\ printed \in Seq(Pieces) /\ Len(printed) = N + 1
        /\ \A i \in 1 .. N + 1 : printed[i] = IF i < e THEN P[i] ELSE IF i = e THEN ERROR ELSE P[i - 1]
    <3>1. SubSeq(P, 1, e - 1) \in Seq(Pieces) /\ SubSeq(P, e, N) \in Seq(Pieces) /\ <<ERROR>> \in Seq(Pieces)
      BY <1>1, <1>5
    <3>2. Len(SubSeq(P, 1, e - 1)) = e - 1 /\ Len(SubSeq(P, e, N)) = (N - e) + 1 /\ Len(<<ERROR>>) = 1
      BY <1>1
    <3>3. \A i \in 1 .. e - 1 : SubSeq(P, 1, e - 1)[i] = P[i]
      BY <1>1
    <3>4. \A i \in 1 .. (N - e) + 1 : SubSeq(P, e, N)[i] = P[(e + i) - 1]
      BY <1>1
    <3> DEFINE s == SubSeq(P, 1, e - 1)
               t == SubSeq(P, e, N)
    <3> HIDE DEF s, t
    <3>5. \A i \in 1 .. N + 1 : (s \o <<ERROR>> \o t)[i] = IF i < e THEN s[i] ELSE IF i = e THEN ERROR ELSE t[i - e]
      BY <1>1, <3>1, <3>2 DEF s, t
    <3>6. printed = s \o <<ERROR>> \o t
      BY <2>1 DEF s, t
    <3>a. \A i \in 1 .. N + 1 : printed[i] = IF i < e THEN s[i] ELSE IF i = e THEN ERROR ELSE t[i - e]
      BY <3>5, <3>6, Zenon
    <3>7. printed \in Seq(Pieces) /\ Len(printed) = N + 1
      BY <1>1, <3>1, <3>2, <3>6 DEF s, t
    <3>8. \A i \in 1 .. e - 1 : s[i] = P[i]
      BY <3>3 DEF s
    <3>9. \A i \in e + 1 .. N + 1 : t[i - e] = P[i - 1]
      <4> SUFFICES ASSUME NEW i \in e + 1 .. N + 1 PROVE t[i - e] = P[i - 1]
        OBVIOUS
      <4>1. i - e \in 1 .. (N - e) + 1 /\ (e + (i - e)) - 1 = i - 1
        BY <1>1
      <4> QED
        BY <3>4, <4>1 DEF t
    <3>10. ASSUME NEW i \in 1 .. N + 1
           PROVE  printed[i] = IF i < e THEN P[i] ELSE IF i = e THEN ERROR ELSE P[i - 1]
      <4>1. CASE i < e
        BY <1>1, <3>a, <3>8, <4>1
      <4>2. CASE i = e
        BY <1>1, <3>a, <4>2
      <4>3. CASE i > e
        BY <1>1, <3>a, <3>9, <4>3
      <4> QED
        BY <1>1, <4>1, <4>2, <4>3
    <3> QED
      BY <3>7, <3>10
  <2> DEFINE cursor == [i \in Nat |-> IF i < e THEN i ELSE IF i <= N + 1 THEN i - 1 ELSE N]
  <2>3. cursor \in [Nat -> Cursors]
    BY <1>1, <1>2
  <2>4. \A i \in 0 .. N + 1 : cursor[i] = (IF i < e THEN i ELSE i - 1) /\ cursor[i] \in 0 .. N
    BY <1>1
  <2>5. ASSUME NEW i \in 1 .. N + 1 PROVE Prints(attempt, printed[i], cursor[i - 1], cursor[i])
    <3>0. i - 1 \in 0 .. N + 1 /\ i \in 0 .. N + 1 /\ (i - 1) + 1 = i
      BY <1>1
    <3>1. CASE i < e
      <4>1. cursor[i - 1] = i - 1 /\ cursor[i] = i /\ printed[i] = P[i] /\ i - 1 \in 0 .. N - 1
        BY <1>1, <2>2, <2>4, <3>0, <3>1
      <4>2. Prints(attempt, P[(i - 1) + 1], i - 1, (i - 1) + 1)
        BY <1>3, <4>1
      <4> QED
        BY <3>0, <4>1, <4>2
    <3>2. CASE i = e
      <4>1. cursor[i - 1] = i - 1 /\ cursor[i] = i - 1 /\ printed[i] = ERROR /\ i - 1 \in 0 .. N
        BY <1>1, <2>2, <2>4, <3>0, <3>2
      <4> QED
        BY <1>4, <4>1
    <3>3. CASE i > e
      <4>1. cursor[i - 1] = i - 2 /\ cursor[i] = i - 1 /\ printed[i] = P[i - 1] /\ i - 2 \in 0 .. N - 1 /\ (i - 2) + 1 = i - 1
        BY <1>1, <2>2, <2>4, <3>0, <3>3
      <4>2. Prints(attempt, P[(i - 2) + 1], i - 2, (i - 2) + 1)
        BY <1>3, <4>1
      <4> QED
        BY <4>1, <4>2
    <3> QED
      BY <1>1, <3>1, <3>2, <3>3
  <2>6. cursor[0] = 0 /\ cursor[N + 1] = N
    BY <1>1, <2>4
  <2> HIDE DEF cursor
  <2>7. Leads(attempt, printed, cursor, 0, N)
    BY <2>2, <2>3, <2>5, <2>6 DEF Leads
  <2>8. \A i \in 0 .. Len(printed) : cursor[i] \in 0 .. N
    BY <2>2, <2>4
  <2> QED
    BY <2>2, <2>7, <2>8
<1>8. printed = P \/ \E e \in 1 .. N + 1 : printed = InsertAt(P, e, ERROR)
  BY <1>1 DEF WithErrors, P
<1> QED
  BY <1>6, <1>7, <1>8 DEF N

\* One more piece is printed.
LEMMA LeadsOn ==
  ASSUME NEW attempt, NEW pieces \in Seq(Pieces), NEW cursor, NEW c, NEW d, Leads(attempt, pieces, cursor, c, d),
         NEW piece \in Pieces, NEW e \in Cursors, Prints(attempt, piece, d, e)
  PROVE  /\ Append(pieces, piece) \in Seq(Pieces)
         /\ \E next : Leads(attempt, Append(pieces, piece), next, c, e)
<1> DEFINE N == Len(pieces)
           t == Append(pieces, piece)
           next == [i \in Nat |-> IF i <= N THEN cursor[i] ELSE e]
<1>1. N \in Nat /\ t \in Seq(Pieces) /\ Len(t) = N + 1 /\ t[N + 1] = piece /\ \A i \in 1 .. N : t[i] = pieces[i]
  OBVIOUS
<1>2. /\ cursor \in [Nat -> Cursors] /\ cursor[0] = c /\ cursor[N] = d
      /\ \A i \in 1 .. N : Prints(attempt, pieces[i], cursor[i - 1], cursor[i])
  BY DEF Leads
<1> HIDE DEF t
<1>3. next \in [Nat -> Cursors] /\ next[N + 1] = e /\ \A i \in 0 .. N : next[i] = cursor[i]
  BY <1>1, <1>2
<1> HIDE DEF next
<1>4. ASSUME NEW i \in 1 .. N + 1 PROVE Prints(attempt, t[i], next[i - 1], next[i])
  <2>1. CASE i = N + 1
    <3>1. (N + 1) - 1 = N /\ N \in 0 .. N
      BY <1>1
    <3> QED
      BY <1>1, <1>2, <1>3, <2>1, <3>1
  <2>2. CASE i \in 1 .. N
    <3>1. i - 1 \in 0 .. N /\ i \in 0 .. N
      BY <1>1, <2>2
    <3> QED
      BY <1>1, <1>2, <1>3, <2>2, <3>1
  <2> QED
    BY <1>1, <2>1, <2>2
<1>5. next[0] = c
  BY <1>1, <1>2, <1>3
<1>6. Leads(attempt, t, next, c, e)
  BY <1>1, <1>3, <1>4, <1>5 DEF Leads
<1> QED
  BY <1>1, <1>6 DEF t

\* The start marker is printed first.
LEMMA StartLeads ==
  ASSUME NEW attempt, NEW pieces \in Seq(Pieces), NEW cursor, NEW d, Leads(attempt, pieces, cursor, 0, d),
         \A i \in 0 .. Len(pieces) : cursor[i] \in 0 .. 3 * OutputLines
  PROVE  /\ <<START>> \o pieces \in Seq(Pieces)
         /\ \E next : /\ Leads(attempt, <<START>> \o pieces, next, BeforeStart, d)
                      /\ \A i \in 0 .. Len(<<START>> \o pieces) : next[i] \in BeforeStart .. 3 * OutputLines
<1> DEFINE N == Len(pieces)
           t == <<START>> \o pieces
           next == [i \in Nat |-> IF i = 0 THEN BeforeStart ELSE cursor[i - 1]]
<1>0. START \in Pieces
  BY DEF Pieces
<1>1. N \in Nat /\ t \in Seq(Pieces) /\ Len(t) = N + 1 /\ t[1] = START /\ \A i \in 2 .. N + 1 : t[i] = pieces[i - 1]
  BY <1>0
<1>2. /\ cursor \in [Nat -> Cursors] /\ cursor[0] = 0 /\ cursor[N] = d
      /\ \A i \in 1 .. N : Prints(attempt, pieces[i], cursor[i - 1], cursor[i])
  BY DEF Leads
<1> HIDE DEF t
<1>3. next \in [Nat -> Cursors] /\ next[0] = BeforeStart /\ \A i \in 1 .. N + 1 : next[i] = cursor[i - 1]
  <2>1. BeforeStart \in Cursors
    BY LinesAreNat DEF Cursors, BeforeStart, AfterPrompt
  <2> QED
    BY <1>1, <1>2, <2>1
<1> HIDE DEF next
<1>4. ASSUME NEW i \in 1 .. N + 1 PROVE Prints(attempt, t[i], next[i - 1], next[i])
  <2>1. CASE i = 1
    <3>1. next[0] = BeforeStart /\ next[1] = 0 /\ 1 - 1 = 0
      BY <1>1, <1>2, <1>3
    <3> QED
      BY <1>1, <2>1, <3>1 DEF Prints
  <2>2. CASE i \in 2 .. N + 1
    <3>1. i - 1 \in 1 .. N /\ i - 1 \in 1 .. N + 1
      BY <1>1, <2>2
    <3>2. Prints(attempt, pieces[i - 1], cursor[(i - 1) - 1], cursor[i - 1])
      BY <1>2, <3>1
    <3> QED
      BY <1>1, <1>3, <2>2, <3>1, <3>2
  <2> QED
    BY <1>1, <2>1, <2>2
<1>5. next[N + 1] = d
  <2>1. N + 1 \in 1 .. N + 1 /\ (N + 1) - 1 = N
    BY <1>1
  <2> QED
    BY <1>2, <1>3, <2>1
<1>6. Leads(attempt, t, next, BeforeStart, d)
  BY <1>1, <1>3, <1>4, <1>5 DEF Leads
<1>7. ASSUME NEW i \in 0 .. Len(t) PROVE next[i] \in BeforeStart .. 3 * OutputLines
  <2>1. CASE i = 0
    BY <1>3, <2>1, LinesAreNat DEF BeforeStart
  <2>2. CASE i \in 1 .. N + 1
    <3>1. i - 1 \in 0 .. N
      BY <1>1, <2>2
    <3> QED
      BY <1>3, <2>2, <3>1, LinesAreNat DEF BeforeStart
  <2> QED
    BY <1>1, <2>1, <2>2
<1> QED
  BY <1>1, <1>6, <1>7 DEF t

\* What is printed up to some piece leads there.
LEMMA BeginningLeads ==
  ASSUME NEW attempt, NEW pieces \in Seq(Pieces), NEW cursor, NEW c, NEW d, Leads(attempt, pieces, cursor, c, d),
         NEW n \in 0 .. Len(pieces)
  PROVE  SubSeq(pieces, 1, n) \in Seq(Pieces) /\ Leads(attempt, SubSeq(pieces, 1, n), cursor, c, cursor[n])
<1> DEFINE s == SubSeq(pieces, 1, n)
<1>1. s \in Seq(Pieces) /\ Len(s) = n /\ \A i \in 1 .. n : i \in 1 .. Len(pieces) /\ s[i] = pieces[i]
  OBVIOUS
<1> HIDE DEF s
<1>2. Leads(attempt, s, cursor, c, cursor[n])
  BY <1>1 DEF Leads
<1> QED
  BY <1>1, <1>2 DEF s

\* What cdb prints for a command with markers.
LEMMA OutputFollows ==
  ASSUME NEW c \in {"once", "retry"}, NEW attempt \in 0 .. 5, NEW o \in Outputs(c, attempt)
  PROVE  o \in Seq(Pieces) /\ Follows(attempt, o, BeforeStart)
<1>1. PICK printed \in WithErrors(Printed(attempt)) :
        \E pieces \in Truncated(<<START>> \o printed) \cup {<<START>> \o printed \o <<END>>} : o = Append(pieces, PROMPT)
  BY DEF Outputs
<1>2. PICK pieces \in Truncated(<<START>> \o printed) \cup {<<START>> \o printed \o <<END>>} : o = Append(pieces, PROMPT)
  BY <1>1
<1> DEFINE F == <<START>> \o printed
<1>3. PICK cursor : /\ Leads(attempt, F, cursor, BeforeStart, 3 * OutputLines)
                    /\ \A i \in 0 .. Len(F) : cursor[i] \in BeforeStart .. 3 * OutputLines
  <2>1. PICK way : /\ Leads(attempt, printed, way, 0, 3 * OutputLines)
                   /\ \A i \in 0 .. Len(printed) : way[i] \in 0 .. 3 * OutputLines
    BY LinesLead
  <2>2. printed \in Seq(Pieces)
    BY LinesLead
  <2> QED
    BY <2>1, <2>2, StartLeads
<1>4. F \in Seq(Pieces)
  <2>1. printed \in Seq(Pieces) /\ START \in Pieces
    BY LinesLead DEF Pieces
  <2> QED
    BY <2>1
<1>5. {PROMPT, END} \subseteq Pieces /\ {AfterEnd, AfterPrompt} \subseteq Cursors
  BY LinesAreNat DEF Pieces, Cursors, BeforeStart, AfterEnd, AfterPrompt
<1> HIDE DEF F
<1>6. pieces \in Seq(Pieces) /\ \E way, d : Leads(attempt, pieces, way, BeforeStart, d) /\ d \in BeforeStart .. AfterEnd
  <2>1. CASE pieces \in Truncated(F)
    <3>1. PICK n \in {0} \cup {i \in 1 .. Len(F) : F[i] \in {START, LF}} : pieces = SubSeq(F, 1, n)
      BY <2>1 DEF Truncated
    <3>2. n \in 0 .. Len(F)
      BY <1>4, <3>1
    <3>3. pieces \in Seq(Pieces) /\ Leads(attempt, pieces, cursor, BeforeStart, cursor[n])
      BY <1>3, <1>4, <3>1, <3>2, BeginningLeads
    <3>4. cursor[n] \in BeforeStart .. AfterEnd
      BY <1>3, <3>2, LinesAreNat DEF BeforeStart, AfterEnd
    <3> QED
      BY <3>3, <3>4
  <2>2. CASE pieces = F \o <<END>>
    <3>1. pieces = Append(F, END)
      BY <1>4, <2>2
    <3>2. Prints(attempt, END, 3 * OutputLines, AfterEnd)
      BY DEF Prints
    <3>3. PICK way : Leads(attempt, pieces, way, BeforeStart, AfterEnd)
      BY <1>3, <1>4, <1>5, <3>1, <3>2, LeadsOn
    <3>4. pieces \in Seq(Pieces)
      BY <1>4, <1>5, <3>1
    <3>5. AfterEnd \in BeforeStart .. AfterEnd
      BY LinesAreNat DEF AfterEnd, BeforeStart
    <3> QED
      BY <3>3, <3>4, <3>5
  <2> QED
    BY <1>2, <2>1, <2>2 DEF F
<1>7. PICK way, d : Leads(attempt, pieces, way, BeforeStart, d) /\ d \in BeforeStart .. AfterEnd
  BY <1>6
<1>8. Prints(attempt, PROMPT, d, AfterPrompt)
  BY <1>7 DEF Prints
<1>9. PICK next : Leads(attempt, o, next, BeforeStart, AfterPrompt)
  BY <1>2, <1>5, <1>6, <1>7, <1>8, LeadsOn
<1>10. o \in Seq(Pieces)
  BY <1>2, <1>5, <1>6
<1> QED
  BY <1>9, <1>10 DEF Leads, Follows

-----------------------------------------------------------------------------
(* What is read.                                                           *)

Lists == Seq(Seq(Text) \ {<<>>})

LEMMA FlatText ==
  ASSUME NEW lines \in Lists
  PROVE  Flat(lines) \in Seq(Text)
<1>1. lines \in Seq(Seq(Text))
  BY DEF Lists
<1> QED
  BY <1>1, FlatIsList

\* A piece of text is read,
LEMMA TextGrows ==
  ASSUME NEW lines \in Lists, NEW line \in Seq(Text), NEW piece \in Text
  PROVE  /\ Append(line, piece) \in Seq(Text)
         /\ HalvesOf(Flat(lines) \o Append(line, piece)) =
              IF piece \in Halves THEN Append(HalvesOf(Flat(lines) \o line), piece)
              ELSE HalvesOf(Flat(lines) \o line)
<1> DEFINE text == Flat(lines)
<1>1. text \in Seq(Text)
  BY FlatText
<1> HIDE DEF text
<1>2. text \o line \in Seq(Text) /\ Append(line, piece) \in Seq(Text)
  BY <1>1
<1>3. text \o Append(line, piece) = Append(text \o line, piece)
  BY <1>1
<1>4. HalvesOf(Append(text \o line, piece)) =
        IF piece \in Halves THEN Append(HalvesOf(text \o line), piece) ELSE HalvesOf(text \o line)
  BY <1>2, HalvesAppend
<1> QED
  BY <1>2, <1>3, <1>4, Zenon DEF text

\* and a line feed.
LEMMA LineEnds ==
  ASSUME NEW lines \in Lists, NEW line \in Seq(Text), NEW filtered,
         filtered = IF line \in {<<>>, <<CPP>>} THEN lines ELSE Append(lines, line)
  PROVE  filtered \in Lists /\ HalvesOf(Flat(filtered) \o <<>>) = HalvesOf(Flat(lines) \o line)
<1>1. Flat(lines) \in Seq(Text)
  BY FlatText
<1>2. CASE line = <<>>
  BY <1>2
<1>3. CASE line = <<CPP>>
  <2> DEFINE text == Flat(lines)
  <2>1. filtered = lines
    BY <1>3
  <2>2. CPP \in Text /\ CPP \notin Halves
    BY TextIsPieces, MarksAreNoHalves
  <2> HIDE DEF text
  <2>3. text \in Seq(Text)
    BY <1>1 DEF text
  <2>4. text \o <<CPP>> = Append(text, CPP) /\ text \o <<>> = text
    BY <2>2, <2>3
  <2>5. HalvesOf(Append(text, CPP)) = HalvesOf(text)
    BY <2>2, <2>3, HalvesAppend
  <2> QED
    BY <1>3, <2>1, <2>4, <2>5 DEF text
<1>4. CASE line \notin {<<>>, <<CPP>>}
  <2>1. filtered = Append(lines, line)
    BY <1>4
  <2>2. filtered \in Lists
    BY <1>4, <2>1 DEF Lists
  <2>3. Flat(Append(lines, line)) = Flat(lines) \o line
    BY <1>4, FlatAppend DEF Lists
  <2> DEFINE text == Flat(lines) \o line
  <2>4. text \in Seq(Text)
    BY <1>1
  <2> HIDE DEF text
  <2>5. text \o <<>> = text
    BY <2>4
  <2> QED
    BY <2>1, <2>2, <2>3, <2>5 DEF text
<1> QED
  BY <1>2, <1>3, <1>4

\* The halves, and the lines they are in, when the cursor moves on by a half,
LEMMA HalfIsNext ==
  ASSUME NEW attempt, NEW c \in Nat, c % 3 \in {0, 1}
  PROVE  LET n == c - (c \div 3)
         IN /\ (c + 1) - ((c + 1) \div 3) = n + 1
            /\ FirstHalves(attempt, n + 1) = Append(FirstHalves(attempt, n), Half(attempt, (c \div 3) + 1, (c % 3) + 1))
            /\ BeginningOfLine(attempt, ((c + 1) \div 3) + 1, (c + 1) % 3)
                 = Append(BeginningOfLine(attempt, (c \div 3) + 1, c % 3), Half(attempt, (c \div 3) + 1, (c % 3) + 1))
            /\ (c + 1) \div 3 = c \div 3
<1> DEFINE n == c - (c \div 3)
           q == c \div 3
           r == c % 3
<1>1. q \in Nat /\ r \in {0, 1} /\ c = 3 * q + r /\ (c + 1) \div 3 = q /\ (c + 1) % 3 = r + 1
  BY Thirds
<1>2. n = 2 * q + r /\ n \in Nat
  BY <1>1
<1>3. ((n + 1) + 1) \div 2 = q + 1 /\ 2 - ((n + 1) % 2) = r + 1
  <2> HIDE DEF n, q, r
  <2>1. CASE r = 0
    BY <1>1, <1>2, <2>1
  <2>2. CASE r = 1
    BY <1>1, <1>2, <2>2
  <2> QED
    BY <1>1, <2>1, <2>2
<1>4. (c + 1) - ((c + 1) \div 3) = n + 1
  BY <1>1
<1> HIDE DEF n, q, r
<1>5. FirstHalves(attempt, n + 1) = Append(FirstHalves(attempt, n), Half(attempt, q + 1, r + 1))
  <2> DEFINE h(k) == Half(attempt, (k + 1) \div 2, 2 - (k % 2))
  <2>1. [k \in 1 .. n + 1 |-> h(k)] = Append([k \in 1 .. n |-> h(k)], h(n + 1))
    <3> HIDE DEF h
    <3> QED
      BY <1>2
  <2>2. h(n + 1) = Half(attempt, q + 1, r + 1)
    BY <1>3
  <2> QED
    BY <2>1, <2>2 DEF FirstHalves
<1>6. BeginningOfLine(attempt, q + 1, r + 1) = Append(BeginningOfLine(attempt, q + 1, r), Half(attempt, q + 1, r + 1))
  <2> DEFINE h(k) == Half(attempt, q + 1, k)
  <2>1. [k \in 1 .. r + 1 |-> h(k)] = Append([k \in 1 .. r |-> h(k)], h(r + 1))
    <3> HIDE DEF h
    <3> QED
      BY <1>1
  <2> QED
    BY <2>1 DEF BeginningOfLine
<1> QED
  BY <1>1, <1>4, <1>5, <1>6 DEF n, q, r

\* and by a line feed.
LEMMA LineIsNext ==
  ASSUME NEW attempt, NEW c \in Nat, c % 3 = 2
  PROVE  /\ (c + 1) - ((c + 1) \div 3) = c - (c \div 3)
         /\ BeginningOfLine(attempt, (c \div 3) + 1, c % 3) \notin {<<>>, <<CPP>>}
         /\ FirstLines(attempt, (c + 1) \div 3)
              = Append(FirstLines(attempt, c \div 3), BeginningOfLine(attempt, (c \div 3) + 1, c % 3))
         /\ BeginningOfLine(attempt, ((c + 1) \div 3) + 1, (c + 1) % 3) = <<>>
<1> DEFINE q == c \div 3
           line == BeginningOfLine(attempt, q + 1, 2)
<1>1. q \in Nat /\ c = 3 * q + 2 /\ (c + 1) \div 3 = q + 1 /\ (c + 1) % 3 = 0
  BY Thirds
<1>2. line = <<Half(attempt, q + 1, 1), Half(attempt, q + 1, 2)>> /\ line = Line(attempt, q + 1)
  BY DEF BeginningOfLine, Line
<1>3. line \notin {<<>>, <<CPP>>}
  BY <1>2
<1>4. BeginningOfLine(attempt, ((c + 1) \div 3) + 1, (c + 1) % 3) = <<>>
  BY <1>1 DEF BeginningOfLine
<1>5. (c + 1) - ((c + 1) \div 3) = c - (c \div 3)
  BY <1>1
<1>6. FirstLines(attempt, q + 1) = Append(FirstLines(attempt, q), Line(attempt, q + 1))
  <2> DEFINE l(k) == Line(attempt, k)
  <2>1. [k \in 1 .. q + 1 |-> l(k)] = Append([k \in 1 .. q |-> l(k)], l(q + 1))
    <3> HIDE DEF l, q
    <3> QED
      BY <1>1
  <2> QED
    BY <2>1 DEF FirstLines
<1> QED
  BY <1>1, <1>2, <1>3, <1>4, <1>5, <1>6

-----------------------------------------------------------------------------
(* The steps.                                                              *)

\* The text that was read.
TextRead == Flat(asbFilteredLines) \o sbFilteredCurrentLine

LEMMA Types ==
  ASSUME TypeOK
  PROVE  /\ asbFilteredLines \in Lists /\ sbFilteredCurrentLine \in Seq(Text) /\ output \in Seq(Pieces)
         /\ uAttempt \in 0 .. 5 /\ writes \in Nat
<1>1. uTries \in {1, 5} /\ uAttempt \in 0 .. uTries
  BY DEF TypeOK, uTries
<1>2. uAttempt \in 0 .. 5
  BY <1>1
<1>3. writes \in Nat
  BY CommandIOAssumption DEF TypeOK, CommandIOAssumption
<1> QED
  BY <1>2, <1>3 DEF TypeOK, Lists, Text

\* How a piece is read that does not follow the end marker.
LEMMA HowPieceIsRead ==
  ASSUME TypeOK, NEW piece \in Pieces, Read(piece), pc' # "failed"
  PROVE  /\ sbFilteredCurrentLine' \in Seq(Text) /\ asbFilteredLines' \in Lists
         /\ \/ /\ piece = LF
               /\ asbFilteredLines' = FilteredLines /\ sbFilteredCurrentLine' = <<>>
               /\ HalvesOf(TextRead') = HalvesOf(TextRead) /\ KeepsReading
               /\ UNCHANGED <<bStartOfCommandOutputMarkerFound, bEndOfCommandOutputMarkerFound>>
            \/ piece = ERROR /\ KeepsReading /\ UNCHANGED lineVars
            \/ /\ piece \in Text /\ ReadText(piece) /\ EndOfText
               /\ HalvesOf(TextRead') =
                    IF piece \in Halves THEN Append(HalvesOf(TextRead), piece) ELSE HalvesOf(TextRead)
<1>1. asbFilteredLines \in Lists /\ sbFilteredCurrentLine \in Seq(Text)
  BY Types
<1>2. CASE piece = LF /\ ReadLineFeed
  <2>1. /\ asbFilteredLines' = FilteredLines /\ sbFilteredCurrentLine' = <<>> /\ KeepsReading
        /\ UNCHANGED <<bStartOfCommandOutputMarkerFound, bEndOfCommandOutputMarkerFound>>
    BY <1>2 DEF ReadLineFeed
  <2>2. FilteredLines \in Lists /\ HalvesOf(Flat(FilteredLines) \o <<>>) = HalvesOf(TextRead)
    BY <1>1, LineEnds DEF FilteredLines, TextRead
  <2>3. TextRead' = Flat(FilteredLines) \o <<>>
    BY <2>1 DEF TextRead
  <2>4. <<>> \in Seq(Text)
    OBVIOUS
  <2> QED
    BY <1>2, <2>1, <2>2, <2>3, <2>4
<1>3. CASE piece = ERROR /\ ReadError
  BY <1>1, <1>3 DEF ReadError, lineVars
<1>4. CASE piece \notin {LF, ERROR} /\ ReadText(piece) /\ EndOfText
  <2>1. piece \in Text
    BY <1>4, TextIsPieces
  <2>2. asbFilteredLines' = asbFilteredLines
    BY <1>4 DEF ReadText
  <2>3. CASE IsStart(piece) \/ IsEnd(piece)
    <3>1. piece \notin Halves
      BY <2>3, MarksAreNoHalves DEF IsStart, IsEnd
    <3>2. sbFilteredCurrentLine' = sbFilteredCurrentLine
      BY <1>4, <2>3 DEF ReadText
    <3>3. TextRead' = TextRead
      BY <2>2, <3>2 DEF TextRead
    <3> QED
      BY <1>1, <1>4, <2>1, <2>2, <3>1, <3>2, <3>3
  <2>4. CASE ~(IsStart(piece) \/ IsEnd(piece))
    <3>1. sbFilteredCurrentLine' = Append(sbFilteredCurrentLine, piece)
      BY <1>4, <2>4 DEF ReadText
    <3>2. TextRead' = Flat(asbFilteredLines) \o Append(sbFilteredCurrentLine, piece)
      BY <2>2, <3>1 DEF TextRead
    <3>3. /\ Append(sbFilteredCurrentLine, piece) \in Seq(Text)
          /\ HalvesOf(TextRead') =
               IF piece \in Halves THEN Append(HalvesOf(TextRead), piece) ELSE HalvesOf(TextRead)
      BY <1>1, <2>1, <3>2, TextGrows DEF TextRead
    <3> QED
      BY <1>1, <1>4, <2>1, <2>2, <3>1, <3>3
  <2> QED
    BY <2>3, <2>4
<1>5. ~ReadAfterEndMarker
  BY DEF ReadAfterEndMarker, EndOfRead
<1> QED
  BY <1>2, <1>3, <1>4, <1>5 DEF Read

\* A piece that cdb prints moves the cursor on.
LEMMA PieceOfCdbIsRead ==
  ASSUME TypeOK, bUseMarkers, NEW piece \in Pieces, Read(piece), pc' # "failed",
         UNCHANGED <<uAttempt, writes>>, NEW c \in Cursors, NEW d \in Cursors,
         HasReadUpTo(c), Prints(uAttempt, piece, c, d), Follows(uAttempt, output', d)
  PROVE  HasReadUpTo(d)'
<1> DEFINE b == Before(c)
           n == b - (b \div 3)
<1>1. /\ bStartOfCommandOutputMarkerFound => c >= 0
      /\ bEndOfCommandOutputMarkerFound => c >= AfterEnd
      /\ c <= AfterEnd =>
           /\ HalvesOf(TextRead) = FirstHalves(uAttempt, n)
           /\ writes = 0 =>
                /\ asbFilteredLines = FirstLines(uAttempt, b \div 3)
                /\ sbFilteredCurrentLine = BeginningOfLine(uAttempt, (b \div 3) + 1, b % 3)
  BY DEF HasReadUpTo, TextRead
<1>2. uAttempt \in 0 .. 5
  BY Types
<1> DEFINE Reads(e) ==
             /\ bStartOfCommandOutputMarkerFound' => e >= 0
             /\ bEndOfCommandOutputMarkerFound' => e >= AfterEnd
             /\ e <= AfterEnd =>
                  /\ HalvesOf(TextRead') = FirstHalves(uAttempt, Before(e) - (Before(e) \div 3))
                  /\ writes = 0 =>
                       /\ asbFilteredLines' = FirstLines(uAttempt, Before(e) \div 3)
                       /\ sbFilteredCurrentLine' = BeginningOfLine(uAttempt, (Before(e) \div 3) + 1, Before(e) % 3)
<1>3. SUFFICES Reads(d)
  BY DEF HasReadUpTo, TextRead
<1>4. c \in Int /\ d \in Int /\ 3 * OutputLines \in Nat /\ AfterEnd = 3 * OutputLines + 1
  BY LinesAreNat DEF Cursors, BeforeStart, AfterPrompt, AfterEnd
\* A half of a line.
<1>5. CASE /\ c \in 0 .. 3 * OutputLines - 1 /\ d = c + 1 /\ c % 3 \in {0, 1}
           /\ piece = Half(uAttempt, (c \div 3) + 1, (c % 3) + 1) /\ piece \in Halves
  <2>1. b = c /\ Before(d) = c + 1 /\ c \in Nat /\ c <= AfterEnd /\ d >= 0 /\ ~(c >= AfterEnd) /\ c >= 0
    BY <1>4, <1>5 DEF Before
  <2>2. piece \notin {START, END, LF, ERROR}
    BY <1>5, MarksAreNoHalves
  <2>3. ReadText(piece) /\ HalvesOf(TextRead') = Append(HalvesOf(TextRead), piece)
    BY <1>5, <2>2, HowPieceIsRead
  <2>4. /\ UNCHANGED <<bStartOfCommandOutputMarkerFound, bEndOfCommandOutputMarkerFound, asbFilteredLines>>
        /\ sbFilteredCurrentLine' = Append(sbFilteredCurrentLine, piece)
    <3>1. ~IsStart(piece) /\ ~IsEnd(piece)
      BY <2>2 DEF IsStart, IsEnd
    <3>2. bStartOfCommandOutputMarkerFound \in BOOLEAN /\ bEndOfCommandOutputMarkerFound \in BOOLEAN
      BY DEF TypeOK
    <3> QED
      BY <2>3, <3>1, <3>2 DEF ReadText
  <2>5. /\ (c + 1) - ((c + 1) \div 3) = n + 1
        /\ FirstHalves(uAttempt, n + 1) = Append(FirstHalves(uAttempt, n), piece)
        /\ BeginningOfLine(uAttempt, ((c + 1) \div 3) + 1, (c + 1) % 3)
             = Append(BeginningOfLine(uAttempt, (c \div 3) + 1, c % 3), piece)
        /\ (c + 1) \div 3 = c \div 3
    BY <1>5, <2>1, HalfIsNext
  <2> HIDE DEF n, b
  <2> QED
    BY <1>1, <2>1, <2>3, <2>4, <2>5
\* A line feed.
<1>6. CASE c \in 0 .. 3 * OutputLines - 1 /\ d = c + 1 /\ c % 3 = 2 /\ piece = LF
  <2>1. b = c /\ Before(d) = c + 1 /\ c \in Nat /\ c <= AfterEnd /\ d >= 0 /\ ~(c >= AfterEnd) /\ c >= 0
    BY <1>4, <1>6 DEF Before
  <2>2. /\ asbFilteredLines' = FilteredLines /\ sbFilteredCurrentLine' = <<>>
        /\ HalvesOf(TextRead') = HalvesOf(TextRead)
        /\ UNCHANGED <<bStartOfCommandOutputMarkerFound, bEndOfCommandOutputMarkerFound>>
    <3>1. piece # ERROR /\ piece \notin Text
      BY <1>6, MarksDiffer, TextIsPieces
    <3> QED
      BY <1>6, <3>1, HowPieceIsRead
  <2>3. /\ (c + 1) - ((c + 1) \div 3) = n
        /\ BeginningOfLine(uAttempt, (c \div 3) + 1, c % 3) \notin {<<>>, <<CPP>>}
        /\ FirstLines(uAttempt, (c + 1) \div 3)
             = Append(FirstLines(uAttempt, c \div 3), BeginningOfLine(uAttempt, (c \div 3) + 1, c % 3))
        /\ BeginningOfLine(uAttempt, ((c + 1) \div 3) + 1, (c + 1) % 3) = <<>>
    BY <1>6, <2>1, LineIsNext
  <2> HIDE DEF n, b
  <2> QED
    BY <1>1, <2>1, <2>2, <2>3 DEF FilteredLines
\* Nothing that belongs to the lines.
<1>7. ASSUME Before(d) = b, d >= c, d >= 0, c <= 3 * OutputLines,
             HalvesOf(TextRead') = HalvesOf(TextRead),
             writes = 0 => UNCHANGED <<asbFilteredLines, sbFilteredCurrentLine>>,
             bEndOfCommandOutputMarkerFound' => bEndOfCommandOutputMarkerFound \/ d = AfterEnd
      PROVE  Reads(d)
  <2>1. c <= AfterEnd /\ (d = AfterEnd => d >= AfterEnd) /\ ~(c >= AfterEnd)
    BY <1>4, <1>7
  <2> HIDE DEF n, b
  <2> QED
    BY <1>1, <1>7, <2>1 DEF n
<1>8. CASE piece = START /\ c = BeforeStart /\ d = 0
  <2>1. Before(d) = b /\ b = 0 /\ d >= c /\ d >= 0 /\ c <= 3 * OutputLines /\ c <= AfterEnd /\ ~(c >= 0) /\ ~(c >= AfterEnd)
    BY <1>4, <1>8 DEF Before, BeforeStart
  <2>2. ReadText(piece) /\ HalvesOf(TextRead') = HalvesOf(TextRead)
    <3>1. piece # ERROR /\ piece # LF /\ piece \notin Halves
      BY <1>8, MarksDiffer, MarksAreNoHalves
    <3> QED
      BY <3>1, HowPieceIsRead
  <2>3. ~IsEnd(piece)
    BY <1>8, MarksDiffer DEF IsEnd
  <2>4. writes = 0 => sbFilteredCurrentLine = <<>>
    <3>1. BeginningOfLine(uAttempt, (0 \div 3) + 1, 0 % 3) = <<>>
      BY DEF BeginningOfLine
    <3> HIDE DEF b
    <3> QED
      BY <1>1, <2>1, <3>1
  <2>5. writes = 0 => UNCHANGED <<asbFilteredLines, sbFilteredCurrentLine>>
    BY <1>1, <1>8, <2>1, <2>2, <2>4 DEF IsStart, ReadText
  <2>6. bEndOfCommandOutputMarkerFound' => bEndOfCommandOutputMarkerFound
    BY <2>2, <2>3 DEF ReadText
  <2> HIDE DEF b, Reads
  <2> QED
    BY <1>7, <2>1, <2>2, <2>5, <2>6
<1>9. CASE piece = ERROR /\ d = c /\ c <= 3 * OutputLines
  <2>1. UNCHANGED lineVars
    BY <1>9, HowPieceIsRead, MarksDiffer, TextIsPieces
  <2>2. TextRead' = TextRead
    BY <2>1 DEF TextRead, lineVars
  <2>3. /\ UNCHANGED <<bStartOfCommandOutputMarkerFound, bEndOfCommandOutputMarkerFound>>
        /\ UNCHANGED <<asbFilteredLines, sbFilteredCurrentLine>>
    BY <2>1 DEF lineVars
  <2>4. Before(d) = b
    BY <1>9
  <2> HIDE DEF b
  <2> QED
    BY <1>1, <1>9, <2>2, <2>3, <2>4
<1>10. CASE piece = END /\ c = 3 * OutputLines /\ d = AfterEnd
  <2>1. Before(d) = b /\ d >= c /\ d >= 0 /\ c <= 3 * OutputLines /\ ~(c >= AfterEnd)
    BY <1>4, <1>10 DEF Before
  <2>2. ReadText(piece) /\ HalvesOf(TextRead') = HalvesOf(TextRead)
    <3>1. piece # ERROR /\ piece # LF /\ piece \notin Halves
      BY <1>10, MarksDiffer, MarksAreNoHalves
    <3> QED
      BY <3>1, HowPieceIsRead
  <2>3. IsEnd(piece)
    BY <1>1, <1>10, <2>1 DEF IsEnd
  <2>4. UNCHANGED <<asbFilteredLines, sbFilteredCurrentLine>>
    BY <2>2, <2>3 DEF ReadText
  <2> HIDE DEF b, Reads
  <2> QED
    BY <1>7, <1>10, <2>1, <2>2, <2>4
<1>11. CASE piece = PROMPT /\ c <= AfterEnd /\ d = AfterPrompt
  <2>1. d >= 0 /\ d >= AfterEnd /\ ~(d <= AfterEnd)
    BY <1>4, <1>11 DEF AfterPrompt
  <2> QED
    BY <2>1
<1>12. \/ /\ c \in 0 .. 3 * OutputLines - 1 /\ d = c + 1 /\ c % 3 \in {0, 1}
          /\ piece = Half(uAttempt, (c \div 3) + 1, (c % 3) + 1) /\ piece \in Halves
       \/ c \in 0 .. 3 * OutputLines - 1 /\ d = c + 1 /\ c % 3 = 2 /\ piece = LF
       \/ piece = START /\ c = BeforeStart /\ d = 0
       \/ piece = ERROR /\ d = c /\ c <= 3 * OutputLines
       \/ piece = END /\ c = 3 * OutputLines /\ d = AfterEnd
       \/ piece = PROMPT /\ c <= AfterEnd /\ d = AfterPrompt
  BY <1>2, WhatIsPrinted
<1> HIDE DEF Reads
<1> QED
  BY <1>5, <1>6, <1>8, <1>9, <1>10, <1>11, <1>12, Zenon

\* What the application prints leaves the cursor where it is.
LEMMA PieceOfApplicationIsRead ==
  ASSUME TypeOK, bUseMarkers, NEW piece \in {APPLICATION, LF}, Read(piece), pc' # "failed",
         writes' = writes + 1, UNCHANGED <<uAttempt, output>>, NEW c \in Cursors, HasReadUpTo(c)
  PROVE  HasReadUpTo(c)'
<1>1. piece \in Pieces /\ piece \notin {START, END, ERROR} /\ piece \notin Halves
  BY MarksDiffer, MarksAreNoHalves DEF Pieces
<1>2. /\ HalvesOf(TextRead') = HalvesOf(TextRead)
      /\ UNCHANGED <<bStartOfCommandOutputMarkerFound, bEndOfCommandOutputMarkerFound>>
  <2>1. CASE piece = LF
    <3>1. piece \notin Text
      BY <2>1, TextIsPieces, <1>1
    <3> QED
      BY <1>1, <3>1, HowPieceIsRead
  <2>2. CASE piece # LF
    <3>1. ReadText(piece) /\ HalvesOf(TextRead') = HalvesOf(TextRead)
      BY <1>1, <2>2, HowPieceIsRead
    <3>2. ~IsStart(piece) /\ ~IsEnd(piece)
      BY <1>1 DEF IsStart, IsEnd
    <3>3. bStartOfCommandOutputMarkerFound \in BOOLEAN /\ bEndOfCommandOutputMarkerFound \in BOOLEAN
      BY DEF TypeOK
    <3> QED
      BY <3>1, <3>2, <3>3 DEF ReadText
  <2> QED
    BY <2>1, <2>2
<1>3. writes' # 0
  BY Types
<1> QED
  BY <1>2, <1>3 DEF HasReadUpTo, TextRead

LEMMA AppendIsLonger ==
  ASSUME NEW T, NEW s \in Seq(T), NEW x
  PROVE  Len(s) \in Nat /\ Len(Append(s, x)) = Len(s) + 1 /\ Append(s, x)[Len(s) + 1] = x
  OBVIOUS

\* A list of one element has grown from the empty list.
LEMMA AppendIsOne ==
  ASSUME NEW T, NEW s \in Seq(T), NEW x \in T, NEW y, Append(s, x) = <<y>>
  PROVE  x = y /\ s = <<>>
<1> DEFINE t == Append(s, x)
           u == <<y>>
           n == Len(s)
<1>1. n \in Nat /\ Len(t) = n + 1 /\ t[n + 1] = x
  BY AppendIsLonger, Zenon
<1>2. Len(u) = 1 /\ u[1] = y
  OBVIOUS
<1>3. t = u
  OBVIOUS
<1>4. n = 0 => s = <<>>
  OBVIOUS
<1> HIDE DEF t, u, n
<1>5. n + 1 = 1
  BY <1>1, <1>2, <1>3
<1>6. n = 0
  BY <1>1, <1>5
<1> QED
  BY <1>1, <1>2, <1>3, <1>4, <1>5, <1>6

\* Until a prompt is all there is on a line, the read goes on.
LEMMA PromptIsAwaited ==
  ASSUME TypeOK, pc = "reading", NEW piece \in Pieces, Read(piece), pc' # "failed",
         sbFilteredCurrentLine # <<PROMPT>>
  PROVE  \/ pc' = "reading" /\ sbFilteredCurrentLine' # <<PROMPT>>
         \/ /\ piece = PROMPT /\ sbFilteredCurrentLine = <<>>
            /\ UNCHANGED <<asbFilteredLines, bEndOfCommandOutputMarkerFound>>
            /\ \/ ~IsTruncated /\ EndOfRead("ready")
               \/ IsTruncated /\ uAttempt < uTries /\ EndOfRead("writing")
               \/ IsTruncated /\ uAttempt = uTries /\ EndOfRead("truncated")
<1>1. CASE piece = LF
  <2>1. sbFilteredCurrentLine' = <<>> /\ KeepsReading
    BY <1>1, HowPieceIsRead, MarksDiffer, TextIsPieces
  <2> QED
    BY <2>1 DEF KeepsReading
<1>2. CASE piece = ERROR
  <2>1. UNCHANGED sbFilteredCurrentLine /\ KeepsReading
    BY <1>2, HowPieceIsRead, MarksDiffer, TextIsPieces DEF lineVars
  <2> QED
    BY <2>1 DEF KeepsReading
<1>3. CASE piece \notin {LF, ERROR}
  <2>1. ReadText(piece) /\ EndOfText
    BY <1>3, HowPieceIsRead
  <2>2. CASE ~AtPrompt
    <3>1. KeepsReading
      BY <2>1, <2>2 DEF EndOfText
    <3> QED
      BY <2>2, <3>1 DEF KeepsReading, AtPrompt
  <2>3. CASE AtPrompt
    <3>1. ~(IsStart(piece) \/ IsEnd(piece))
      BY <2>1, <2>3 DEF ReadText, AtPrompt
    <3>2. Append(sbFilteredCurrentLine, piece) = <<PROMPT>> /\ sbFilteredCurrentLine \in Seq(Text) /\ piece \in Text
      BY <1>3, <2>1, <2>3, <3>1, Types, TextIsPieces DEF ReadText, AtPrompt
    <3>3. piece = PROMPT /\ sbFilteredCurrentLine = <<>>
      <4>1. PROMPT \in Text
        BY TextIsPieces
      <4> QED
        BY <3>2, <4>1, AppendIsOne
    <3>4. UNCHANGED <<asbFilteredLines, bEndOfCommandOutputMarkerFound>>
      <4>1. bEndOfCommandOutputMarkerFound \in BOOLEAN
        BY DEF TypeOK
      <4> QED
        BY <2>1, <3>1, <4>1 DEF ReadText
    <3>5. \/ ~IsTruncated /\ EndOfRead("ready")
          \/ IsTruncated /\ uAttempt < uTries /\ EndOfRead("writing")
          \/ IsTruncated /\ uAttempt = uTries /\ EndOfRead("truncated")
      BY <2>1, <2>3 DEF EndOfText
    <3> QED
      BY <3>3, <3>4, <3>5
  <2> QED
    BY <2>2, <2>3
<1> QED
  BY <1>1, <1>2, <1>3

LEMMA FirstHalvesArePrefix ==
  ASSUME NEW attempt, NEW n \in Nat, n <= 2 * OutputLines
  PROVE  IsPrefix(FirstHalves(attempt, n), AllHalves(attempt))
<1> DEFINE h(k) == Half(attempt, (k + 1) \div 2, 2 - (k % 2))
           m == 2 * OutputLines
<1>1. m \in Nat /\ n <= m
  BY LinesAreNat
<1>2. FirstHalves(attempt, n) = [k \in 1 .. n |-> h(k)] /\ AllHalves(attempt) = [k \in 1 .. m |-> h(k)]
  BY DEF FirstHalves, AllHalves
<1> HIDE DEF h, m
<1> DEFINE s == [k \in 1 .. n |-> h(k)]
           t == [k \in 1 .. m |-> h(k)]
<1>3. Len(s) = n /\ Len(t) = m
  BY <1>1
<1>4. SubSeq(s, 1, n) = s
  BY <1>1
<1>5. SubSeq(t, 1, n) = s
  BY <1>1
<1> HIDE DEF s, t
<1>6. IsPrefix(s, t)
  BY <1>1, <1>3, <1>4, <1>5 DEF IsPrefix
<1> QED
  BY <1>2, <1>6 DEF s, t

\* When the prompt is read, the output is complete or truncated.
LEMMA OutputAtPrompt ==
  ASSUME TypeOK, bUseMarkers, NEW c \in Cursors, HasReadUpTo(c), c <= AfterEnd,
         sbFilteredCurrentLine = <<>>,
         UNCHANGED <<asbFilteredLines, bEndOfCommandOutputMarkerFound, uAttempt, writes, command>>,
         \/ ~IsTruncated /\ pc' = "ready"
         \/ IsTruncated /\ pc' \in {"writing", "truncated"}
  PROVE  OutputIsOfLastAttempt'
<1> DEFINE b == Before(c)
           n == b - (b \div 3)
<1>1. b \in Nat /\ b <= 3 * OutputLines /\ OutputLines \in Nat
  BY BeforeIsNat, LinesAreNat
<1>2. n \in Nat /\ n <= 2 * OutputLines
  <2> HIDE DEF b
  <2> QED
    BY <1>1
<1>3. CdbOutput(asbFilteredLines) = FirstHalves(uAttempt, n)
  <2>1. Flat(asbFilteredLines) \in Seq(Text)
    BY Types, FlatText
  <2>2. Flat(asbFilteredLines) \o <<>> = Flat(asbFilteredLines)
    BY <2>1
  <2> QED
    BY <2>2 DEF HasReadUpTo, CdbOutput
<1>4. CASE ~IsTruncated /\ pc' = "ready"
  <2>1. bEndOfCommandOutputMarkerFound
    BY <1>4 DEF IsTruncated
  <2>2. c >= AfterEnd /\ c \in Int
    BY <2>1 DEF HasReadUpTo, Cursors
  <2>3. b = 3 * OutputLines /\ b \div 3 = OutputLines /\ n = 2 * OutputLines
    BY <1>1, <2>2 DEF Before, AfterEnd
  <2>4. CdbOutput(asbFilteredLines) = AllHalves(uAttempt)
    BY <1>3, <2>3 DEF FirstHalves, AllHalves
  <2>5. writes = 0 => asbFilteredLines = AllLines(uAttempt)
    BY <2>3 DEF HasReadUpTo, FirstLines, AllLines
  <2>6. asbFilteredLines' = asbFilteredLines /\ uAttempt' = uAttempt /\ writes' = writes /\ pc' # "truncated"
    BY <1>4
  <2> HIDE DEF b, n
  <2> QED
    BY <2>4, <2>5, <2>6 DEF OutputIsOfLastAttempt, CdbOutput
<1>5. CASE IsTruncated /\ pc' \in {"writing", "truncated"}
  <2>1. IsPrefix(CdbOutput(asbFilteredLines), AllHalves(uAttempt))
    <3> HIDE DEF n, b
    <3> QED
      BY <1>2, <1>3, FirstHalvesArePrefix
  <2>2. asbFilteredLines' = asbFilteredLines /\ uAttempt' = uAttempt /\ pc' # "ready"
    BY <1>5
  <2> HIDE DEF b, n
  <2> QED
    BY <2>1, <2>2 DEF OutputIsOfLastAttempt, CdbOutput
<1> QED
  BY <1>4, <1>5

-----------------------------------------------------------------------------
(* Type correctness.                                                       *)

LEMMA OutputIsTyped ==
  ASSUME NEW c \in Commands \cup {"startup"}, NEW attempt \in 0 .. 5, NEW o \in Outputs(c, attempt)
  PROVE  o \in Seq(Pieces)
<1>1. CASE c \in {"once", "retry"}
  BY <1>1, OutputFollows
<1>2. CASE c = "run"
  <2>1. o = <<LF, PROMPT>> \/ o = <<CPP, LF, LF, PROMPT>>
    BY <1>2 DEF Outputs
  <2>2. LF \in Pieces /\ PROMPT \in Pieces /\ CPP \in Pieces
    BY DEF Pieces
  <2>3. \A x, y, z \in Pieces : <<x, y>> \in Seq(Pieces) /\ <<z, x, x, y>> \in Seq(Pieces)
    OBVIOUS
  <2> QED
    BY <2>1, <2>2, <2>3, Zenon
<1>3. CASE c = "quit"
  <2>1. o = <<>>
    BY <1>3 DEF Outputs
  <2> QED
    BY <2>1
<1>4. CASE c = "startup"
  <2>1. o = Append(Printed(attempt), PROMPT)
    BY <1>4 DEF Outputs
  <2>2. Printed(attempt) \in Seq(Pieces) /\ PROMPT \in Pieces
    BY PrintedIsList DEF Pieces
  <2> QED
    BY <2>1, <2>2
<1> QED
  BY <1>1, <1>2, <1>3, <1>4 DEF Commands

\* How a read leaves what it changes.
LEMMA ReadTypes ==
  ASSUME TypeOK, pc = "reading", NEW piece \in Pieces, Read(piece), Shows(piece)
  PROVE  /\ pc' \in {"ready", "writing", "reading", "truncated", "failed"}
         /\ pc' = "writing" => uAttempt < uTries
         /\ bStartOfCommandOutputMarkerFound' \in BOOLEAN /\ bEndOfCommandOutputMarkerFound' \in BOOLEAN
         /\ sbFilteredCurrentLine' \in Seq(Text) /\ asbFilteredLines' \in Lists
         /\ bApplicationIsRunning' = (pc' = "reading" /\ command = "run")
         /\ midLine' \in BOOLEAN
<1>1. /\ asbFilteredLines \in Lists /\ sbFilteredCurrentLine \in Seq(Text)
      /\ bStartOfCommandOutputMarkerFound \in BOOLEAN /\ bEndOfCommandOutputMarkerFound \in BOOLEAN
      /\ bApplicationIsRunning = (pc = "reading" /\ command = "run") /\ midLine \in BOOLEAN
  BY Types DEF TypeOK
<1>2. KeepsReading \/ \E next \in {"ready", "writing", "truncated", "failed"} : EndOfRead(next) /\ (next = "writing" => uAttempt < uTries)
  BY DEF Read, ReadAfterEndMarker, ReadLineFeed, ReadError, EndOfText
<1>3. /\ pc' \in {"ready", "writing", "reading", "truncated", "failed"}
      /\ pc' = "writing" => uAttempt < uTries
      /\ bApplicationIsRunning' = (pc' = "reading" /\ command = "run")
  <2>1. CASE KeepsReading
    BY <1>1, <2>1 DEF KeepsReading
  <2>2. ASSUME NEW next \in {"ready", "writing", "truncated", "failed"}, EndOfRead(next), next = "writing" => uAttempt < uTries
        PROVE  /\ pc' \in {"ready", "writing", "reading", "truncated", "failed"}
               /\ pc' = "writing" => uAttempt < uTries
               /\ bApplicationIsRunning' = (pc' = "reading" /\ command = "run")
    <3>1. pc' = next /\ next # "reading" /\ bApplicationIsRunning' = FALSE
      BY <2>2 DEF EndOfRead
    <3> QED
      BY <2>2, <3>1
  <2> QED
    BY <1>2, <2>1, <2>2
<1>4. midLine' \in BOOLEAN
  BY <1>1 DEF Shows
<1>5. bStartOfCommandOutputMarkerFound' \in BOOLEAN /\ bEndOfCommandOutputMarkerFound' \in BOOLEAN
  BY <1>1 DEF Read, ReadAfterEndMarker, ReadLineFeed, ReadError, ReadText, lineVars
<1>6. sbFilteredCurrentLine' \in Seq(Text) /\ asbFilteredLines' \in Lists
  <2>1. CASE pc' = "failed"
    <3>1. UNCHANGED lineVars
      BY <2>1 DEF Read, ReadAfterEndMarker, ReadLineFeed, ReadError, EndOfText, EndOfRead, KeepsReading
    <3> QED
      BY <1>1, <3>1 DEF lineVars
  <2>2. CASE pc' # "failed"
    BY <2>2, HowPieceIsRead
  <2> QED
    BY <2>1, <2>2
<1> QED
  BY <1>3, <1>4, <1>5, <1>6

\* A read leaves the types as they are, and tries left if the command is to be written again.
LEMMA ReadTypeOK ==
  ASSUME TypeOK, pc = "reading", NEW piece \in Pieces, Read(piece), Shows(piece),
         UNCHANGED <<command, uAttempt, bCdbIsRunning, cdb, commands>>,
         output' \in Seq(Pieces), writes' \in 0 .. MaxWrites
  PROVE  TypeOK' /\ WritingInv'
<1>1. uTries' = uTries
  BY DEF uTries
<1>2. /\ pc' \in {"ready", "writing", "reading", "truncated", "stopped", "failed"} /\ pc' # "stopped"
      /\ pc' = "writing" => uAttempt < uTries
      /\ bStartOfCommandOutputMarkerFound' \in BOOLEAN /\ bEndOfCommandOutputMarkerFound' \in BOOLEAN
      /\ sbFilteredCurrentLine' \in Seq(Text) /\ asbFilteredLines' \in Lists
      /\ bApplicationIsRunning' = (pc' = "reading" /\ command = "run")
      /\ midLine' \in BOOLEAN
  BY ReadTypes
<1>3. /\ command' \in Commands \cup {"startup"} /\ uAttempt' \in 0 .. uTries' /\ cdb' \in BOOLEAN
      /\ commands' \in 0 .. MaxCommands
  BY <1>1 DEF TypeOK
<1>4. bCdbIsRunning' = (pc' # "stopped")
  BY <1>2 DEF TypeOK
<1>5. bApplicationIsRunning' = (pc' = "reading" /\ command' = "run")
  BY <1>2
<1>6. WritingInv'
  BY <1>1, <1>2 DEF WritingInv
<1>7. sbFilteredCurrentLine' \in Seq(Pieces \ {LF, ERROR}) /\ asbFilteredLines' \in Seq(Seq(Pieces \ {LF, ERROR}) \ {<<>>})
  BY <1>2 DEF Lists, Text
<1>8. TypeOK'
  BY <1>2, <1>3, <1>4, <1>5, <1>7, Zenon DEF TypeOK
<1> QED
  BY <1>6, <1>8

-----------------------------------------------------------------------------
(* The invariant, action by action.                                        *)

LEMMA InitIOInv == Init => IOInv
<1> SUFFICES ASSUME Init PROVE IOInv
  OBVIOUS
<1>1. /\ pc = "reading" /\ command = "startup" /\ uAttempt = 0
      /\ bStartOfCommandOutputMarkerFound = FALSE /\ bEndOfCommandOutputMarkerFound = FALSE
      /\ sbFilteredCurrentLine = <<>> /\ asbFilteredLines = <<>>
      /\ bApplicationIsRunning = FALSE /\ bCdbIsRunning = TRUE
      /\ cdb = TRUE /\ output \in Outputs("startup", 0)
      /\ commands = 0 /\ writes = 0 /\ midLine = FALSE
  BY DEF Init
<1>2. output \in Seq(Pieces)
  BY <1>1, OutputIsTyped
<1>3. /\ commands \in 0 .. MaxCommands /\ writes \in 0 .. MaxWrites /\ uAttempt \in 0 .. uTries
      /\ <<>> \in Seq(Pieces \ {LF, ERROR}) /\ <<>> \in Seq(Seq(Pieces \ {LF, ERROR}) \ {<<>>})
  BY <1>1, CommandIOAssumption DEF CommandIOAssumption, uTries
<1>4. bApplicationIsRunning = (pc = "reading" /\ command = "run") /\ bCdbIsRunning = (pc # "stopped")
  BY <1>1
<1>5. /\ pc \in {"ready", "writing", "reading", "truncated", "stopped", "failed"}
      /\ command \in Commands \cup {"startup"}
      /\ bStartOfCommandOutputMarkerFound \in BOOLEAN /\ bEndOfCommandOutputMarkerFound \in BOOLEAN
      /\ cdb \in BOOLEAN /\ midLine \in BOOLEAN
      /\ sbFilteredCurrentLine \in Seq(Pieces \ {LF, ERROR})
      /\ asbFilteredLines \in Seq(Seq(Pieces \ {LF, ERROR}) \ {<<>>})
  BY <1>1, <1>3
<1>6. TypeOK
  BY <1>2, <1>3, <1>4, <1>5, Zenon DEF TypeOK
<1>7. WritingInv /\ ReadingInv /\ OutputIsOfLastAttempt
  BY <1>1 DEF WritingInv, ReadingInv, OutputIsOfLastAttempt, bUseMarkers
<1> QED
  BY <1>6, <1>7 DEF IOInv

\* When a command is written, all that it outputs is to come, and nothing was read.
LEMMA WriteIOInv == ASSUME IOInv, fWriteBytes PROVE IOInv'
<1>0. TypeOK /\ WritingInv
  BY DEF IOInv
<1>1. /\ pc = "writing" /\ cdb /\ pc' = "reading" /\ uAttempt' = uAttempt + 1
      /\ bStartOfCommandOutputMarkerFound' = FALSE /\ bEndOfCommandOutputMarkerFound' = FALSE
      /\ sbFilteredCurrentLine' = <<>> /\ asbFilteredLines' = <<>>
      /\ bApplicationIsRunning' = (command = "run")
      /\ output' \in Outputs(command, uAttempt') /\ midLine' = FALSE
      /\ command' = command /\ bCdbIsRunning' = bCdbIsRunning /\ cdb' = cdb
      /\ commands' = commands /\ writes' = writes
  BY DEF fWriteBytes, NoLines, counters
<1>2. uTries' = uTries /\ uTries \in {1, 5}
  BY <1>1 DEF uTries
<1>3. uAttempt' \in 0 .. uTries' /\ uAttempt' \in 0 .. 5
  <2>1. uAttempt \in 0 .. uTries /\ uAttempt < uTries
    BY <1>0, <1>1 DEF TypeOK, WritingInv
  <2> QED
    BY <1>1, <1>2, <2>1
<1>4. command \in Commands \cup {"startup"}
  BY <1>0 DEF TypeOK
<1>5. output' \in Seq(Pieces)
  BY <1>1, <1>3, <1>4, OutputIsTyped
<1>6. /\ pc' \in {"ready", "writing", "reading", "truncated", "stopped", "failed"}
      /\ command' \in Commands \cup {"startup"}
      /\ bStartOfCommandOutputMarkerFound' \in BOOLEAN /\ bEndOfCommandOutputMarkerFound' \in BOOLEAN
      /\ cdb' \in BOOLEAN /\ midLine' \in BOOLEAN
      /\ commands' \in 0 .. MaxCommands /\ writes' \in 0 .. MaxWrites
  BY <1>0, <1>1 DEF TypeOK
<1>7. sbFilteredCurrentLine' \in Seq(Pieces \ {LF, ERROR}) /\ asbFilteredLines' \in Seq(Seq(Pieces \ {LF, ERROR}) \ {<<>>})
  BY <1>1
<1>8. bApplicationIsRunning' = (pc' = "reading" /\ command' = "run")
  BY <1>1
<1>9. bCdbIsRunning' = (pc' # "stopped")
  BY <1>0, <1>1 DEF TypeOK
<1>10. TypeOK'
  BY <1>3, <1>5, <1>6, <1>7, <1>8, <1>9, Zenon DEF TypeOK
<1>11. WritingInv' /\ OutputIsOfLastAttempt'
  BY <1>1 DEF WritingInv, OutputIsOfLastAttempt
<1>12. ReadingInv'
  <2> SUFFICES ASSUME bUseMarkers'
               PROVE  (sbFilteredCurrentLine # <<PROMPT>>)' /\ \E c \in Cursors : HasReadUpTo(c)'
    BY DEF ReadingInv, HasReadUpTo
  <2>1. command \in {"once", "retry"}
    BY <1>1 DEF bUseMarkers
  <2>2. Follows(uAttempt', output', BeforeStart)
    BY <1>1, <1>3, <2>1, OutputFollows
  <2>3. BeforeStart \in Cursors /\ Before(BeforeStart) = 0
    BY LinesAreNat DEF Cursors, BeforeStart, AfterPrompt, Before
  <2>4. HalvesOf(Flat(<<>>) \o <<>>) = <<>>
    <3>1. Flat(<<>>) \o <<>> = <<>>
      BY FlatEmpty
    <3> QED
      BY <3>1, HalvesEmpty
  <2>5. /\ FirstHalves(uAttempt', 0 - (0 \div 3)) = <<>> /\ FirstLines(uAttempt', 0 \div 3) = <<>>
        /\ BeginningOfLine(uAttempt', (0 \div 3) + 1, 0 % 3) = <<>>
    <3>1. 0 \div 3 = 0 /\ 0 % 3 = 0 /\ 0 - 0 = 0
      OBVIOUS
    <3> QED
      BY <3>1 DEF FirstHalves, FirstLines, BeginningOfLine
  <2>6. HasReadUpTo(BeforeStart)'
    <3>1. HalvesOf(Flat(asbFilteredLines') \o sbFilteredCurrentLine')
            = FirstHalves(uAttempt', Before(BeforeStart) - (Before(BeforeStart) \div 3))
      BY <1>1, <2>3, <2>4, <2>5
    <3>2. /\ asbFilteredLines' = FirstLines(uAttempt', Before(BeforeStart) \div 3)
          /\ sbFilteredCurrentLine' = BeginningOfLine(uAttempt', (Before(BeforeStart) \div 3) + 1, Before(BeforeStart) % 3)
      BY <1>1, <2>3, <2>5
    <3> QED
      BY <1>1, <2>2, <3>1, <3>2 DEF HasReadUpTo
  <2>7. <<>> # <<PROMPT>>
    OBVIOUS
  <2> QED
    BY <1>1, <2>3, <2>6, <2>7
<1> QED
  BY <1>10, <1>11, <1>12 DEF IOInv

\* A piece of cdb's output is read.
LEMMA ReadCdbIOInv == ASSUME IOInv, ReadCdbOutput PROVE IOInv'
<1>0. TypeOK /\ ReadingInv
  BY DEF IOInv
<1> DEFINE piece == Head(output)
<1>1. /\ pc = "reading" /\ output # <<>> /\ output' = Tail(output)
      /\ Read(piece) /\ Shows(piece)
      /\ UNCHANGED <<command, uAttempt, bCdbIsRunning, cdb, commands, writes>>
  BY DEF ReadCdbOutput, counters
<1>2. output \in Seq(Pieces) /\ piece \in Pieces /\ Tail(output) \in Seq(Pieces)
  <2>1. output \in Seq(Pieces)
    BY <1>0, Types
  <2> QED
    BY <1>1, <2>1
<1> HIDE DEF piece
<1>3. writes' \in 0 .. MaxWrites
  BY <1>0, <1>1 DEF TypeOK
<1>4. TypeOK' /\ WritingInv'
  BY <1>0, <1>1, <1>2, <1>3, ReadTypeOK
<1>5. bUseMarkers' = bUseMarkers
  BY <1>1 DEF bUseMarkers
<1>6. ReadingInv' /\ OutputIsOfLastAttempt'
  <2>1. CASE pc' = "failed"
    BY <2>1 DEF ReadingInv, OutputIsOfLastAttempt
  <2>2. CASE pc' # "failed" /\ ~bUseMarkers
    <3>1. pc' # "truncated"
      BY <1>1, <2>2 DEF Read, ReadAfterEndMarker, ReadLineFeed, ReadError, EndOfText, EndOfRead, KeepsReading, IsTruncated
    <3> QED
      BY <1>5, <2>2, <3>1 DEF ReadingInv, OutputIsOfLastAttempt
  <2>3. CASE pc' # "failed" /\ bUseMarkers
    <3>1. PICK c \in Cursors : HasReadUpTo(c)
      BY <1>0, <1>1, <2>3 DEF ReadingInv
    <3>2. sbFilteredCurrentLine # <<PROMPT>>
      BY <1>0, <1>1, <2>3 DEF ReadingInv
    <3>3. PICK d \in Cursors : Prints(uAttempt, piece, c, d) /\ Follows(uAttempt, Tail(output), d)
      <4>1. Follows(uAttempt, output, c)
        BY <3>1 DEF HasReadUpTo
      <4> QED
        BY <1>1, <1>2, <4>1, RestFollows DEF piece
    <3>4. CASE pc' = "reading" /\ sbFilteredCurrentLine' # <<PROMPT>>
      <4>1. HasReadUpTo(d)'
        <5>1. UNCHANGED <<uAttempt, writes>> /\ Follows(uAttempt, output', d)
          BY <1>1, <3>3
        <5> QED
          BY <1>0, <1>1, <1>2, <2>3, <3>1, <3>3, <5>1, PieceOfCdbIsRead
      <4> QED
        BY <3>4, <4>1 DEF ReadingInv, OutputIsOfLastAttempt, HasReadUpTo
    <3>5. CASE /\ piece = PROMPT /\ sbFilteredCurrentLine = <<>>
               /\ UNCHANGED <<asbFilteredLines, bEndOfCommandOutputMarkerFound>>
               /\ \/ ~IsTruncated /\ EndOfRead("ready")
                  \/ IsTruncated /\ uAttempt < uTries /\ EndOfRead("writing")
                  \/ IsTruncated /\ uAttempt = uTries /\ EndOfRead("truncated")
      <4>1. \/ ~IsTruncated /\ pc' = "ready"
            \/ IsTruncated /\ pc' \in {"writing", "truncated"}
        BY <3>5 DEF EndOfRead
      <4>2. c <= AfterEnd
        <5>1. uAttempt \in 0 .. 5
          BY <1>0, Types
        <5>2. Prints(uAttempt, PROMPT, c, d)
          BY <3>3, <3>5
        <5>3. c \in BeforeStart .. AfterEnd
          BY <5>1, <5>2, PromptIsPrinted
        <5> QED
          BY <5>3, LinesAreNat DEF AfterEnd, BeforeStart
      <4>3. OutputIsOfLastAttempt'
        BY <1>0, <1>1, <2>3, <3>1, <3>5, <4>1, <4>2, OutputAtPrompt
      <4>4. ReadingInv'
        BY <4>1 DEF ReadingInv
      <4> QED
        BY <4>3, <4>4
    <3> QED
      BY <1>0, <1>1, <1>2, <2>3, <3>2, <3>4, <3>5, PromptIsAwaited
  <2> QED
    BY <2>1, <2>2, <2>3
<1> QED
  BY <1>4, <1>6 DEF IOInv

\* Something that the application prints is read.
LEMMA ReadApplicationIOInv ==
  ASSUME IOInv, NEW piece \in {APPLICATION, LF}, ReadApplicationOutput(piece) PROVE IOInv'
<1>0. TypeOK /\ ReadingInv
  BY DEF IOInv
<1>1. /\ pc = "reading" /\ writes < MaxWrites /\ writes' = writes + 1
      /\ Read(piece) /\ Shows(piece)
      /\ UNCHANGED <<command, uAttempt, bCdbIsRunning, cdb, output, commands>>
  BY DEF ReadApplicationOutput, cdbVars
<1>2. piece \in Pieces /\ piece # PROMPT
  BY MarksDiffer DEF Pieces
<1>3. writes' \in 0 .. MaxWrites /\ output' \in Seq(Pieces)
  BY <1>0, <1>1, CommandIOAssumption DEF TypeOK, CommandIOAssumption
<1>4. TypeOK' /\ WritingInv'
  BY <1>0, <1>1, <1>2, <1>3, ReadTypeOK
<1>5. bUseMarkers' = bUseMarkers
  BY <1>1 DEF bUseMarkers
<1>6. ReadingInv' /\ OutputIsOfLastAttempt'
  <2>1. CASE pc' = "failed"
    BY <2>1 DEF ReadingInv, OutputIsOfLastAttempt
  <2>2. CASE pc' # "failed" /\ ~bUseMarkers
    <3>1. pc' # "truncated"
      BY <1>1, <2>2 DEF Read, ReadAfterEndMarker, ReadLineFeed, ReadError, EndOfText, EndOfRead, KeepsReading, IsTruncated
    <3> QED
      BY <1>5, <2>2, <3>1 DEF ReadingInv, OutputIsOfLastAttempt
  <2>3. CASE pc' # "failed" /\ bUseMarkers
    <3>1. PICK c \in Cursors : HasReadUpTo(c)
      BY <1>0, <1>1, <2>3 DEF ReadingInv
    <3>2. sbFilteredCurrentLine # <<PROMPT>>
      BY <1>0, <1>1, <2>3 DEF ReadingInv
    <3>3. pc' = "reading" /\ sbFilteredCurrentLine' # <<PROMPT>>
      BY <1>0, <1>1, <1>2, <2>3, <3>2, PromptIsAwaited
    <3>4. HasReadUpTo(c)'
      <4>1. UNCHANGED <<uAttempt, output>>
        BY <1>1
      <4> QED
        BY <1>0, <1>1, <2>3, <3>1, <4>1, PieceOfApplicationIsRead
    <3> QED
      BY <3>3, <3>4 DEF ReadingInv, OutputIsOfLastAttempt, HasReadUpTo
  <2> QED
    BY <2>1, <2>2, <2>3
<1> QED
  BY <1>4, <1>6 DEF IOInv

LEMMA ReadEOFIOInv == ASSUME IOInv, ReadEOF PROVE IOInv'
<1>0. TypeOK
  BY DEF IOInv
<1>1. /\ asbFilteredLines' = FilteredLines /\ sbFilteredCurrentLine' = <<>>
      /\ bCdbIsRunning' = FALSE /\ pc' = "stopped" /\ bApplicationIsRunning' = FALSE
      /\ UNCHANGED <<bStartOfCommandOutputMarkerFound, bEndOfCommandOutputMarkerFound,
                     command, uAttempt, cdb, output, commands, writes, midLine>>
  BY DEF ReadEOF, EndOfRead, cdbVars, counters
<1>2. FilteredLines \in Seq(Seq(Pieces \ {LF, ERROR}) \ {<<>>}) /\ <<>> \in Seq(Pieces \ {LF, ERROR})
  <2>1. asbFilteredLines \in Lists /\ sbFilteredCurrentLine \in Seq(Text)
    BY <1>0, Types
  <2>2. FilteredLines \in Lists
    BY <2>1, LineEnds DEF FilteredLines
  <2> QED
    BY <2>2 DEF Lists, Text
<1>3. bApplicationIsRunning' = (pc' = "reading" /\ command' = "run") /\ bCdbIsRunning' = (pc' # "stopped")
  BY <1>1
<1>4. /\ pc' \in {"ready", "writing", "reading", "truncated", "stopped", "failed"}
      /\ command' \in Commands \cup {"startup"} /\ uAttempt' \in 0 .. uTries'
      /\ bStartOfCommandOutputMarkerFound' \in BOOLEAN /\ bEndOfCommandOutputMarkerFound' \in BOOLEAN
      /\ cdb' \in BOOLEAN /\ output' \in Seq(Pieces)
      /\ commands' \in 0 .. MaxCommands /\ writes' \in 0 .. MaxWrites /\ midLine' \in BOOLEAN
  BY <1>0, <1>1 DEF TypeOK, uTries
<1>5. sbFilteredCurrentLine' \in Seq(Pieces \ {LF, ERROR}) /\ asbFilteredLines' \in Seq(Seq(Pieces \ {LF, ERROR}) \ {<<>>})
  BY <1>1, <1>2
<1>6. TypeOK'
  BY <1>3, <1>4, <1>5, Zenon DEF TypeOK
<1> QED
  BY <1>1, <1>6 DEF IOInv, WritingInv, ReadingInv, OutputIsOfLastAttempt

LEMMA WriteFailsIOInv == ASSUME IOInv, fWriteBytesFails PROVE IOInv'
<1>0. TypeOK /\ WritingInv
  BY DEF IOInv
<1>1. /\ pc = "writing" /\ pc' = "stopped" /\ uAttempt' = uAttempt + 1 /\ bCdbIsRunning' = FALSE
      /\ UNCHANGED <<command, bStartOfCommandOutputMarkerFound, bEndOfCommandOutputMarkerFound,
                     sbFilteredCurrentLine, asbFilteredLines, bApplicationIsRunning,
                     cdb, output, commands, writes, midLine>>
  BY DEF fWriteBytesFails, lineVars, cdbVars, counters
<1>2. uAttempt' \in 0 .. uTries'
  <2>1. uAttempt \in 0 .. uTries /\ uAttempt < uTries /\ uTries' = uTries /\ uTries \in {1, 5}
    BY <1>0, <1>1 DEF TypeOK, WritingInv, uTries
  <2> QED
    BY <1>1, <2>1
<1>3. /\ pc' \in {"ready", "writing", "reading", "truncated", "stopped", "failed"}
      /\ command' \in Commands \cup {"startup"}
      /\ bStartOfCommandOutputMarkerFound' \in BOOLEAN /\ bEndOfCommandOutputMarkerFound' \in BOOLEAN
      /\ cdb' \in BOOLEAN /\ output' \in Seq(Pieces)
      /\ commands' \in 0 .. MaxCommands /\ writes' \in 0 .. MaxWrites /\ midLine' \in BOOLEAN
      /\ sbFilteredCurrentLine' \in Seq(Pieces \ {LF, ERROR})
      /\ asbFilteredLines' \in Seq(Seq(Pieces \ {LF, ERROR}) \ {<<>>})
  BY <1>0, <1>1 DEF TypeOK
<1>4. bApplicationIsRunning' = (pc' = "reading" /\ command' = "run") /\ bCdbIsRunning' = (pc' # "stopped")
  BY <1>0, <1>1 DEF TypeOK
<1>5. TypeOK'
  BY <1>2, <1>3, <1>4, Zenon DEF TypeOK
<1> QED
  BY <1>1, <1>5 DEF IOInv, WritingInv, ReadingInv, OutputIsOfLastAttempt

LEMMA ExecuteIOInv ==
  ASSUME IOInv, NEW c \in Commands, fasbExecuteCdbCommand(c) PROVE IOInv'
<1>0. TypeOK
  BY DEF IOInv
<1>1. /\ pc \in {"ready", "truncated"} /\ commands < MaxCommands
      /\ pc' = "writing" /\ command' = c /\ uAttempt' = 0 /\ commands' = commands + 1
      /\ UNCHANGED <<bStartOfCommandOutputMarkerFound, bEndOfCommandOutputMarkerFound,
                     sbFilteredCurrentLine, asbFilteredLines, bApplicationIsRunning, bCdbIsRunning,
                     cdb, output, writes, midLine>>
  BY DEF fasbExecuteCdbCommand, lineVars, flagVars, cdbVars
<1>2. uAttempt' \in 0 .. uTries' /\ uAttempt' < uTries' /\ commands' \in 0 .. MaxCommands
  BY <1>0, <1>1, CommandIOAssumption DEF TypeOK, CommandIOAssumption, uTries
<1>3. /\ pc' \in {"ready", "writing", "reading", "truncated", "stopped", "failed"}
      /\ command' \in Commands \cup {"startup"}
      /\ bStartOfCommandOutputMarkerFound' \in BOOLEAN /\ bEndOfCommandOutputMarkerFound' \in BOOLEAN
      /\ cdb' \in BOOLEAN /\ output' \in Seq(Pieces)
      /\ writes' \in 0 .. MaxWrites /\ midLine' \in BOOLEAN
      /\ sbFilteredCurrentLine' \in Seq(Pieces \ {LF, ERROR})
      /\ asbFilteredLines' \in Seq(Seq(Pieces \ {LF, ERROR}) \ {<<>>})
  BY <1>0, <1>1 DEF TypeOK
<1>4. bApplicationIsRunning' = (pc' = "reading" /\ command' = "run") /\ bCdbIsRunning' = (pc' # "stopped")
  BY <1>0, <1>1 DEF TypeOK
<1>5. TypeOK'
  BY <1>2, <1>3, <1>4, Zenon DEF TypeOK
<1> QED
  BY <1>1, <1>2, <1>5 DEF IOInv, WritingInv, ReadingInv, OutputIsOfLastAttempt

\* When cdb ends, less than it would have printed is to come.
LEMMA CdbEndsIOInv == ASSUME IOInv, CdbEnds PROVE IOInv'
<1>0. TypeOK /\ WritingInv /\ ReadingInv /\ OutputIsOfLastAttempt
  BY DEF IOInv
<1>1. /\ cdb' = FALSE
      /\ UNCHANGED <<pc, command, uAttempt, bStartOfCommandOutputMarkerFound, bEndOfCommandOutputMarkerFound,
                     sbFilteredCurrentLine, asbFilteredLines, bApplicationIsRunning, bCdbIsRunning,
                     commands, writes, midLine>>
  BY DEF CdbEnds, lineVars, flagVars, counters
<1>2. PICK n \in 0 .. Len(output) : output' = SubSeq(output, 1, n)
  BY DEF CdbEnds
<1>3. output \in Seq(Pieces)
  BY <1>0, Types
<1>4. output' \in Seq(Pieces)
  BY <1>2, <1>3
<1>5. /\ pc' \in {"ready", "writing", "reading", "truncated", "stopped", "failed"}
      /\ command' \in Commands \cup {"startup"} /\ uAttempt' \in 0 .. uTries'
      /\ bStartOfCommandOutputMarkerFound' \in BOOLEAN /\ bEndOfCommandOutputMarkerFound' \in BOOLEAN
      /\ cdb' \in BOOLEAN
      /\ commands' \in 0 .. MaxCommands /\ writes' \in 0 .. MaxWrites /\ midLine' \in BOOLEAN
      /\ sbFilteredCurrentLine' \in Seq(Pieces \ {LF, ERROR})
      /\ asbFilteredLines' \in Seq(Seq(Pieces \ {LF, ERROR}) \ {<<>>})
  BY <1>0, <1>1 DEF TypeOK, uTries
<1>6. bApplicationIsRunning' = (pc' = "reading" /\ command' = "run") /\ bCdbIsRunning' = (pc' # "stopped")
  BY <1>0, <1>1 DEF TypeOK
<1>7. TypeOK'
  BY <1>4, <1>5, <1>6, Zenon DEF TypeOK
<1>8. bUseMarkers' = bUseMarkers /\ uTries' = uTries
  BY <1>1 DEF bUseMarkers, uTries
<1>9. WritingInv' /\ OutputIsOfLastAttempt'
  BY <1>0, <1>1, <1>8 DEF WritingInv, OutputIsOfLastAttempt
<1>10. ReadingInv'
  <2> SUFFICES ASSUME pc = "reading", bUseMarkers
               PROVE  sbFilteredCurrentLine # <<PROMPT>> /\ \E c \in Cursors : HasReadUpTo(c)'
    BY <1>1, <1>8 DEF ReadingInv, HasReadUpTo
  <2>1. PICK c \in Cursors : HasReadUpTo(c)
    BY <1>0 DEF ReadingInv
  <2>2. Follows(uAttempt', output', c)
    <3>1. Follows(uAttempt, output, c)
      BY <2>1 DEF HasReadUpTo
    <3> QED
      BY <1>1, <1>2, <1>3, <3>1, BeginningFollows
  <2>3. HasReadUpTo(c)'
    BY <1>1, <2>1, <2>2 DEF HasReadUpTo
  <2> QED
    BY <1>0, <2>3 DEF ReadingInv
<1> QED
  BY <1>7, <1>9, <1>10 DEF IOInv

LEMMA StutterIOInv == ASSUME IOInv, UNCHANGED vars PROVE IOInv'
<1>1. UNCHANGED <<pc, command, uAttempt, bStartOfCommandOutputMarkerFound, bEndOfCommandOutputMarkerFound,
                  sbFilteredCurrentLine, asbFilteredLines, bApplicationIsRunning, bCdbIsRunning,
                  cdb, output, commands, writes, midLine>>
  BY DEF vars, lineVars, flagVars, cdbVars, counters
<1>2. TypeOK /\ WritingInv /\ ReadingInv /\ OutputIsOfLastAttempt
  BY DEF IOInv
<1>3. bUseMarkers' = bUseMarkers /\ uTries' = uTries
  BY <1>1 DEF bUseMarkers, uTries
<1>4. TypeOK'
  BY <1>1, <1>2, <1>3 DEF TypeOK
<1>5. WritingInv' /\ OutputIsOfLastAttempt'
  BY <1>1, <1>2, <1>3 DEF WritingInv, OutputIsOfLastAttempt
<1>6. \A c \in Cursors : HasReadUpTo(c)' = HasReadUpTo(c)
  BY <1>1 DEF HasReadUpTo
<1>7. ReadingInv'
  BY <1>1, <1>2, <1>3, <1>6 DEF ReadingInv, HasReadUpTo
<1> QED
  BY <1>4, <1>5, <1>7 DEF IOInv

LEMMA NextIOInv == IOInv /\ [Next]_vars => IOInv'
<1> SUFFICES ASSUME IOInv, [Next]_vars PROVE IOInv'
  OBVIOUS
<1>1. CASE fWriteBytes
  BY <1>1, WriteIOInv
<1>2. CASE fWriteBytesFails
  BY <1>2, WriteFailsIOInv
<1>3. CASE ReadCdbOutput
  BY <1>3, ReadCdbIOInv
<1>4. CASE ReadEOF
  BY <1>4, ReadEOFIOInv
<1>5. ASSUME NEW c \in Commands, fasbExecuteCdbCommand(c) PROVE IOInv'
  BY <1>5, ExecuteIOInv
<1>6. ASSUME NEW piece \in {APPLICATION, LF}, ReadApplicationOutput(piece) PROVE IOInv'
  BY <1>6, ReadApplicationIOInv
<1>7. CASE CdbEnds
  BY <1>7, CdbEndsIOInv
<1>8. CASE Ended
  BY <1>8, StutterIOInv DEF Ended
<1>9. CASE UNCHANGED vars
  BY <1>9, StutterIOInv
<1> QED
  BY <1>1, <1>2, <1>3, <1>4, <1>5, <1>6, <1>7, <1>8, <1>9 DEF Next, Main

\* IOInv holds in every state.
LEMMA SpecIOInv == Spec => []IOInv
<1>1. Init => IOInv
  BY InitIOInv
<1>2. IOInv /\ [Next]_vars => IOInv'
  BY NextIOInv
<1> QED
  BY <1>1, <1>2, PTL DEF Spec

\* The variables have their types for any number of lines and commands; in particular the code knows
\* that the application runs exactly while it reads the output of a command that runs it, in
\* whatever way the read ends (fasbReadOutput:217-222), and never writes a command more often than
\* there are tries for it (fasbExecuteCdbCommand:76-100).
THEOREM SpecTypeOK == Spec => []TypeOK
<1>1. IOInv => TypeOK
  BY DEF IOInv
<1> QED
  BY <1>1, SpecIOInv, PTL

\* For any number of lines, of commands and of things that the application prints, wherever they
\* are: what a command with markers returns is the output of its last execution, all of it and
\* nothing else of cdb's, and what the exception for a truncated output carries is the beginning
\* of it (fasbReadOutput, and the retries of fasbExecuteCdbCommand:76-100).
THEOREM SpecOutputIsOfLastAttempt == Spec => []OutputIsOfLastAttempt
<1>1. IOInv => OutputIsOfLastAttempt
  BY DEF IOInv
<1> QED
  BY <1>1, SpecIOInv, PTL
==============================================================================
