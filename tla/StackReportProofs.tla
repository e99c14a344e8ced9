--------------------------- MODULE StackReportProofs ---------------------------
(***************************************************************************)
(* For every stack, every exception and every configuration that           *)
(* SanityAssumption allows: the translations end, what is reported as a    *)
(* recursion is one, and the id of another bug starts with a relevant      *)
(* frame.                                                                  *)
(*                                                                         *)
(* The rules are a list of constants; what the proofs need of each is in   *)
(* Good, and a lemma for every list says that its rules are.               *)
(***************************************************************************)
EXTENDS StackReport, FiniteSetTheorems, SequenceTheorems, TLAPS

-----------------------------------------------------------------------------
(* Numbers.                                                                *)

\* Some natural numbers have a least one: that of a smallest set 1 .. x.
LEMMA Least ==
  ASSUME NEW S, S \subseteq Nat, S # {}
  PROVE  \E m \in S : \A x \in S : m <= x
<1> DEFINE Up == {1 .. x : x \in S}
<1>1. Up # {} /\ Up \subseteq FiniteSubsetsOf(Nat)
  <2>1. \A x \in Nat : 1 .. x \in SUBSET Nat /\ IsFiniteSet(1 .. x)
    BY FS_Interval
  <2> QED
    BY <2>1 DEF FiniteSubsetsOf
<1>2. PICK U \in Up : \A V \in Up : ~(<<V, U>> \in StrictSubsetOrdering(Nat))
  BY <1>1, FS_StrictSubsetOrderingWellFounded, WFMin
<1>3. PICK m \in S : U = 1 .. m
  OBVIOUS
<1>4. ASSUME NEW x \in S, x < m PROVE FALSE
  <2>1. 1 .. x \in SUBSET Nat /\ 1 .. m \in SUBSET Nat /\ 1 .. x \subseteq 1 .. m /\ m \in 1 .. m /\ m \notin 1 .. x
    BY <1>4
  <2>2. <<1 .. x, U>> \in StrictSubsetOrdering(Nat)
    BY <1>3, <2>1 DEF StrictSubsetOrdering
  <2> QED
    BY <1>2, <2>2
<1> QED
  BY <1>4

\* Induction on natural numbers, for a set instead of a predicate.
LEMMA NatSetInduction ==
  ASSUME NEW P, 0 \in P, \A n \in Nat : n \in P => n + 1 \in P
  PROVE  Nat \subseteq P
<1> SUFFICES ASSUME Nat \ P # {} PROVE FALSE
  OBVIOUS
<1>1. PICK m \in Nat \ P : \A x \in Nat \ P : m <= x
  BY Least
<1>2. m # 0 /\ m - 1 \in Nat /\ (m - 1) + 1 = m
  BY <1>1
<1> QED
  BY <1>1, <1>2

\* The least of natural numbers is one of them.
LEMMA MinOfNaturals ==
  ASSUME NEW S, S \subseteq Nat, S # {}
  PROVE  Min(S) \in S /\ \A x \in S : Min(S) <= x
<1>1. \E m \in S : \A x \in S : m <= x
  BY Least
<1>2. Min(S) = CHOOSE x \in S : \A y \in S : x <= y
  BY DEF Min
<1> QED
  BY <1>1, <1>2

-----------------------------------------------------------------------------
(* The rules.                                                              *)

\* A rule for any bug hides frames.  A rule that hides none is for a type of its own.  No rule is
\* for a recursion only or makes something else one, and none brings back a type that is replaced.
\* What must come after the top frame is not hidden when a frame is created.
Good(r) ==
  /\ r.type \notin CppTypes \cup {"RecursiveCall"} /\ "RecursiveCall" \notin r.types
  /\ r.top = {} /\ r.additional = {} => r.types # {} /\ r.types \subseteq CppTypes /\ r.type # Unchanged
  /\ r.types = {} /\ r.top = {} => r.type = Unchanged
  /\ r.top # {} => r.additional \cap HiddenWhenCreated = {}

AreGood(list) == list \in Seq({r \in ToSet(list) : Good(r)})

LEMMA AbandonmentIsGood == AreGood(Abandonment)
<1>1. \A r \in ToSet(Abandonment) : Good(r)
  BY NoneAssumption, SMTT(30) DEF Abandonment, ToSet, Good, Identify, Hide, Rule, CppTypes, Unchanged, HiddenWhenCreated
<1>2. Abandonment \in Seq(ToSet(Abandonment))
  BY SMTT(30) DEF Abandonment, ToSet
<1> QED
  BY <1>1, <1>2 DEF AreGood

LEMMA ASanIsGood == AreGood(ASan)
<1>1. \A r \in ToSet(ASan) : Good(r)
  BY NoneAssumption, SMTT(30) DEF ASan, ToSet, Good, Identify, Hide, Rule, CppTypes, Unchanged, HiddenWhenCreated
<1>2. ASan \in Seq(ToSet(ASan))
  BY SMTT(30) DEF ASan, ToSet
<1> QED
  BY <1>1, <1>2 DEF AreGood

LEMMA chakra_dllIsGood == AreGood(chakra_dll)
BY NoneAssumption, SMTT(30) DEF chakra_dll, ToSet, AreGood, Good, Identify, Hide, Rule, CppTypes, Unchanged, HiddenWhenCreated

LEMMA ChromeIsGood == AreGood(Chrome)
<1>1. \A r \in ToSet(Chrome) : Good(r)
  BY NoneAssumption, SMTT(30) DEF Chrome, Allocating, ToSet, Good, Identify, Hide, Rule, CppTypes, Unchanged, HiddenWhenCreated
<1>2. Chrome \in Seq(ToSet(Chrome))
  BY SMTT(30) DEF Chrome, ToSet
<1> QED
  BY <1>1, <1>2 DEF AreGood

LEMMA clr_dllIsGood == AreGood(clr_dll)
BY NoneAssumption, SMTT(30) DEF clr_dll, ToSet, AreGood, Good, Identify, Hide, Rule, CppTypes, Unchanged, HiddenWhenCreated

LEMMA combase_dllIsGood == AreGood(combase_dll)
BY NoneAssumption, SMTT(30) DEF combase_dll, ToSet, AreGood, Good, Identify, Hide, Rule, CppTypes, Unchanged, HiddenWhenCreated

LEMMA conhost_exeIsGood == AreGood(conhost_exe)
BY NoneAssumption, SMTT(30) DEF conhost_exe, ToSet, AreGood, Good, Identify, Hide, Rule, CppTypes, Unchanged, HiddenWhenCreated

LEMMA corpol_dllIsGood == AreGood(corpol_dll)
BY NoneAssumption, SMTT(30) DEF corpol_dll, ToSet, AreGood, Good, Identify, Hide, Rule, CppTypes, Unchanged, HiddenWhenCreated

LEMMA CppIsGood == AreGood(Cpp)
<1>1. \A r \in ToSet(Cpp) : Good(r)
  BY NoneAssumption, SMTT(30) DEF Cpp, ToSet, Good, Identify, Hide, Rule, CppTypes, Unchanged, HiddenWhenCreated
<1>2. Cpp \in Seq(ToSet(Cpp))
  BY SMTT(30) DEF Cpp, ToSet
<1> QED
  BY <1>1, <1>2 DEF AreGood

LEMMA edgehtml_dllIsGood == AreGood(edgehtml_dll)
BY NoneAssumption, SMTT(30) DEF edgehtml_dll, ToSet, AreGood, Good, Identify, Hide, Rule, CppTypes, Unchanged, HiddenWhenCreated

LEMMA edgecontent_dllIsGood == AreGood(edgecontent_dll)
BY NoneAssumption, SMTT(30) DEF edgecontent_dll, ToSet, AreGood, Good, Identify, Hide, Rule, CppTypes, Unchanged, HiddenWhenCreated

LEMMA FirefoxIsGood == AreGood(Firefox)
<1>1. \A r \in ToSet(Firefox) : Good(r)
  BY NoneAssumption, SMTT(30) DEF Firefox, ToSet, Good, Identify, Hide, Rule, CppTypes, Unchanged, HiddenWhenCreated
<1>2. Firefox \in Seq(ToSet(Firefox))
  BY SMTT(30) DEF Firefox, ToSet
<1> QED
  BY <1>1, <1>2 DEF AreGood

LEMMA isoIsGood == AreGood(iso)
BY NoneAssumption, SMTT(30) DEF iso, ToSet, AreGood, Good, Identify, Hide, Rule, CppTypes, Unchanged, HiddenWhenCreated

LEMMA jscript9_dllIsGood == AreGood(jscript9_dll)
BY NoneAssumption, SMTT(30) DEF jscript9_dll, ToSet, AreGood, Good, Identify, Hide, Rule, CppTypes, Unchanged, HiddenWhenCreated

LEMMA kernel32_dllIsGood == AreGood(kernel32_dll)
BY NoneAssumption, SMTT(30) DEF kernel32_dll, ToSet, AreGood, Good, Identify, Hide, Rule, CppTypes, Unchanged, HiddenWhenCreated

LEMMA kernelbase_dllIsGood == AreGood(kernelbase_dll)
BY NoneAssumption, SMTT(30) DEF kernelbase_dll, ToSet, AreGood, Good, Identify, Hide, Rule, CppTypes, Unchanged, HiddenWhenCreated

LEMMA mshtml_dllIsGood == AreGood(mshtml_dll)
BY NoneAssumption, SMTT(30) DEF mshtml_dll, ToSet, AreGood, Good, Identify, Hide, Rule, CppTypes, Unchanged, HiddenWhenCreated

LEMMA ntdll_dllIsGood == AreGood(ntdll_dll)
<1>1. \A r \in ToSet(ntdll_dll) : Good(r)
  BY NoneAssumption, SMTT(30) DEF ntdll_dll, ToSet, Good, Identify, Hide, Rule, CppTypes, Unchanged, HiddenWhenCreated
<1>2. ntdll_dll \in Seq(ToSet(ntdll_dll))
  BY SMTT(30) DEF ntdll_dll, ToSet
<1> QED
  BY <1>1, <1>2 DEF AreGood

LEMMA oledb32_dllIsGood == AreGood(oledb32_dll)
BY NoneAssumption, SMTT(30) DEF oledb32_dll, ToSet, AreGood, Good, Identify, Hide, Rule, CppTypes, Unchanged, HiddenWhenCreated

LEMMA RTCIsGood == AreGood(RTC)
BY NoneAssumption, SMTT(30) DEF RTC, ToSet, AreGood, Good, Identify, Hide, Rule, CppTypes, Unchanged, HiddenWhenCreated

LEMMA SafeIntIsGood == AreGood(SafeInt)
<1>1. \A r \in ToSet(SafeInt) : Good(r)
  BY NoneAssumption, SMTT(30) DEF SafeInt, ToSet, Good, Identify, Hide, Rule, CppTypes, Unchanged, HiddenWhenCreated
<1>2. SafeInt \in Seq(ToSet(SafeInt))
  BY SMTT(30) DEF SafeInt, ToSet
<1> QED
  BY <1>1, <1>2 DEF AreGood

LEMMA SlashGSIsGood == AreGood(SlashGS)
BY NoneAssumption, SMTT(30) DEF SlashGS, ToSet, AreGood, Good, Identify, Hide, Rule, CppTypes, Unchanged, HiddenWhenCreated

LEMMA ucrtbase_dllIsGood == AreGood(ucrtbase_dll)
BY NoneAssumption, SMTT(30) DEF ucrtbase_dll, ToSet, AreGood, Good, Identify, Hide, Rule, CppTypes, Unchanged, HiddenWhenCreated

LEMMA V8IsGood == AreGood(V8)
BY NoneAssumption, SMTT(30) DEF V8, ToSet, AreGood, Good, Identify, Hide, Rule, CppTypes, Unchanged, HiddenWhenCreated

LEMMA verifier_dllIsGood == AreGood(verifier_dll)
BY NoneAssumption, SMTT(30) DEF verifier_dll, ToSet, AreGood, Good, Identify, Hide, Rule, CppTypes, Unchanged, HiddenWhenCreated

LEMMA wilIsGood == AreGood(wil)
BY NoneAssumption, SMTT(30) DEF wil, ToSet, AreGood, Good, Identify, Hide, Rule, CppTypes, Unchanged, HiddenWhenCreated

\* Putting lists together.
LEMMA ConcatAreGood ==
  ASSUME NEW s, NEW t, AreGood(s), AreGood(t)
  PROVE  AreGood(s \o t)
<1> DEFINE S == {r \in ToSet(s) : Good(r)}
           T == {r \in ToSet(t) : Good(r)}
           U == {r \in ToSet(s \o t) : Good(r)}
<1>1. s \in Seq(S) /\ t \in Seq(T)
  BY DEF AreGood
<1>2. \A r \in S \cup T : Good(r)
  OBVIOUS
<1> HIDE DEF S, T
<1>3. s \in Seq(S \cup T) /\ t \in Seq(S \cup T)
  BY <1>1, SeqMonotonic
<1>4. s \o t \in Seq(S \cup T) /\ Len(s \o t) \in Nat
  BY <1>3, ConcatProperties, LenProperties
<1>5. \A i \in 1 .. Len(s \o t) : (s \o t)[i] \in U
  BY <1>2, <1>4 DEF ToSet
<1> HIDE DEF U
<1>6. s \o t \in Seq(U)
  <2> DEFINE u == s \o t
  <2>1. u \in [1 .. Len(u) -> U] /\ Len(u) \in Nat
    <3>1. u \in [1 .. Len(u) -> S \cup T]
      BY <1>4, LenProperties
    <3> HIDE DEF u
    <3>2. \A i \in 1 .. Len(u) : u[i] \in U
      BY <1>5 DEF u
    <3>3. Len(u) \in Nat
      BY <1>4 DEF u
    <3> QED
      BY <3>1, <3>2, <3>3
  <2> HIDE DEF u
  <2>2. u \in Seq(U)
    BY <2>1
  <2> QED
    BY <2>2 DEF u
<1> QED
  BY <1>6 DEF AreGood, U

LEMMA RulesAreGood ==
  /\ Len(aoBugTranslations) \in Nat /\ DOMAIN aoBugTranslations = 1 .. Len(aoBugTranslations)
  /\ \A n \in 1 .. Len(aoBugTranslations) : Good(aoBugTranslations[n])
<1>1. \A s, t : AreGood(s) /\ AreGood(t) => AreGood(s \o t)
  BY ConcatAreGood
<1>2. AreGood(aoBugTranslations)
  BY <1>1, AbandonmentIsGood, ASanIsGood, chakra_dllIsGood, ChromeIsGood, clr_dllIsGood, combase_dllIsGood,
     conhost_exeIsGood, corpol_dllIsGood, CppIsGood, edgehtml_dllIsGood, edgecontent_dllIsGood, FirefoxIsGood,
     isoIsGood, jscript9_dllIsGood, kernel32_dllIsGood, kernelbase_dllIsGood, mshtml_dllIsGood, ntdll_dllIsGood,
     oledb32_dllIsGood, RTCIsGood, SafeIntIsGood, SlashGSIsGood, ucrtbase_dllIsGood, V8IsGood, verifier_dllIsGood,
     wilIsGood
     DEF aoBugTranslations
<1>3. PICK S : aoBugTranslations \in Seq(S) /\ \A r \in S : Good(r)
  <2> DEFINE S == {r \in ToSet(aoBugTranslations) : Good(r)}
  <2>1. aoBugTranslations \in Seq(S) /\ \A r \in S : Good(r)
    BY <1>2 DEF AreGood
  <2> QED
    BY <2>1
<1> QED
  BY <1>3, LenProperties, ElementOfSeq

-----------------------------------------------------------------------------
(* Hiding frames.                                                          *)

\* Frames that are the same but for what is hidden, and none is shown again.
Keeps(fs, new) ==
  /\ new \in Seq(Frame) /\ Len(new) = Len(fs)
  /\ \A i \in 1 .. Len(fs) :
       new[i].function = fs[i].function /\ new[i].id = fs[i].id /\ (bHidden(fs[i]) => bHidden(new[i]))

IsFirst(fs, i) == i \in 1 .. Len(fs) /\ ~bHidden(fs[i]) /\ \A j \in 1 .. i - 1 : bHidden(fs[j])

\* Below the first visible frame only those are hidden that were when they were created.
HiddenInOrder(fs) ==
  \A i, j \in 1 .. Len(fs) :
    i < j /\ ~bHidden(fs[i]) /\ bHidden(fs[j]) => fs[j].function \in HiddenWhenCreated

\* The frames from f to l are hidden, and nothing else changes.
HidesStretch(fs, new, symbols, f, l) ==
  /\ IsFirst(fs, f) /\ l \in f .. Len(fs)
  /\ \A i \in 1 .. Len(fs) : IF i \in f .. l THEN fs[i].function \in symbols /\ bHidden(new[i]) ELSE new[i] = fs[i]
  /\ l < Len(fs) => fs[l + 1].function \notin symbols

\* The frames from first on that match, without a gap, have a last one.
LEMMA Stretch ==
  ASSUME NEW fs \in Seq(Frame), NEW symbols, NEW first \in 1 .. Len(fs), fs[first].function \in symbols
  PROVE  \E l \in first .. Len(fs) :
           /\ \A i \in 1 .. Len(fs) : (i >= first /\ \A j \in first .. i : fs[j].function \in symbols) <=> i \in first .. l
           /\ l < Len(fs) => fs[l + 1].function \notin symbols
<1> DEFINE N == Len(fs)
           S == {i \in first + 1 .. N + 1 : i = N + 1 \/ fs[i].function \notin symbols}
<1>1. N \in Nat /\ first \in Nat /\ first >= 1 /\ first <= N
  BY LenProperties
<1>2. N + 1 \in S /\ S \subseteq Nat
  BY <1>1
<1>3. PICK m \in S : \A x \in S : m <= x
  <2> HIDE DEF S
  <2> QED
    BY <1>2, Least
<1>4. m \in first + 1 .. N + 1 /\ (m = N + 1 \/ fs[m].function \notin symbols)
  OBVIOUS
<1>5. \A j \in first + 1 .. m - 1 : fs[j].function \in symbols
  <2> SUFFICES ASSUME NEW j \in first + 1 .. m - 1, fs[j].function \notin symbols PROVE FALSE
    OBVIOUS
  <2>1. j \in S
    BY <1>1, <1>4
  <2> HIDE DEF S
  <2>2. m <= j
    BY <1>3, <2>1
  <2> QED
    BY <1>1, <1>4, <2>2
<1> HIDE DEF S, N
<1>6. \A j \in first .. m - 1 : fs[j].function \in symbols
  <2>1. \A j \in first .. m - 1 : j = first \/ j \in first + 1 .. m - 1
    BY <1>1, <1>4
  <2> QED
    BY <1>5, <2>1
<1>7. \A i \in 1 .. N : (i >= first /\ \A j \in first .. i : fs[j].function \in symbols) <=> i \in first .. m - 1
  <2> SUFFICES ASSUME NEW i \in 1 .. N
               PROVE  (i >= first /\ \A j \in first .. i : fs[j].function \in symbols) <=> i \in first .. m - 1
    OBVIOUS
  <2>1. CASE i \in first .. m - 1
    <3>1. i >= first /\ \A j \in first .. i : j \in first .. m - 1
      BY <1>1, <1>4, <2>1
    <3> QED
      BY <1>6, <2>1, <3>1
  <2>2. CASE i < first
    BY <1>1, <1>4, <2>2
  <2>3. CASE i >= m
    <3>1. m # N + 1 /\ m \in first .. i /\ i \notin first .. m - 1
      BY <1>1, <1>4, <2>3
    <3> QED
      BY <1>4, <3>1
  <2> QED
    BY <1>1, <1>4, <2>1, <2>2, <2>3
<1>8. m - 1 \in first .. N /\ (m - 1 < N => fs[(m - 1) + 1].function \notin symbols)
  <2>1. m - 1 \in first .. N /\ (m - 1) + 1 = m /\ (m - 1 < N => m # N + 1)
    BY <1>1, <1>4
  <2> QED
    BY <1>4, <2>1
<1> QED
  BY <1>7, <1>8 DEF N

\* fbHideTopFramesIfTheyMatchSymbols hides nothing, or the frames from the first visible one on.
LEMMA HideTop ==
  ASSUME NEW fs \in Seq(Frame), NEW symbols, NEW reason \in Reasons
  PROVE  LET new == HideTopFrames(fs, symbols, reason)
         IN /\ Keeps(fs, new)
            /\ \/ new = fs /\ \A i : IsFirst(fs, i) => fs[i].function \notin symbols
               \/ \E f, l : HidesStretch(fs, new, symbols, f, l)
<1> DEFINE new == HideTopFrames(fs, symbols, reason)
           visible == {i \in DOMAIN fs : ~bHidden(fs[i])}
           first == Min(visible)
           Matches(i) == \A j \in first .. i : fs[j].function \in symbols
<1>1. Len(fs) \in Nat /\ DOMAIN fs = 1 .. Len(fs) /\ fs \in [1 .. Len(fs) -> Frame]
  BY LenProperties
<1>2. new = [i \in 1 .. Len(fs) |-> IF visible # {} /\ i >= first /\ Matches(i)
                                    THEN [fs[i] EXCEPT !.hidden = reason] ELSE fs[i]]
  BY <1>1 DEF HideTopFrames
<1>3. ASSUME NEW i \in 1 .. Len(fs)
      PROVE  LET hidden == [fs[i] EXCEPT !.hidden = reason]
             IN /\ hidden \in Frame /\ bHidden(hidden)
                /\ hidden.function = fs[i].function /\ hidden.id = fs[i].id
  BY <1>1, NoneAssumption DEF Frame, bHidden
<1>4. visible # {} => /\ first \in visible /\ \A i \in visible : first <= i
                      /\ first \in 1 .. Len(fs) /\ IsFirst(fs, first)
  <2> SUFFICES ASSUME visible # {} PROVE /\ first \in visible /\ \A i \in visible : first <= i
                                         /\ first \in 1 .. Len(fs) /\ IsFirst(fs, first)
    OBVIOUS
  <2>1. visible \subseteq Nat /\ visible \subseteq 1 .. Len(fs)
    BY <1>1
  <2>2. first \in visible /\ \A i \in visible : first <= i
    <3> HIDE DEF visible
    <3> QED
      BY <2>1, MinOfNaturals
  <2>3. first \in 1 .. Len(fs) /\ ~bHidden(fs[first])
    BY <2>1, <2>2
  <2> HIDE DEF first
  <2>4. \A j \in 1 .. first - 1 : bHidden(fs[j])
    <3> SUFFICES ASSUME NEW j \in 1 .. first - 1, ~bHidden(fs[j]) PROVE FALSE
      OBVIOUS
    <3>1. j \in visible /\ ~(first <= j)
      BY <1>1, <2>3
    <3> QED
      BY <2>2, <3>1
  <2> QED
    BY <2>2, <2>3, <2>4 DEF IsFirst
<1>5. \A i : IsFirst(fs, i) => i = first /\ visible # {}
  <2> SUFFICES ASSUME NEW i, IsFirst(fs, i) PROVE i = first /\ visible # {}
    OBVIOUS
  <2>1. i \in visible /\ i \in 1 .. Len(fs)
    BY <1>1 DEF IsFirst
  <2>2. first \in 1 .. Len(fs) /\ first <= i /\ ~bHidden(fs[first])
    BY <1>4, <2>1
  <2> HIDE DEF first, visible
  <2>3. ~(first < i)
    BY <2>1, <2>2 DEF IsFirst
  <2> QED
    BY <2>1, <2>2, <2>3
<1> HIDE DEF new, visible, first
<1>6. Keeps(fs, new)
  <2>1. new \in [1 .. Len(fs) -> Frame]
    BY <1>1, <1>2, <1>3
  <2>2. new \in Seq(Frame) /\ Len(new) = Len(fs)
    BY <1>1, <2>1
  <2>3. \A i \in 1 .. Len(fs) : new[i] = fs[i] \/ new[i] = [fs[i] EXCEPT !.hidden = reason]
    BY <1>2
  <2> QED
    BY <1>3, <2>2, <2>3 DEF Keeps
<1>7. CASE visible # {} /\ fs[first].function \in symbols
  <2>1. first \in 1 .. Len(fs) /\ IsFirst(fs, first)
    BY <1>4, <1>7
  <2>2. PICK l \in first .. Len(fs) :
           /\ \A i \in 1 .. Len(fs) : (i >= first /\ Matches(i)) <=> i \in first .. l
           /\ l < Len(fs) => fs[l + 1].function \notin symbols
    BY <1>7, <2>1, Stretch
  <2>3. \A i \in 1 .. Len(fs) : new[i] = IF i \in first .. l THEN [fs[i] EXCEPT !.hidden = reason] ELSE fs[i]
    BY <1>2, <1>7, <2>2
  <2>4. \A i \in first .. l : i \in 1 .. Len(fs) /\ fs[i].function \in symbols
    BY <1>1, <2>1, <2>2
  <2> HIDE DEF Matches
  <2>5. HidesStretch(fs, new, symbols, first, l)
    BY <1>3, <2>1, <2>2, <2>3, <2>4 DEF HidesStretch
  <2> QED
    BY <1>6, <2>5 DEF new
<1>8. CASE ~(visible # {} /\ fs[first].function \in symbols)
  <2>1. \A i \in 1 .. Len(fs) : ~(visible # {} /\ i >= first /\ Matches(i))
    <3> SUFFICES ASSUME NEW i \in 1 .. Len(fs), visible # {}, i >= first, Matches(i) PROVE FALSE
      OBVIOUS
    <3>1. first \in first .. i
      BY <1>1, <1>4
    <3> QED
      BY <1>8, <3>1
  <2>2. new = [i \in 1 .. Len(fs) |-> fs[i]]
    BY <1>2, <2>1
  <2>3. new = fs
    BY <1>1, <2>2
  <2> QED
    BY <1>5, <1>6, <1>8, <2>3 DEF new
<1> QED
  BY <1>7, <1>8

\* A stretch of frames is hidden where there are frames to hide.
LEMMA StretchIsHidden ==
  ASSUME NEW fs \in Seq(Frame), NEW new, NEW symbols, NEW f, NEW l, HidesStretch(fs, new, symbols, f, l)
  PROVE  new # fs /\ fs[f].function \in symbols /\ bHidden(new[f]) /\ f \in 1 .. Len(fs)
<1>1. Len(fs) \in Nat
  BY LenProperties
<1>2. f \in 1 .. Len(fs) /\ f \in f .. l /\ ~bHidden(fs[f])
  BY <1>1 DEF HidesStretch, IsFirst
<1> QED
  BY <1>2 DEF HidesStretch

\* The order of what is hidden remains.
LEMMA HideTopInOrder ==
  ASSUME NEW fs \in Seq(Frame), NEW symbols, NEW reason \in Reasons, HiddenInOrder(fs)
  PROVE  HiddenInOrder(HideTopFrames(fs, symbols, reason))
<1> DEFINE new == HideTopFrames(fs, symbols, reason)
<1>1. Keeps(fs, new) /\ (new = fs \/ \E f, l : HidesStretch(fs, new, symbols, f, l))
  BY HideTop
<1> HIDE DEF new
<1>2. ASSUME NEW f, NEW l, HidesStretch(fs, new, symbols, f, l) PROVE HiddenInOrder(new)
  <2>1. Len(fs) \in Nat /\ Len(new) = Len(fs)
    BY <1>1, LenProperties DEF Keeps
  <2> SUFFICES ASSUME NEW i \in 1 .. Len(fs), NEW j \in 1 .. Len(fs), i < j, ~bHidden(new[i]), bHidden(new[j])
               PROVE  new[j].function \in HiddenWhenCreated
    BY <2>1 DEF HiddenInOrder
  <2>2. ~bHidden(fs[i]) /\ i \notin f .. l
    BY <1>1, <1>2 DEF HidesStretch, Keeps
  <2>3. f \in 1 .. Len(fs) /\ l \in f .. Len(fs) /\ ~(i < f)
    BY <1>2, <2>1, <2>2 DEF HidesStretch, IsFirst
  <2>4. j \notin f .. l
    BY <2>1, <2>2, <2>3
  <2>5. new[j] = fs[j]
    BY <1>2, <2>4 DEF HidesStretch
  <2> QED
    BY <2>2, <2>5 DEF HiddenInOrder
<1> QED
  BY <1>1, <1>2 DEF new

\* Frames can be kept twice.
LEMMA KeepsTwice ==
  ASSUME NEW a, NEW b, NEW c, Keeps(a, b), Keeps(b, c)
  PROVE  Keeps(a, c)
BY DEF Keeps

\* A rule whose top frames are hidden, and that finds what must come after them, hides that too.
LEMMA AdditionalIsHidden ==
  ASSUME NEW fs \in Seq(Frame), HiddenInOrder(fs), NEW after, NEW top, NEW additional,
         additional \cap HiddenWhenCreated = {}, Keeps(fs, after),
         NEW f, NEW l, HidesStretch(fs, after, top, f, l),
         \A i \in 1 .. Len(fs) : fs[i].function \in top =>
           i < Len(fs) /\ fs[i + 1].function \in top \cup additional
  PROVE  IsFirst(after, l + 1) /\ after[l + 1].function \in additional
<1>1. /\ Len(fs) \in Nat /\ Len(after) = Len(fs) /\ f \in 1 .. Len(fs) /\ l \in f .. Len(fs) /\ l \in f .. l
      /\ ~bHidden(fs[f]) /\ l \in 1 .. Len(fs)
  BY LenProperties DEF HidesStretch, IsFirst, Keeps
<1>2. fs[l].function \in top
  BY <1>1 DEF HidesStretch
<1>3. l < Len(fs) /\ fs[l + 1].function \in additional
  BY <1>1, <1>2 DEF HidesStretch
<1>4. l + 1 \in 1 .. Len(fs) /\ l + 1 \notin f .. l /\ f < l + 1
  BY <1>1, <1>3
<1>5. ~bHidden(fs[l + 1])
  BY <1>1, <1>3, <1>4 DEF HiddenInOrder
<1>6. after[l + 1] = fs[l + 1]
  BY <1>4 DEF HidesStretch
<1>7. \A j \in 1 .. (l + 1) - 1 : bHidden(after[j])
  <2> SUFFICES ASSUME NEW j \in 1 .. (l + 1) - 1 PROVE bHidden(after[j])
    OBVIOUS
  <2>1. j \in 1 .. Len(fs) /\ (j \in f .. l \/ j \in 1 .. f - 1)
    BY <1>1
  <2>2. j \in 1 .. f - 1 => bHidden(fs[j])
    BY DEF HidesStretch, IsFirst
  <2> QED
    BY <2>1, <2>2 DEF HidesStretch, Keeps
<1> QED
  BY <1>1, <1>3, <1>4, <1>5, <1>6, <1>7 DEF IsFirst

\* What a rule does: frames keep their order and are hidden in order, and ...
LEMMA ApplyKeeps ==
  ASSUME NEW rule, NEW ty, NEW fs \in Seq(Frame)
  PROVE  LET t == fbApplyToBugReport(rule, ty, fs)
         IN Keeps(fs, t.frames) /\ (HiddenInOrder(fs) => HiddenInOrder(t.frames))
<1> DEFINE afterTop == HideTopFrames(fs, rule.top, "identifying")
           afterAll == HideTopFrames(afterTop, rule.additional, "irrelevant")
           t == fbApplyToBugReport(rule, ty, fs)
<1>1. Keeps(fs, fs)
  BY LenProperties DEF Keeps
<1>2. Keeps(fs, afterTop) /\ (HiddenInOrder(fs) => HiddenInOrder(afterTop))
  BY HideTop, HideTopInOrder DEF Reasons
<1>3. Keeps(afterTop, afterAll) /\ (HiddenInOrder(afterTop) => HiddenInOrder(afterAll))
  <2> DEFINE g == afterTop
  <2>1. g \in Seq(Frame)
    BY <1>2 DEF Keeps
  <2> HIDE DEF g
  <2>2. Keeps(g, HideTopFrames(g, rule.additional, "irrelevant"))
        /\ (HiddenInOrder(g) => HiddenInOrder(HideTopFrames(g, rule.additional, "irrelevant")))
    BY <2>1, HideTop, HideTopInOrder DEF Reasons
  <2> QED
    BY <2>2 DEF g
<1>4. t.frames \in {fs, afterTop, afterAll}
  BY DEF fbApplyToBugReport
<1> HIDE DEF t, afterTop, afterAll
<1>5. Keeps(fs, afterAll)
  BY <1>2, <1>3, KeepsTwice
<1> QED
  BY <1>1, <1>2, <1>3, <1>4, <1>5 DEF t

\* Nothing matches an empty set of symbols.
LEMMA HideNothing ==
  ASSUME NEW fs \in Seq(Frame), NEW reason \in Reasons
  PROVE  HideTopFrames(fs, {}, reason) = fs
BY HideTop, StretchIsHidden

\* ... one that is applied hides the first visible frame, unless it replaces a type that no rule
\* brings back.
LEMMA AppliedHides ==
  ASSUME NEW rule, Good(rule), NEW ty, NEW fs \in Seq(Frame)
  PROVE  LET t == fbApplyToBugReport(rule, ty, fs)
         IN /\ t.type # ty => t.applied /\ t.type \notin CppTypes \cup {"RecursiveCall"}
            /\ t.applied => \/ \E f : IsFirst(fs, f) /\ bHidden(t.frames[f])
                            \/ ty \in CppTypes /\ t.type \notin CppTypes
<1> DEFINE afterTop == HideTopFrames(fs, rule.top, "identifying")
           afterAll == HideTopFrames(afterTop, rule.additional, "irrelevant")
           t == fbApplyToBugReport(rule, ty, fs)
           isOfType == rule.types = {} \/ ty \in rule.types
<1>1. /\ t.applied <=> /\ isOfType /\ (rule.top = {} \/ afterTop # fs)
                       /\ (rule.additional = {} \/ afterAll # afterTop)
      /\ t.type = IF t.applied /\ rule.type # Unchanged THEN rule.type ELSE ty
      /\ t.applied => t.frames = afterAll
  BY DEF fbApplyToBugReport
<1>2. Keeps(fs, afterTop) /\ (afterTop = fs \/ \E f, l : HidesStretch(fs, afterTop, rule.top, f, l))
  BY HideTop DEF Reasons
<1>3. rule.top = {} => afterTop = fs
  BY HideNothing DEF Reasons
<1>4. /\ Keeps(afterTop, afterAll)
      /\ afterAll = afterTop \/ \E f, l : HidesStretch(afterTop, afterAll, rule.additional, f, l)
  <2> DEFINE g == afterTop
  <2>1. g \in Seq(Frame)
    BY <1>2 DEF Keeps
  <2> HIDE DEF g
  <2>2. LET new == HideTopFrames(g, rule.additional, "irrelevant")
        IN Keeps(g, new) /\ (new = g \/ \E f, l : HidesStretch(g, new, rule.additional, f, l))
    BY <2>1, HideTop DEF Reasons
  <2> QED
    BY <2>2 DEF g
<1> HIDE DEF t, afterTop, afterAll
<1>5. t.type # ty => t.applied /\ t.type \notin CppTypes \cup {"RecursiveCall"}
  BY <1>1 DEF Good
<1>6. ASSUME t.applied
      PROVE  \/ \E f : IsFirst(fs, f) /\ bHidden(t.frames[f])
             \/ ty \in CppTypes /\ t.type \notin CppTypes
  <2>1. CASE rule.top = {} /\ rule.additional = {}
    BY <1>1, <1>6, <2>1 DEF Good
  <2>2. CASE rule.top # {}
    <3>1. PICK f, l : HidesStretch(fs, afterTop, rule.top, f, l)
      BY <1>1, <1>2, <1>6, <2>2
    <3>2. IsFirst(fs, f) /\ bHidden(afterTop[f]) /\ f \in 1 .. Len(afterTop)
      BY <1>2, <3>1, StretchIsHidden DEF HidesStretch, Keeps
    <3> QED
      BY <1>1, <1>4, <1>6, <3>2 DEF Keeps
  <2>3. CASE rule.top = {} /\ rule.additional # {}
    <3>1. PICK f, l : HidesStretch(fs, afterAll, rule.additional, f, l)
      BY <1>1, <1>3, <1>4, <1>6, <2>3
    <3>2. IsFirst(fs, f) /\ bHidden(afterAll[f])
      <4>1. bHidden(afterAll[f])
        BY <3>1, StretchIsHidden
      <4> QED
        BY <3>1, <4>1 DEF HidesStretch
    <3> QED
      BY <1>1, <1>6, <3>2
  <2> QED
    BY <2>1, <2>2, <2>3
<1> QED
  BY <1>5, <1>6 DEF t

\* ... and one that is not applied changes nothing, if it would find what comes after its top frame;
\* when it is for any bug it does not match the first visible frame.
LEMMA NotAppliedChangesNothing ==
  ASSUME NEW rule, Good(rule), NEW ty, NEW fs \in Seq(Frame), HiddenInOrder(fs),
         rule.top # {} /\ rule.additional # {} =>
           \A i \in 1 .. Len(fs) : fs[i].function \in rule.top =>
             i < Len(fs) /\ fs[i + 1].function \in rule.top \cup rule.additional,
         ~fbApplyToBugReport(rule, ty, fs).applied
  PROVE  /\ fbApplyToBugReport(rule, ty, fs).frames = fs
         /\ rule.types = {} /\ rule.top = {} =>
              \A i : IsFirst(fs, i) => fs[i].function \notin rule.additional
<1> DEFINE afterTop == HideTopFrames(fs, rule.top, "identifying")
           afterAll == HideTopFrames(afterTop, rule.additional, "irrelevant")
           t == fbApplyToBugReport(rule, ty, fs)
           topApplies == (rule.types = {} \/ ty \in rule.types) /\ (rule.top = {} \/ afterTop # fs)
<1>1. /\ ~(topApplies /\ (rule.additional = {} \/ afterAll # afterTop))
      /\ t.frames = IF topApplies THEN afterTop ELSE fs
  BY DEF fbApplyToBugReport
<1>2. Keeps(fs, afterTop) /\ (afterTop = fs \/ \E f, l : HidesStretch(fs, afterTop, rule.top, f, l))
  BY HideTop DEF Reasons
<1>3. rule.top = {} => afterTop = fs
  BY HideNothing DEF Reasons
<1>4. /\ afterAll = afterTop => \A i : IsFirst(afterTop, i) => afterTop[i].function \notin rule.additional
  <2> DEFINE g == afterTop
  <2>1. g \in Seq(Frame)
    BY <1>2 DEF Keeps
  <2> HIDE DEF g
  <2>2. HideTopFrames(g, rule.additional, "irrelevant") = g =>
          \A i : IsFirst(g, i) => g[i].function \notin rule.additional
    BY <2>1, HideTop, StretchIsHidden DEF Reasons
  <2> QED
    BY <2>2 DEF g
<1> HIDE DEF t, afterTop, afterAll
<1>5. topApplies => afterTop = fs
  <2> SUFFICES ASSUME topApplies, afterTop # fs PROVE FALSE
    OBVIOUS
  <2>1. rule.top # {} /\ rule.additional # {} /\ afterAll = afterTop
    BY <1>1, <1>3
  <2>2. PICK f, l : HidesStretch(fs, afterTop, rule.top, f, l)
    BY <1>2
  <2>3. rule.additional \cap HiddenWhenCreated = {}
    BY <2>1 DEF Good
  <2>4. IsFirst(afterTop, l + 1) /\ afterTop[l + 1].function \in rule.additional
    BY <1>2, <2>1, <2>2, <2>3, AdditionalIsHidden
  <2> QED
    BY <1>4, <2>1, <2>4
<1>6. t.frames = fs
  BY <1>1, <1>5
<1>7. ASSUME rule.types = {} /\ rule.top = {}
      PROVE  \A i : IsFirst(fs, i) => fs[i].function \notin rule.additional
  BY <1>1, <1>3, <1>4, <1>7
<1> QED
  BY <1>6, <1>7 DEF t

-----------------------------------------------------------------------------
(* The stack.                                                              *)

\* The frames as they are created.
Created == {foCreateStackFrame(f) : f \in Functions}

LEMMA CreatedFrames ==
  /\ Created \subseteq Frame
  /\ \A frame \in Created : ~frame.id /\ (bHidden(frame) => frame.function \in HiddenWhenCreated)
<1> SUFFICES ASSUME NEW f \in Functions
             PROVE  LET frame == foCreateStackFrame(f)
                    IN frame \in Frame /\ ~frame.id /\ (bHidden(frame) => frame.function \in HiddenWhenCreated)
  BY DEF Created
<1>1. CASE f \in HiddenWhenCreated
  BY <1>1 DEF foCreateStackFrame, Frame, Reasons
<1>2. CASE f \notin HiddenWhenCreated
  BY <1>2 DEF foCreateStackFrame, Frame, bHidden
<1> QED
  BY <1>1, <1>2

\* The lines that cdb can output.
Shown == [kind : {"frame", "warning", "incorrect", "bogus"}, function : Functions]

\* What is known of the constants, in the form in which it is used.
LEMMA Constants ==
  /\ uMaxStackFramesCount \in Nat \ {0} /\ uMinStackRecursionLoops \in Nat \ {0}
  /\ uMaxStackRecursionLoopSize \in Nat \ {0}
  /\ uStackHashFramesCount \in Nat \ {0, 1} /\ uSanityCheckMaximumLoops \in Nat
  /\ uMaxLinesCount \in Nat /\ 2 * uMaxLinesCount + 1 < uSanityCheckMaximumLoops
<1>1. /\ uMaxStackFramesCount \in Nat \ {0} /\ uMinStackRecursionLoops \in Nat \ {0}
      /\ uMaxStackRecursionLoopSize \in Nat \ {0}
      /\ uStackHashFramesCount \in Nat \ {0, 1} /\ uSanityCheckMaximumLoops \in Nat
  BY StackReportAssumption
<1>2. \A m, n \in Nat : m * n \in Nat
  OBVIOUS
<1>3. (uMinStackRecursionLoops + 1) * uMaxStackRecursionLoopSize \in Nat
  BY <1>1, <1>2
<1> QED
  BY <1>1, <1>3, SanityAssumption DEF uMaxLinesCount

LEMMA FramesCount ==
  ASSUME NEW c
  PROVE  uStackFramesCount(c) \in Nat /\ uStackFramesCount(c) + 1 <= uMaxLinesCount
<1>1. (uMinStackRecursionLoops + 1) * uMaxStackRecursionLoopSize \in Nat
  <2>1. \A m, n \in Nat : m * n \in Nat
    OBVIOUS
  <2> QED
    BY <2>1, Constants
<1> QED
  BY <1>1, Constants DEF uStackFramesCount, uMaxLinesCount

\* The functions that were called are functions that cdb shows.
LEMMA CallStackIsOfFunctions ==
  ASSUME NEW c \in Crashes
  PROVE  CallStack(c) \in Seq(Functions)
<1>1. c.top \in Seq(Functions) /\ c.loop \in Seq(Functions) /\ c.loop # <<>> /\ c.depth \in Nat
  <2>1. <<None>> \in Seq(Functions) /\ <<None>> # <<>>
    <3>1. None \in Functions
      BY StackReportAssumption
    <3> QED
      BY <3>1
  <2>2. CASE \E e \in Exceptions :
               c = [type |-> e.type, found |-> e.found, top |-> e.top, loop |-> <<None>>, depth |-> 0]
    BY <2>1, <2>2, StackReportAssumption
  <2>3. CASE \E top \in Tops, loop \in Loops, depth \in Depths :
               c = [type |-> "StackExhaustion", found |-> Unchanged, top |-> top, loop |-> loop, depth |-> depth]
    <3>1. Tops \subseteq Seq(Functions) /\ Loops \subseteq Seq(Functions) \ {<<>>} /\ Depths \subseteq Nat
      BY StackReportAssumption
    <3> QED
      BY <2>3, <3>1
  <2> QED
    BY <2>2, <2>3 DEF Crashes
<1>2. Len(c.loop) \in Nat \ {0}
  BY <1>1, LenProperties
<1> DEFINE calls == [i \in 1 .. c.depth |-> c.loop[((c.depth - i) % Len(c.loop)) + 1]]
<1>3. calls \in Seq(Functions)
  <2>1. \A i \in 1 .. c.depth : c.loop[((c.depth - i) % Len(c.loop)) + 1] \in Functions
    <3> SUFFICES ASSUME NEW i \in 1 .. c.depth
                 PROVE  c.loop[((c.depth - i) % Len(c.loop)) + 1] \in Functions
      OBVIOUS
    <3>1. \A m \in Int, n \in Nat \ {0} : m % n \in 0 .. n - 1
      OBVIOUS
    <3>2. (c.depth - i) % Len(c.loop) \in 0 .. Len(c.loop) - 1
      <4>1. c.depth - i \in Int
        BY <1>1
      <4> QED
        BY <1>2, <3>1, <4>1
    <3>3. ((c.depth - i) % Len(c.loop)) + 1 \in 1 .. Len(c.loop)
      BY <1>2, <3>2
    <3> QED
      BY <1>1, <3>3, ElementOfSeq
  <2>2. calls \in [1 .. c.depth -> Functions]
    BY <2>1
  <2> HIDE DEF calls
  <2> QED
    BY <1>1, <2>2
<1>4. Bottom \in Seq(Functions)
  BY StackReportAssumption DEF Bottom
<1> HIDE DEF calls
<1>5. (c.top \o calls) \o Bottom \in Seq(Functions)
  BY <1>1, <1>3, <1>4, ConcatProperties
<1> QED
  BY <1>5 DEF CallStack, calls

\* The first elements of a list.
LEMMA UpToIsPrefix ==
  ASSUME NEW S, NEW s \in Seq(S), NEW n \in Nat
  PROVE  /\ UpTo(n, s) \in Seq(S) /\ Len(UpTo(n, s)) <= n
         /\ Len(UpTo(n, s)) <= Len(s) /\ \A i \in 1 .. Len(UpTo(n, s)) : UpTo(n, s)[i] = s[i]
<1> DEFINE m == Min({n, Len(s)})
<1>1. m \in {n, Len(s)} /\ m <= n /\ m <= Len(s) /\ m \in Nat /\ Len(s) \in Nat
  <2>1. Len(s) \in Nat
    BY LenProperties
  <2>2. {n, Len(s)} \subseteq Nat /\ {n, Len(s)} # {}
    BY <2>1
  <2> QED
    BY <2>1, <2>2, MinOfNaturals
<1> HIDE DEF m
<1>2. \A i \in 1 .. m : s[i] \in S
  BY <1>1, ElementOfSeq
<1>3. /\ SubSeq(s, 1, m) \in Seq(S) /\ Len(SubSeq(s, 1, m)) = m
      /\ \A i \in 1 .. m : SubSeq(s, 1, m)[i] = s[i]
  <2>1. /\ SubSeq(s, 1, m) \in Seq(S) /\ Len(SubSeq(s, 1, m)) = IF 1 <= m THEN m - 1 + 1 ELSE 0
        /\ \A i \in 1 .. m - 1 + 1 : SubSeq(s, 1, m)[i] = s[1 + i - 1]
    BY <1>1, <1>2, SubSeqProperties
  <2> QED
    BY <1>1, <2>1
<1> QED
  BY <1>1, <1>3 DEF UpTo, m

\* Every output is a list of lines, no longer than cdb was asked for.
LEMMA OutputIsOfLines ==
  ASSUME NEW c \in Crashes, NEW lines \in Outputs(c)
  PROVE  lines \in Seq(Shown) /\ Len(lines) <= uMaxLinesCount
<1> DEFINE functions == CallStack(c)
           plain == [i \in DOMAIN functions |-> Line("frame", functions[i])]
           Odd(odd, f) == IF odd = "warning" THEN <<Line("warning", None), Line("frame", f)>>
                          ELSE <<Line("incorrect", f), Line("bogus", f)>>
           Output(odd, at) ==
             IF at \notin DOMAIN functions THEN plain
             ELSE SubSeq(plain, 1, at - 1) \o Odd(odd, functions[at]) \o SubSeq(plain, at + 1, Len(plain))
<1>1. functions \in Seq(Functions) /\ Len(functions) \in Nat /\ DOMAIN functions = 1 .. Len(functions)
  BY CallStackIsOfFunctions, LenProperties
<1> SUFFICES ASSUME lines # <<>>
             PROVE  lines \in Seq(Shown) /\ Len(lines) <= uMaxLinesCount
  <2>1. Len(<<>>) = 0 /\ <<>> \in Seq(Shown)
    OBVIOUS
  <2>2. 0 <= uMaxLinesCount
    BY Constants
  <2> QED
    BY <2>1, <2>2, Zenon
<1>2. PICK odd \in {"warning", "bogus"}, at \in {0, 1, Len(c.top) + 2, uStackFramesCount(c)} :
        lines = UpTo(uStackFramesCount(c) + 1, Output(odd, at))
  BY DEF Outputs
<1> HIDE DEF functions
<1>3. \A f \in Functions : Odd(odd, f) \in Seq(Shown)
  <2> SUFFICES ASSUME NEW f \in Functions PROVE Odd(odd, f) \in Seq(Shown)
    OBVIOUS
  <2>1. None \in Functions
    BY StackReportAssumption
  <2>2. {Line("warning", None), Line("frame", f), Line("incorrect", f), Line("bogus", f)} \subseteq Shown
    BY <2>1 DEF Line, Shown
  <2>3. \A x, y \in Shown : <<x, y>> \in Seq(Shown)
    OBVIOUS
  <2> QED
    BY <2>2, <2>3
<1>4. plain \in Seq(Shown) /\ Len(plain) = Len(functions)
  <2>1. \A i \in 1 .. Len(functions) : Line("frame", functions[i]) \in Shown
    BY <1>1, ElementOfSeq DEF Line, Shown
  <2>2. plain \in [1 .. Len(functions) -> Shown]
    BY <1>1, <2>1
  <2> HIDE DEF plain
  <2> QED
    BY <1>1, <2>2
<1> HIDE DEF plain, Odd
<1>5. Output(odd, at) \in Seq(Shown)
  <2>1. CASE at \notin DOMAIN functions
    BY <1>4, <2>1
  <2>2. CASE at \in DOMAIN functions
    <3>1. at \in 1 .. Len(functions) /\ functions[at] \in Functions
      BY <1>1, <2>2, ElementOfSeq
    <3>2. Odd(odd, functions[at]) \in Seq(Shown)
      BY <1>3, <3>1
    <3>3. \A i \in 1 .. at - 1 : plain[i] \in Shown
      BY <1>1, <1>4, <3>1, ElementOfSeq
    <3>4. \A i \in at + 1 .. Len(plain) : plain[i] \in Shown
      BY <1>1, <1>4, <3>1, ElementOfSeq
    <3>5. SubSeq(plain, 1, at - 1) \in Seq(Shown) /\ SubSeq(plain, at + 1, Len(plain)) \in Seq(Shown)
      BY <1>1, <1>4, <3>1, <3>3, <3>4, SubSeqProperties
    <3>6. (SubSeq(plain, 1, at - 1) \o Odd(odd, functions[at])) \o SubSeq(plain, at + 1, Len(plain)) \in Seq(Shown)
      BY <3>2, <3>5, ConcatProperties
    <3> QED
      BY <2>2, <3>6
  <2> QED
    BY <2>1, <2>2
<1> HIDE DEF Output
<1>6. uStackFramesCount(c) + 1 \in Nat /\ uStackFramesCount(c) + 1 <= uMaxLinesCount
  BY FramesCount
<1>7. lines \in Seq(Shown) /\ Len(lines) <= uStackFramesCount(c) + 1
  BY <1>2, <1>5, <1>6, UpToIsPrefix
<1> QED
  BY <1>6, <1>7, LenProperties, Constants

\* A line adds at most two frames.
LEMMA AddLineAdds ==
  ASSUME NEW count, NEW line \in Shown, NEW n \in Nat,
         NEW stack \in [frames : Seq(Created), partial : BOOLEAN], Len(stack.frames) <= 2 * n
  PROVE  LET new == AddLine(count, stack, line)
         IN new \in [frames : Seq(Created), partial : BOOLEAN] /\ Len(new.frames) <= 2 * (n + 1)
<1> DEFINE kept == IF line.kind = "bogus" THEN Front(stack.frames) ELSE stack.frames
           frame == <<foCreateStackFrame(line.function)>>
           jumped == IF line.kind # "incorrect" /\ line.function \in DOMAIN JumpedFrom
                     THEN <<foCreateStackFrame(JumpedFrom[line.function])>> ELSE <<>>
<1>1. stack.frames \in Seq(Created) /\ stack.partial \in BOOLEAN /\ Len(stack.frames) \in Nat
  BY LenProperties
<1>2. kept \in Seq(Created) /\ Len(kept) \in Nat /\ Len(kept) <= Len(stack.frames)
  <2>1. \A i \in 1 .. Len(stack.frames) - 1 : stack.frames[i] \in Created
    BY <1>1, ElementOfSeq
  <2>2. /\ Front(stack.frames) \in Seq(Created)
        /\ Len(Front(stack.frames)) =
             IF 1 <= Len(stack.frames) - 1 THEN (Len(stack.frames) - 1) - 1 + 1 ELSE 0
    BY <1>1, <2>1, SubSeqProperties DEF Front
  <2> QED
    BY <1>1, <2>2
<1>3. frame \in Seq(Created) /\ Len(frame) = 1
  <2>1. foCreateStackFrame(line.function) \in Created
    BY DEF Created, Shown
  <2> QED
    BY <2>1
<1>4. jumped \in Seq(Created) /\ Len(jumped) \in {0, 1}
  <2>1. CASE line.kind # "incorrect" /\ line.function \in DOMAIN JumpedFrom
    <3>1. JumpedFrom[line.function] \in Functions
      BY <2>1, StackReportAssumption
    <3>2. foCreateStackFrame(JumpedFrom[line.function]) \in Created
      BY <3>1 DEF Created
    <3> QED
      BY <2>1, <3>2
  <2>2. CASE ~(line.kind # "incorrect" /\ line.function \in DOMAIN JumpedFrom)
    BY <2>2
  <2> QED
    BY <2>1, <2>2
<1>5. AddLine(count, stack, line) \in
        {[stack EXCEPT !.partial = TRUE], stack, [stack EXCEPT !.frames = (kept \o frame) \o jumped]}
  BY Zenon DEF AddLine
<1> HIDE DEF kept, frame, jumped
<1>6. /\ (kept \o frame) \o jumped \in Seq(Created)
      /\ Len((kept \o frame) \o jumped) = Len(kept) + 1 + Len(jumped)
  <2>1. \A a, b \in Seq(Created) : a \o b \in Seq(Created) /\ Len(a \o b) = Len(a) + Len(b)
    BY ConcatProperties
  <2>2. kept \o frame \in Seq(Created) /\ Len(kept \o frame) = Len(kept) + 1
    BY <1>2, <1>3, <2>1
  <2> QED
    BY <1>4, <2>1, <2>2
<1>7. Len((kept \o frame) \o jumped) <= 2 * (n + 1)
  BY <1>1, <1>2, <1>4, <1>6
<1>8. \A new \in {[stack EXCEPT !.partial = TRUE], stack, [stack EXCEPT !.frames = (kept \o frame) \o jumped]} :
        new \in [frames : Seq(Created), partial : BOOLEAN] /\ Len(new.frames) <= 2 * (n + 1)
  <2> DEFINE fs == (kept \o frame) \o jumped
  <2>1. fs \in Seq(Created) /\ Len(fs) <= 2 * (n + 1)
    BY <1>6, <1>7
  <2>2. Len(stack.frames) <= 2 * (n + 1)
    BY <1>1
  <2> HIDE DEF fs
  <2>3. /\ [stack EXCEPT !.partial = TRUE] \in [frames : Seq(Created), partial : BOOLEAN]
        /\ [stack EXCEPT !.partial = TRUE].frames = stack.frames
    OBVIOUS
  <2>4. /\ [stack EXCEPT !.frames = fs] \in [frames : Seq(Created), partial : BOOLEAN]
        /\ [stack EXCEPT !.frames = fs].frames = fs
    BY <2>1
  <2> QED
    BY <2>1, <2>2, <2>3, <2>4 DEF fs
<1> QED
  BY <1>5, <1>8

StackStep(c, lines, stack, n) ==
  IF n = 0 THEN [frames |-> <<>>, partial |-> FALSE]
  ELSE AddLine(uStackFramesCount(c), stack[n - 1], lines[n])

\* There is a function that is defined by the recursion over the lines.
LEMMA StackExists ==
  ASSUME NEW c, NEW lines, Len(lines) \in Nat
  PROVE  \E stack : stack = [n \in 0 .. Len(lines) |-> StackStep(c, lines, stack, n)]
<1> DEFINE P == {m \in Nat : \E stack : stack = [n \in 0 .. m |-> StackStep(c, lines, stack, n)]}
<1>1. 0 \in P
  <2>1. [n \in 0 .. 0 |-> [frames |-> <<>>, partial |-> FALSE]]
        = [n \in 0 .. 0 |-> StackStep(c, lines, [k \in 0 .. 0 |-> [frames |-> <<>>, partial |-> FALSE]], n)]
    BY DEF StackStep
  <2> QED
    BY <2>1
<1>2. \A m \in Nat : m \in P => m + 1 \in P
  <2> SUFFICES ASSUME NEW m \in Nat, NEW s, s = [n \in 0 .. m |-> StackStep(c, lines, s, n)]
               PROVE  m + 1 \in P
    OBVIOUS
  <2> DEFINE t == [n \in 0 .. m + 1 |-> IF n = m + 1 THEN StackStep(c, lines, s, n) ELSE s[n]]
  <2>1. \A n \in 0 .. m + 1 : t[n] = StackStep(c, lines, s, n)
    OBVIOUS
  <2>2. \A n \in 0 .. m + 1 : StackStep(c, lines, t, n) = StackStep(c, lines, s, n)
    BY DEF StackStep
  <2>3. t = [n \in 0 .. m + 1 |-> StackStep(c, lines, t, n)]
    <3> SUFFICES [n \in 0 .. m + 1 |-> t[n]] = [n \in 0 .. m + 1 |-> StackStep(c, lines, t, n)]
      OBVIOUS
    <3> HIDE DEF t
    <3> QED
      BY <2>1, <2>2
  <2> HIDE DEF t
  <2> QED
    BY <2>3
<1> QED
  <2> HIDE DEF P
  <2>1. Len(lines) \in P
    BY <1>1, <1>2, NatSetInduction
  <2> QED
    BY <2>1 DEF P

\* The stack is of frames as they are created, at most two for every line.
LEMMA StackIsOfFrames ==
  ASSUME NEW c, NEW lines \in Seq(Shown)
  PROVE  LET stack == Stack(c, lines)
         IN /\ stack.frames \in Seq(Created) /\ stack.partial \in BOOLEAN
            /\ Len(stack.frames) <= 2 * Len(lines)
<1>1. Len(lines) \in Nat
  BY LenProperties
<1> DEFINE stack == CHOOSE s : s = [n \in 0 .. Len(lines) |-> StackStep(c, lines, s, n)]
<1>2. stack = [n \in 0 .. Len(lines) |-> StackStep(c, lines, stack, n)]
  BY <1>1, StackExists
<1>3. Stack(c, lines) = stack[Len(lines)]
  BY DEF Stack, StackStep
<1> HIDE DEF stack
<1>4. \A n \in 0 .. Len(lines) : stack[n] = StackStep(c, lines, stack, n)
  BY <1>2
<1> DEFINE IsStack(n) == stack[n] \in [frames : Seq(Created), partial : BOOLEAN] /\ Len(stack[n].frames) <= 2 * n
           P == {n \in Nat : n <= Len(lines) => IsStack(n)}
<1>5. 0 \in P
  <2>1. stack[0] = [frames |-> <<>>, partial |-> FALSE]
    BY <1>1, <1>4 DEF StackStep
  <2>2. <<>> \in Seq(Created) /\ Len(<<>>) = 0
    OBVIOUS
  <2>3. [frames |-> <<>>, partial |-> FALSE] \in [frames : Seq(Created), partial : BOOLEAN]
    BY <2>2
  <2>4. stack[0].frames = <<>> /\ stack[0] \in [frames : Seq(Created), partial : BOOLEAN]
    BY <2>1, <2>3
  <2>5. IsStack(0)
    BY <2>2, <2>4
  <2> QED
    BY <2>5
<1>6. \A n \in Nat : n \in P => n + 1 \in P
  <2> SUFFICES ASSUME NEW n \in Nat, n + 1 <= Len(lines), IsStack(n) PROVE IsStack(n + 1)
    BY <1>1
  <2>1. n + 1 \in 0 .. Len(lines) /\ n + 1 # 0 /\ (n + 1) - 1 = n /\ n + 1 \in 1 .. Len(lines)
    BY <1>1
  <2>2. stack[n + 1] = AddLine(uStackFramesCount(c), stack[n], lines[n + 1]) /\ lines[n + 1] \in Shown
    BY <1>4, <2>1, ElementOfSeq DEF StackStep
  <2> QED
    BY <2>2, AddLineAdds
<1>7. IsStack(Len(lines))
  <2> HIDE DEF P
  <2>1. Len(lines) \in P
    BY <1>1, <1>5, <1>6, NatSetInduction
  <2> QED
    BY <1>1, <2>1 DEF P
<1> QED
  BY <1>3, <1>7

\* What holds of the frames of a new stack.
LEMMA NewStack ==
  ASSUME NEW c \in Crashes, NEW lines \in Outputs(c)
  PROVE  LET stack == Stack(c, lines)
         IN /\ stack.frames \in Seq(Frame) /\ stack.partial \in BOOLEAN
            /\ Len(stack.frames) <= 2 * uMaxLinesCount /\ HiddenInOrder(stack.frames)
            /\ \A i \in 1 .. Len(stack.frames) : ~stack.frames[i].id
<1>1. lines \in Seq(Shown) /\ Len(lines) <= uMaxLinesCount /\ Len(lines) \in Nat
  BY OutputIsOfLines, LenProperties
<1>2. PICK stack : stack = Stack(c, lines)
  OBVIOUS
<1>3. stack.frames \in Seq(Created) /\ stack.partial \in BOOLEAN /\ Len(stack.frames) <= 2 * Len(lines)
  BY <1>1, <1>2, StackIsOfFrames
<1>4. stack.frames \in Seq(Frame) /\ Len(stack.frames) \in Nat
  BY <1>3, CreatedFrames, SeqMonotonic, LenProperties
<1>5. HiddenInOrder(stack.frames)
  BY <1>3, CreatedFrames, ElementOfSeq DEF HiddenInOrder
<1>6. Len(stack.frames) <= 2 * uMaxLinesCount
  BY <1>1, <1>3, <1>4, Constants
<1>7. \A i \in 1 .. Len(stack.frames) : ~stack.frames[i].id
  BY <1>3, CreatedFrames, ElementOfSeq
<1> QED
  BY <1>2, <1>3, <1>4, <1>5, <1>6, <1>7

-----------------------------------------------------------------------------
(* The id.                                                                 *)

LEMMA OnlyIsList ==
  ASSUME NEW fs, Len(fs) \in Nat, NEW S
  PROVE  \E T : Only(fs, S) \in Seq(T)
<1> DEFINE kept == {i \in 1 .. Len(fs) : fs[i] \in S}
           Rank(i) == Cardinality({j \in kept : j <= i})
           T == {fs[CHOOSE i \in kept : Rank(i) = k] : k \in 1 .. Cardinality(kept)}
<1>1. IsFiniteSet(1 .. Len(fs)) /\ kept \subseteq 1 .. Len(fs)
  BY FS_Interval
<1>2. Cardinality(kept) \in Nat
  <2> HIDE DEF kept
  <2> QED
    BY <1>1, FS_Subset, FS_CardinalityType
<1>3. Only(fs, S) \in [1 .. Cardinality(kept) -> T]
  BY DEF Only
<1> DEFINE only == Only(fs, S)
<1>4. only \in [1 .. Cardinality(kept) -> T]
  BY <1>3
<1> HIDE DEF kept, T, only
<1>5. only \in Seq(T)
  BY <1>2, <1>4
<1> QED
  BY <1>5 DEF only

\* The first frame that is not hidden is the first of those that are not.
LEMMA OnlyVisibleStartsWithFirst ==
  ASSUME NEW fs \in Seq(Frame), Only(fs, {f \in ToSet(fs) : ~bHidden(f)}) # <<>>
  PROVE  \E i : IsFirst(fs, i) /\ Only(fs, {f \in ToSet(fs) : ~bHidden(f)})[1] = fs[i]
<1> DEFINE S == {f \in ToSet(fs) : ~bHidden(f)}
           kept == {i \in 1 .. Len(fs) : fs[i] \in S}
           Upto(i) == {j \in kept : j <= i}
<1>1. Len(fs) \in Nat /\ DOMAIN fs = 1 .. Len(fs)
  BY LenProperties
<1>2. \A i \in 1 .. Len(fs) : i \in kept <=> ~bHidden(fs[i])
  BY <1>1 DEF ToSet
<1>3. IsFiniteSet(kept) /\ kept \subseteq Nat /\ kept \subseteq 1 .. Len(fs)
  <2>1. kept \subseteq 1 .. Len(fs) /\ kept \subseteq Nat /\ IsFiniteSet(1 .. Len(fs))
    BY <1>1, FS_Interval
  <2> HIDE DEF kept
  <2> QED
    BY <2>1, FS_Subset
<1>4. Only(fs, S) = [k \in 1 .. Cardinality(kept) |-> fs[CHOOSE i \in kept : Cardinality(Upto(i)) = k]]
  BY DEF Only
<1> HIDE DEF S, kept
<1>5. kept # {} /\ 1 \in 1 .. Cardinality(kept)
  <2>1. Cardinality(kept) \in Nat /\ (Cardinality(kept) = 0 <=> kept = {})
    BY <1>3, FS_CardinalityType, FS_EmptySet
  <2>2. Cardinality(kept) # 0
    <3> SUFFICES ASSUME Cardinality(kept) = 0 PROVE FALSE
      OBVIOUS
    <3>1. 1 .. 0 = {} /\ <<>> = [k \in {} |-> fs[CHOOSE i \in kept : Cardinality(Upto(i)) = k]]
      OBVIOUS
    <3>2. Only(fs, S) = <<>>
      BY <1>4, <3>1
    <3> QED
      BY <3>2 DEF S
  <2> QED
    BY <2>1, <2>2
<1>6. PICK m \in kept : \A i \in kept : m <= i
  BY <1>3, <1>5, Least
<1>7. \A i \in kept : Cardinality(Upto(i)) = 1 => i = m
  <2> SUFFICES ASSUME NEW i \in kept, Cardinality(Upto(i)) = 1 PROVE i = m
    OBVIOUS
  <2>1. IsFiniteSet(Upto(i)) /\ i \in Upto(i) /\ m \in Upto(i)
    BY <1>3, <1>6, FS_Subset
  <2> HIDE DEF Upto
  <2>2. \E x : Upto(i) = {x}
    BY <2>1, FS_Singleton
  <2> QED
    BY <2>1, <2>2
<1>8. Cardinality(Upto(m)) = 1
  <2>1. \A j \in kept : j <= m => j = m
    BY <1>3, <1>6
  <2>2. m \in Upto(m)
    BY <1>3
  <2>3. Upto(m) = {m}
    BY <2>1, <2>2
  <2> QED
    BY <2>3, FS_Singleton
<1>9. (CHOOSE i \in kept : Cardinality(Upto(i)) = 1) = m
  <2>1. \E i \in kept : Cardinality(Upto(i)) = 1
    BY <1>8
  <2> DEFINE chosen == CHOOSE i \in kept : Cardinality(Upto(i)) = 1
  <2>2. chosen \in kept /\ Cardinality(Upto(chosen)) = 1
    BY <2>1
  <2> QED
    BY <1>7, <2>2
<1>10. Only(fs, S)[1] = fs[m]
  BY <1>4, <1>5, <1>9
<1>11. IsFirst(fs, m)
  <2>1. m \in 1 .. Len(fs) /\ ~bHidden(fs[m])
    BY <1>2, <1>3
  <2>2. \A j \in 1 .. m - 1 : j \in 1 .. Len(fs) /\ ~(m <= j)
    BY <1>1, <2>1
  <2> QED
    BY <1>2, <1>6, <2>1, <2>2 DEF IsFirst
<1> QED
  BY <1>10, <1>11 DEF S

\* There are never too many functions in an id.
LEMMA MergedLength ==
  ASSUME NEW T, NEW functions \in Seq(T)
  PROVE  Len(Merge(functions)) \in 0 .. uStackHashFramesCount
<1>1. Len(functions) \in Nat /\ uStackHashFramesCount \in Nat \ {0, 1}
  BY LenProperties, Constants
<1>2. CASE Len(functions) <= uStackHashFramesCount
  BY <1>1, <1>2 DEF Merge
<1>3. CASE ~(Len(functions) <= uStackHashFramesCount)
  <2> DEFINE head == SubSeq(functions, 1, uStackHashFramesCount - 1)
             U == T \cup {"hash"}
  <2>1. \A i \in 1 .. uStackHashFramesCount - 1 : functions[i] \in U
    BY <1>1, <1>3, ElementOfSeq
  <2> HIDE DEF U
  <2>2. head \in Seq(U) /\ Len(head) = IF 1 <= uStackHashFramesCount - 1 THEN uStackHashFramesCount - 1 - 1 + 1 ELSE 0
    BY <1>1, <2>1, SubSeqProperties
  <2>3. "hash" \in U
    BY DEF U
  <2> HIDE DEF head
  <2>4. Len(Append(head, "hash")) = Len(head) + 1
    BY <2>2, <2>3, AppendProperties
  <2>5. Len(Append(head, "hash")) = uStackHashFramesCount
    BY <1>1, <2>2, <2>4
  <2> QED
    BY <1>1, <1>3, <2>5 DEF Merge, head
<1> QED
  BY <1>2, <1>3

LEMMA IdFramesAreList ==
  ASSUME frames \in Seq(Frame)
  PROVE  /\ \E T : IdFrames \in Seq(T)
         /\ ~bIdFramesHaveAlreadyBeenMarked => Len(IdFrames) <= uStackHashFramesCount
<1>1. Len(frames) \in Nat /\ uStackHashFramesCount \in Nat
  BY LenProperties, Constants
<1>2. PICK T : Only(frames, {f \in ToSet(frames) : f.id}) \in Seq(T)
  BY <1>1, OnlyIsList
<1>3. PICK U : Only(frames, {f \in ToSet(frames) : ~bHidden(f)}) \in Seq(U)
  BY <1>1, OnlyIsList
<1>4. /\ UpTo(uStackHashFramesCount, Only(frames, {f \in ToSet(frames) : ~bHidden(f)})) \in Seq(U)
      /\ Len(UpTo(uStackHashFramesCount, Only(frames, {f \in ToSet(frames) : ~bHidden(f)}))) <= uStackHashFramesCount
  BY <1>1, <1>3, UpToIsPrefix
<1>5. IdFrames = IF bIdFramesHaveAlreadyBeenMarked THEN Only(frames, {f \in ToSet(frames) : f.id})
                 ELSE UpTo(uStackHashFramesCount, Only(frames, {f \in ToSet(frames) : ~bHidden(f)}))
  BY DEF IdFrames
<1> QED
  BY <1>2, <1>4, <1>5

LEMMA IdLength ==
  ASSUME frames \in Seq(Frame)
  PROVE  Len(Merge(IdFunctions)) \in 0 .. uStackHashFramesCount
<1> DEFINE functions == [i \in DOMAIN IdFrames |-> IdFrames[i].function]
           T == {functions[i] : i \in DOMAIN IdFrames}
<1>1. Len(IdFrames) \in Nat /\ DOMAIN IdFrames = 1 .. Len(IdFrames)
  BY IdFramesAreList, LenProperties
<1>2. functions \in [1 .. Len(IdFrames) -> T]
  BY <1>1
<1>3. IdFunctions = IF bTopDownStackInId THEN Reverse(functions) ELSE functions
  BY DEF IdFunctions
<1> HIDE DEF functions, T
<1>4. functions \in Seq(T) /\ Len(functions) \in Nat
  BY <1>1, <1>2
<1>5. Reverse(functions) \in Seq(T)
  <2>1. \A i \in 1 .. Len(functions) : functions[(Len(functions) - i) + 1] \in T
    <3>1. \A i \in 1 .. Len(functions) : (Len(functions) - i) + 1 \in 1 .. Len(functions)
      BY <1>4
    <3> QED
      BY <1>4, <3>1, ElementOfSeq
  <2>2. Reverse(functions) \in [1 .. Len(functions) -> T]
    BY <2>1 DEF Reverse
  <2> QED
    BY <1>4, <2>2
<1>6. IdFunctions \in Seq(T)
  BY <1>3, <1>4, <1>5
<1> QED
  BY <1>6, MergedLength

\* An id without marked frames starts with the first visible frame.
LEMMA IdStart ==
  ASSUME frames \in Seq(Frame), ~bIdFramesHaveAlreadyBeenMarked, ~bTopDownStackInId, Merge(IdFunctions) # <<>>
  PROVE  \E i : IsFirst(frames, i) /\ Merge(IdFunctions)[1] = frames[i].function
<1> DEFINE only == Only(frames, {f \in ToSet(frames) : ~bHidden(f)})
<1>1. Len(frames) \in Nat /\ uStackHashFramesCount \in Nat
  BY LenProperties, Constants
<1>2. PICK T : only \in Seq(T)
  BY <1>1, OnlyIsList
<1>3. IdFrames = UpTo(uStackHashFramesCount, only)
  BY DEF IdFrames
<1>4. only # <<>> => \E i : IsFirst(frames, i) /\ only[1] = frames[i]
  BY OnlyVisibleStartsWithFirst
<1> HIDE DEF only
<1>5. /\ IdFrames \in Seq(T) /\ Len(IdFrames) <= uStackHashFramesCount /\ Len(IdFrames) <= Len(only)
      /\ \A i \in 1 .. Len(IdFrames) : IdFrames[i] = only[i]
  BY <1>1, <1>2, <1>3, UpToIsPrefix
<1>6. Len(IdFrames) \in Nat /\ DOMAIN IdFrames = 1 .. Len(IdFrames) /\ Len(only) \in Nat
  BY <1>2, <1>5, LenProperties
<1>7. IdFunctions = [i \in 1 .. Len(IdFrames) |-> IdFrames[i].function]
  BY <1>6 DEF IdFunctions
<1>8. Len(IdFunctions) = Len(IdFrames)
  <2> DEFINE U == {IdFrames[i].function : i \in 1 .. Len(IdFrames)}
  <2>1. IdFunctions \in [1 .. Len(IdFrames) -> U]
    BY <1>7
  <2> HIDE DEF U
  <2> QED
    BY <1>6, <2>1
<1>9. Merge(IdFunctions) = IdFunctions
  BY <1>5, <1>8 DEF Merge
<1>10. Len(IdFrames) # 0
  <2> SUFFICES ASSUME Len(IdFrames) = 0 PROVE FALSE
    OBVIOUS
  <2>1. 1 .. 0 = {} /\ <<>> = [i \in {} |-> IdFrames[i].function]
    OBVIOUS
  <2> QED
    BY <1>7, <1>9, <2>1
<1>11. 1 \in 1 .. Len(IdFrames) /\ only # <<>>
  <2>1. Len(only) # 0
    BY <1>5, <1>6, <1>10
  <2> QED
    BY <1>6, <1>10, <2>1
<1>12. PICK i : IsFirst(frames, i) /\ only[1] = frames[i]
  BY <1>4, <1>11
<1>13. IdFunctions[1] = IdFrames[1].function /\ IdFrames[1] = only[1]
  BY <1>5, <1>7, <1>11
<1> QED
  BY <1>9, <1>12, <1>13
-----------------------------------------------------------------------------
(* The inductive invariant.                                                *)

Visible(fs) == {i \in 1 .. Len(fs) : ~bHidden(fs[i])}

\* Every translation that is applied hides a frame, or replaces a type that does not come back.
RoundsInv == rounds + Cardinality(Visible(frames)) + (IF type \in CppTypes THEN 1 ELSE 0) <= Len(frames) + 1

\* The first frame of a marked loop is the first visible one, and remains so until it is hidden: only
\* then is the recursion something else.
MarksInv ==
  bIdFramesHaveAlreadyBeenMarked \/ bTopDownStackInId =>
    \E s \in 1 .. Len(frames) :
      /\ frames[s].id /\ \A j \in 1 .. s - 1 : bHidden(frames[j])
      /\ type # "RecursiveCall" => bHidden(frames[s])

\* There is no recursion before the stack is analyzed.
UnmarkedInv ==
  /\ "RecursiveCall" \notin {crash.type, crash.found}
  /\ pc \in {"running", "translating", "analyzing"} => ~bTopDownStackInId /\ type # "RecursiveCall"

\* A general rule that was tried does not hide the first visible frame.
TriedInv ==
  RulesFindWhatTheyHide =>
    \A n \in 1 .. translation - 1, i \in 1 .. Len(frames) :
      /\ aoBugTranslations[n].types = {} /\ aoBugTranslations[n].top = {} /\ IsFirst(frames, i)
      => frames[i].function \notin aoBugTranslations[n].additional

EndInv ==
  /\ pc \in {"reporting", "reported"} => translation = Len(aoBugTranslations) + 1
  /\ pc # "reported" => stackId = <<>>

SInv ==
  /\ TypeOK /\ RoundsInv /\ HiddenInOrder(frames) /\ MarksInv /\ UnmarkedInv /\ TriedInv /\ EndInv
  /\ RecursionRepeats /\ ExplainedIdStartsWithRelevantFrame

\* Frames that are hidden are no longer counted.
LEMMA VisibleCount ==
  ASSUME NEW fs \in Seq(Frame)
  PROVE  IsFiniteSet(Visible(fs)) /\ Cardinality(Visible(fs)) \in Nat /\ Cardinality(Visible(fs)) <= Len(fs)
<1>1. Len(fs) \in Nat
  BY LenProperties
<1>2. IsFiniteSet(1 .. Len(fs)) /\ Cardinality(1 .. Len(fs)) = Len(fs)
  <2>1. Cardinality(1 .. Len(fs)) = IF 1 > Len(fs) THEN 0 ELSE Len(fs) - 1 + 1
    BY <1>1, FS_Interval
  <2> QED
    BY <1>1, <2>1, FS_Interval
<1>3. Visible(fs) \subseteq 1 .. Len(fs)
  BY DEF Visible
<1> QED
  BY <1>2, <1>3, FS_Subset, FS_CardinalityType

LEMMA KeepsCount ==
  ASSUME NEW fs \in Seq(Frame), NEW new, Keeps(fs, new)
  PROVE  /\ Cardinality(Visible(new)) <= Cardinality(Visible(fs))
         /\ (\E f : IsFirst(fs, f) /\ bHidden(new[f])) => Cardinality(Visible(new)) < Cardinality(Visible(fs))
<1>1. new \in Seq(Frame) /\ Visible(new) \subseteq Visible(fs)
  BY DEF Keeps, Visible
<1>2. IsFiniteSet(Visible(fs))
  BY VisibleCount
<1>3. ASSUME NEW f, IsFirst(fs, f), bHidden(new[f])
      PROVE  Cardinality(Visible(new)) < Cardinality(Visible(fs))
  <2>1. f \in Visible(fs) /\ f \notin Visible(new)
    BY <1>3 DEF IsFirst, Visible
  <2>2. Cardinality(Visible(new)) <= Cardinality(Visible(fs)) /\ Visible(new) # Visible(fs)
    BY <1>1, <1>2, <2>1, FS_Subset
  <2>3. Cardinality(Visible(new)) # Cardinality(Visible(fs))
    BY <1>1, <1>2, <2>2, FS_Subset
  <2> QED
    BY <1>1, <2>2, <2>3, VisibleCount
<1> QED
  BY <1>1, <1>2, <1>3, FS_Subset

\* That is why there are fewer rounds than the number that is "never" reached.
LEMMA RoundsBound ==
  ASSUME NEW fs \in Seq(Frame), Len(fs) <= 2 * uMaxLinesCount, NEW n \in Nat, NEW m \in {0, 1},
         n + Cardinality(Visible(fs)) + m <= Len(fs) + 1
  PROVE  n < uSanityCheckMaximumLoops
BY VisibleCount, Constants, LenProperties

LEMMA InitInv == Init => SInv
<1> SUFFICES ASSUME Init PROVE SInv
  OBVIOUS
<1> USE DEF Init
<1>1. Len(<<>>) = 0 /\ <<>> \in Seq(Frame) /\ DOMAIN <<>> = {} /\ 1 .. 0 = {}
  OBVIOUS
<1>2. TypeOK
  <2>1. 0 \in 0 .. uMaxStackRecursionLoopSize - 1 /\ 0 \in 0 .. uSanityCheckMaximumLoops
        /\ 0 \in 0 .. uStackHashFramesCount /\ 0 <= 2 * uMaxLinesCount
        /\ 1 \in 1 .. Len(aoBugTranslations) + 1
    BY RulesAreGood, Constants
  <2> QED
    BY <1>1, <2>1 DEF TypeOK
<1>3. RoundsInv
  <2>1. Visible(<<>>) = {} /\ Cardinality({}) = 0
    BY <1>1, FS_EmptySet DEF Visible
  <2>2. type \notin CppTypes
    BY NoneAssumption
  <2>3. Cardinality(Visible(frames)) = 0 /\ Len(frames) = 0 /\ rounds = 0
    BY <1>1, <2>1
  <2> QED
    BY <2>2, <2>3 DEF RoundsInv
<1>4. HiddenInOrder(frames)
  BY <1>1 DEF HiddenInOrder
<1>5. MarksInv /\ UnmarkedInv /\ EndInv /\ RecursionRepeats /\ ExplainedIdStartsWithRelevantFrame
  BY <1>1, NoneAssumption DEF MarksInv, UnmarkedInv, EndInv, RecursionRepeats, ExplainedIdStartsWithRelevantFrame,
     bIdFramesHaveAlreadyBeenMarked, Unchanged
<1>6. TriedInv
  BY <1>1 DEF TriedInv
<1> QED
  BY <1>2, <1>3, <1>4, <1>5, <1>6 DEF SInv

LEMMA foCreateInv ==
  ASSUME SInv, foCreate
  PROVE  SInv'
<1>1. PICK lines \in Outputs(crash') :
        frames' = Stack(crash', lines).frames /\ bPartialStack' = Stack(crash', lines).partial
  BY DEF foCreate
<1>2. crash' \in Crashes
  BY DEF foCreate
<1>3. /\ frames' \in Seq(Frame) /\ bPartialStack' \in BOOLEAN
      /\ Len(frames') <= 2 * uMaxLinesCount /\ HiddenInOrder(frames')
      /\ \A i \in 1 .. Len(frames') : ~frames'[i].id
  BY <1>1, <1>2, NewStack
<1>4. "RecursiveCall" \notin {crash'.type, crash'.found}
  BY <1>2, StackReportAssumption DEF Crashes, Unchanged
<1>5. /\ type' = crash'.type /\ uLoopSize' = 0 /\ bTopDownStackInId' = FALSE /\ stackId' = <<>>
      /\ translation' = 1 /\ rounds' = 0 /\ pc' = "translating"
  BY DEF foCreate
<1>6. TypeOK'
  <2>1. 0 \in 0 .. uMaxStackRecursionLoopSize - 1 /\ 0 \in 0 .. uSanityCheckMaximumLoops
        /\ Len(<<>>) \in 0 .. uStackHashFramesCount /\ 1 \in 1 .. Len(aoBugTranslations) + 1
    BY RulesAreGood, Constants
  <2> QED
    BY <1>3, <1>5, <2>1 DEF TypeOK
<1>7. RoundsInv'
  BY <1>3, <1>5, VisibleCount, LenProperties DEF RoundsInv
<1>8. MarksInv'
  <2>1. ~bIdFramesHaveAlreadyBeenMarked'
    BY <1>3, LenProperties DEF bIdFramesHaveAlreadyBeenMarked
  <2> QED
    BY <1>5, <2>1 DEF MarksInv
<1>9. UnmarkedInv' /\ EndInv' /\ RecursionRepeats' /\ ExplainedIdStartsWithRelevantFrame'
  BY <1>4, <1>5 DEF UnmarkedInv, EndInv, RecursionRepeats, ExplainedIdStartsWithRelevantFrame
<1>10. TriedInv'
  BY <1>5 DEF TriedInv
<1> QED
  BY <1>3, <1>6, <1>7, <1>8, <1>9, <1>10 DEF SInv

\* Trying a translation.
LEMMA TranslateInv ==
  ASSUME SInv, Translate
  PROVE  SInv'
<1> PICK rule : rule = aoBugTranslations[translation]
  OBVIOUS
<1> PICK t : t = fbApplyToBugReport(rule, type, frames)
  OBVIOUS
<1>0. TypeOK /\ RoundsInv /\ HiddenInOrder(frames) /\ MarksInv /\ UnmarkedInv /\ TriedInv /\ EndInv /\ RecursionRepeats
  BY DEF SInv
<1>1. /\ pc \in {"translating", "retranslating"} /\ translation \in 1 .. Len(aoBugTranslations)
      /\ type' = t.type /\ frames' = t.frames
      /\ rounds' = IF t.applied THEN rounds + 1 ELSE rounds
      /\ translation' = IF t.applied THEN 1 ELSE translation + 1
      /\ pc' \in {pc, "failed"}
      /\ UNCHANGED <<crash, bPartialStack, uLoopSize, bTopDownStackInId, stackId>>
  <2>1. pc \in {"translating", "retranslating"} /\ translation <= Len(aoBugTranslations)
    BY DEF Translate
  <2>2. translation \in 1 .. Len(aoBugTranslations)
    BY <1>0, <2>1, RulesAreGood DEF TypeOK
  <2> QED
    BY <2>1, <2>2 DEF Translate
<1>2. frames \in Seq(Frame) /\ Len(frames) \in Nat /\ Len(frames) <= 2 * uMaxLinesCount /\ rounds \in Nat
  BY <1>0, LenProperties, Constants DEF TypeOK
<1>3. Good(rule)
  BY <1>1, RulesAreGood
<1>4. Keeps(frames, t.frames) /\ HiddenInOrder(t.frames)
  BY <1>0, <1>2, ApplyKeeps
<1>5. /\ t.type # type => t.applied /\ t.type \notin CppTypes \cup {"RecursiveCall"}
      /\ t.applied => \/ \E f : IsFirst(frames, f) /\ bHidden(t.frames[f])
                      \/ type \in CppTypes /\ t.type \notin CppTypes
  BY <1>2, <1>3, AppliedHides
<1>6. ~t.applied /\ RulesFindWhatTheyHide =>
        /\ t.frames = frames
        /\ rule.types = {} /\ rule.top = {} =>
             \A i : IsFirst(frames, i) => frames[i].function \notin rule.additional
  <2> SUFFICES ASSUME ~t.applied, RulesFindWhatTheyHide
               PROVE  /\ t.frames = frames
                      /\ rule.types = {} /\ rule.top = {} =>
                           \A i : IsFirst(frames, i) => frames[i].function \notin rule.additional
    OBVIOUS
  <2>1. rule.top # {} /\ rule.additional # {} =>
          \A i \in 1 .. Len(frames) : frames[i].function \in rule.top =>
            i < Len(frames) /\ frames[i + 1].function \in rule.top \cup rule.additional
    <3>1. rule \in Rules
      BY <1>1, RulesAreGood DEF Rules
    <3> QED
      BY <1>2, <3>1, LenProperties DEF RulesFindWhatTheyHide
  <2> QED
    BY <1>0, <1>2, <1>3, <2>1, NotAppliedChangesNothing
<1>7. /\ frames' \in Seq(Frame) /\ Len(frames') = Len(frames) /\ DOMAIN frames = 1 .. Len(frames)
      /\ DOMAIN frames' = 1 .. Len(frames)
      /\ \A i \in 1 .. Len(frames) : /\ frames'[i].function = frames[i].function /\ frames'[i].id = frames[i].id
                                     /\ bHidden(frames[i]) => bHidden(frames'[i])
  BY <1>1, <1>2, <1>4, LenProperties DEF Keeps
<1>8. RoundsInv'
  <2> DEFINE cpp == IF type \in CppTypes THEN 1 ELSE 0
             count == Cardinality(Visible(frames))
  <2>1. rounds + count + cpp <= Len(frames) + 1 /\ count \in Nat /\ cpp \in {0, 1}
    BY <1>0, <1>2, VisibleCount DEF RoundsInv
  <2>2. count' \in Nat /\ count' <= count
    BY <1>1, <1>2, <1>4, <1>7, KeepsCount, VisibleCount
  <2>3. cpp' \in {0, 1} /\ cpp' <= cpp
    BY <1>1, <1>5
  <2>4. t.applied => count' < count \/ cpp' < cpp
    <3>1. (\E f : IsFirst(frames, f) /\ bHidden(t.frames[f])) => count' < count
      BY <1>1, <1>2, <1>4, KeepsCount
    <3>2. type \in CppTypes /\ t.type \notin CppTypes => cpp' < cpp
      BY <1>1
    <3> HIDE DEF count, cpp
    <3> QED
      BY <1>5, <3>1, <3>2
  <2>5. rounds' + count' + cpp' <= Len(frames') + 1
    <3> HIDE DEF count, cpp
    <3> QED
      BY <1>1, <1>2, <1>7, <2>1, <2>2, <2>3, <2>4
  <2> QED
    BY <2>5 DEF RoundsInv
<1>9. TypeOK'
  <2>1. rounds' \in 0 .. uSanityCheckMaximumLoops
    <3>1. rounds' \in Nat
      BY <1>1, <1>2
    <3>2. rounds' < uSanityCheckMaximumLoops
      BY <1>2, <1>7, <1>8, <3>1, RoundsBound DEF RoundsInv
    <3> QED
      BY <3>1, <3>2, Constants
  <2>2. translation' \in 1 .. Len(aoBugTranslations) + 1
    BY <1>1, RulesAreGood
  <2> QED
    BY <1>0, <1>1, <1>2, <1>7, <2>1, <2>2 DEF TypeOK
<1>10. MarksInv'
  <2> SUFFICES ASSUME bIdFramesHaveAlreadyBeenMarked' \/ bTopDownStackInId'
               PROVE  \E s \in 1 .. Len(frames') :
                        /\ frames'[s].id /\ \A j \in 1 .. s - 1 : bHidden(frames'[j])
                        /\ type' # "RecursiveCall" => bHidden(frames'[s])
    BY DEF MarksInv
  <2>1. bIdFramesHaveAlreadyBeenMarked \/ bTopDownStackInId
    BY <1>1, <1>7 DEF bIdFramesHaveAlreadyBeenMarked
  <2>2. PICK s \in 1 .. Len(frames) :
          /\ frames[s].id /\ \A j \in 1 .. s - 1 : bHidden(frames[j])
          /\ type # "RecursiveCall" => bHidden(frames[s])
    BY <1>0, <2>1 DEF MarksInv
  <2>3. \A j \in 1 .. s - 1 : j \in 1 .. Len(frames)
    BY <1>2
  <2>4. frames'[s].id /\ \A j \in 1 .. s - 1 : bHidden(frames'[j])
    BY <1>7, <2>2, <2>3
  <2>5. ASSUME type' # "RecursiveCall", ~bHidden(frames'[s]) PROVE FALSE
    <3>1. ~bHidden(frames[s]) /\ type = "RecursiveCall" /\ t.applied
      BY <1>1, <1>5, <1>7, <2>2, <2>5
    <3>2. PICK f : IsFirst(frames, f) /\ bHidden(frames'[f])
      BY <1>1, <1>5, <3>1 DEF CppTypes
    <3>3. f \in 1 .. Len(frames) /\ ~bHidden(frames[f]) /\ \A j \in 1 .. f - 1 : bHidden(frames[j])
      BY <3>2 DEF IsFirst
    <3>4. ~(f < s) /\ ~(s < f)
      BY <1>2, <2>2, <3>1, <3>3
    <3>5. f = s
      BY <1>2, <3>3, <3>4
    <3> QED
      BY <2>5, <3>2, <3>5
  <2> QED
    BY <1>7, <2>4, <2>5
<1>11. TriedInv'
  <2>1. CASE t.applied
    BY <1>1, <2>1 DEF TriedInv
  <2>2. CASE ~t.applied
    <3> SUFFICES ASSUME RulesFindWhatTheyHide', NEW n \in 1 .. translation' - 1, NEW i \in 1 .. Len(frames'),
                        aoBugTranslations[n].types = {}, aoBugTranslations[n].top = {}, IsFirst(frames', i)
                 PROVE  frames'[i].function \notin aoBugTranslations[n].additional
      BY DEF TriedInv
    <3>1. RulesFindWhatTheyHide
      <4> SUFFICES ASSUME NEW r \in Rules, r.top # {}, r.additional # {}, NEW k \in DOMAIN frames,
                          frames[k].function \in r.top
                   PROVE  k < Len(frames) /\ frames[k + 1].function \in r.top \cup r.additional
        BY DEF RulesFindWhatTheyHide
      <4>1. k < Len(frames') /\ frames'[k + 1].function \in r.top \cup r.additional
        BY <1>7 DEF RulesFindWhatTheyHide
      <4>2. k + 1 \in 1 .. Len(frames)
        BY <1>2, <1>7, <4>1
      <4> QED
        BY <1>7, <4>1, <4>2
    <3>2. frames' = frames
      BY <1>1, <1>6, <2>2, <3>1
    <3>3. n \in 1 .. translation - 1 \/ n = translation
      BY <1>1, <2>2
    <3>4. CASE n \in 1 .. translation - 1
      BY <1>0, <3>1, <3>2, <3>4 DEF TriedInv
    <3>5. CASE n = translation
      BY <1>6, <2>2, <3>1, <3>2, <3>5
    <3> QED
      BY <3>3, <3>4, <3>5
  <2> QED
    BY <2>1, <2>2
<1>12. RecursionRepeats'
  <2> SUFFICES ASSUME type' = "RecursiveCall" PROVE RecursionRepeats'
    BY DEF RecursionRepeats
  <2>1. type = "RecursiveCall"
    BY <1>1, <1>5
  <2>2. PICK start \in DOMAIN frames :
          /\ {i \in DOMAIN frames : frames[i].id} = start .. start + uLoopSize - 1
          /\ \A i \in start .. start + uLoopSize - 1, k \in 1 .. uMinStackRecursionLoops - 1 :
               i - k * uLoopSize >= 1 /\ frames[i - k * uLoopSize].function = frames[i].function
          /\ start + uLoopSize <= Len(frames) => frames[start].function # frames[start + uLoopSize].function
    BY <1>0, <2>1 DEF RecursionRepeats
  <2>3. uLoopSize \in Nat /\ uLoopSize' = uLoopSize
    BY <1>0, <1>1, Constants DEF TypeOK
  <2>4. {i \in DOMAIN frames' : frames'[i].id} = start .. start + uLoopSize - 1
    BY <1>7, <2>2
  <2>5. ASSUME NEW i \in start .. start + uLoopSize - 1, NEW k \in 1 .. uMinStackRecursionLoops - 1
        PROVE  i - k * uLoopSize >= 1 /\ frames'[i - k * uLoopSize].function = frames'[i].function
    <3>1. i \in 1 .. Len(frames)
      BY <1>7, <2>2
    <3>2. i - k * uLoopSize >= 1 /\ k * uLoopSize \in Nat
      <4>1. \A m, n \in Nat : m * n \in Nat
        OBVIOUS
      <4>2. k \in Nat
        BY Constants
      <4>3. k * uLoopSize \in Nat
        BY <2>3, <4>1, <4>2
      <4> QED
        BY <2>2, <4>3
    <3>3. i - k * uLoopSize \in 1 .. Len(frames)
      BY <1>2, <3>1, <3>2
    <3> QED
      BY <1>7, <2>2, <3>1, <3>3
  <2>6. start + uLoopSize <= Len(frames') => frames'[start].function # frames'[start + uLoopSize].function
    <3> SUFFICES ASSUME start + uLoopSize <= Len(frames)
                 PROVE  frames'[start].function # frames'[start + uLoopSize].function
      BY <1>7
    <3>1. start \in 1 .. Len(frames) /\ start + uLoopSize \in 1 .. Len(frames)
      BY <1>2, <1>7, <2>3
    <3> QED
      BY <1>7, <2>2, <3>1
  <2> QED
    BY <1>7, <2>3, <2>4, <2>5, <2>6 DEF RecursionRepeats
<1>13. UnmarkedInv' /\ EndInv' /\ ExplainedIdStartsWithRelevantFrame'
  BY <1>0, <1>1, <1>5 DEF UnmarkedInv, EndInv, ExplainedIdStartsWithRelevantFrame
<1> QED
  BY <1>1, <1>4, <1>8, <1>9, <1>10, <1>11, <1>12, <1>13 DEF SInv

\* Nothing changes but pc.
LEMMA NotABugInv ==
  ASSUME SInv, NotABug
  PROVE  SInv'
<1>1. /\ pc' = "ignored" /\ pc \in {"translating", "retranslating"}
      /\ UNCHANGED <<crash, frames, bPartialStack, type, uLoopSize, bTopDownStackInId, stackId, translation, rounds>>
  BY DEF NotABug, stackVars, reportVars, translationVars
<1>2. TypeOK' /\ RoundsInv' /\ HiddenInOrder(frames')
  BY <1>1 DEF SInv, TypeOK, RoundsInv
<1>3. MarksInv' /\ UnmarkedInv' /\ EndInv' /\ ExplainedIdStartsWithRelevantFrame'
  BY <1>1 DEF SInv, MarksInv, UnmarkedInv, EndInv, ExplainedIdStartsWithRelevantFrame, bIdFramesHaveAlreadyBeenMarked
<1>4. TriedInv'
  BY <1>1 DEF SInv, TriedInv, RulesFindWhatTheyHide
<1>5. RecursionRepeats'
  BY <1>1 DEF SInv, RecursionRepeats
<1> QED
  BY <1>1, <1>2, <1>3, <1>4, <1>5 DEF SInv

LEMMA fApplyBugTranslationsToBugReportInv ==
  ASSUME SInv, fApplyBugTranslationsToBugReport
  PROVE  SInv'
<1>1. /\ pc' \in {"analyzing", "reporting"} /\ pc \in {"translating", "retranslating"}
      /\ pc' = "analyzing" => pc = "translating"
      /\ UNCHANGED <<crash, frames, bPartialStack, type, uLoopSize, bTopDownStackInId, stackId, translation, rounds>>
  BY DEF fApplyBugTranslationsToBugReport, stackVars, reportVars, translationVars
<1>2. TypeOK' /\ RoundsInv' /\ HiddenInOrder(frames')
  BY <1>1 DEF SInv, TypeOK, RoundsInv
<1>3. MarksInv' /\ UnmarkedInv' /\ ExplainedIdStartsWithRelevantFrame'
  BY <1>1 DEF SInv, MarksInv, UnmarkedInv, ExplainedIdStartsWithRelevantFrame, bIdFramesHaveAlreadyBeenMarked
<1>4. TriedInv'
  BY <1>1 DEF SInv, TriedInv, RulesFindWhatTheyHide
<1>5. RecursionRepeats'
  BY <1>1 DEF SInv, RecursionRepeats
<1>6. translation = Len(aoBugTranslations) + 1
  <2>1. translation \in 1 .. Len(aoBugTranslations) + 1 /\ translation > Len(aoBugTranslations)
    BY DEF SInv, TypeOK, fApplyBugTranslationsToBugReport
  <2> QED
    BY <2>1, RulesAreGood
<1>7. EndInv'
  BY <1>1, <1>6 DEF SInv, EndInv
<1> QED
  BY <1>1, <1>2, <1>3, <1>4, <1>5, <1>7 DEF SInv

\* The analysis of another exception than a stack overflow gives the bug a type, and marks no frames.
LEMMA foAnalyzeExceptionInv ==
  ASSUME SInv, foAnalyzeException
  PROVE  SInv'
<1>1. /\ pc = "analyzing" /\ pc' = "retranslating" /\ translation' = 1 /\ rounds' = 0 /\ type' \in AnalysisFinds
      /\ UNCHANGED <<crash, frames, bPartialStack, uLoopSize, bTopDownStackInId, stackId>>
  BY DEF foAnalyzeException, stackVars
<1>2. TypeOK'
  BY <1>1, RulesAreGood, Constants DEF SInv, TypeOK
<1>3. type' # "RecursiveCall"
  <2>1. type # "RecursiveCall" /\ crash.found # "RecursiveCall"
    BY <1>1 DEF SInv, UnmarkedInv
  <2>2. type' \in {type, crash.found, "typeAndClass"}
    BY <1>1, Zenon DEF AnalysisFinds
  <2> QED
    BY <2>1, <2>2
<1>4. RoundsInv'
  BY <1>1, <1>2, VisibleCount, LenProperties DEF RoundsInv, TypeOK
<1>5. MarksInv'
  <2> SUFFICES ASSUME bIdFramesHaveAlreadyBeenMarked \/ bTopDownStackInId
               PROVE  \E s \in 1 .. Len(frames) :
                        frames[s].id /\ (\A j \in 1 .. s - 1 : bHidden(frames[j])) /\ bHidden(frames[s])
    BY <1>1 DEF MarksInv, bIdFramesHaveAlreadyBeenMarked
  <2>1. type # "RecursiveCall"
    BY <1>1 DEF SInv, UnmarkedInv
  <2> QED
    BY <2>1 DEF SInv, MarksInv
<1>6. UnmarkedInv' /\ EndInv' /\ RecursionRepeats' /\ ExplainedIdStartsWithRelevantFrame' /\ HiddenInOrder(frames')
  BY <1>1, <1>3 DEF SInv, UnmarkedInv, EndInv, RecursionRepeats, ExplainedIdStartsWithRelevantFrame
<1>7. TriedInv'
  BY <1>1 DEF TriedInv
<1> QED
  BY <1>2, <1>4, <1>5, <1>6, <1>7 DEF SInv

\* The report of a bug.
LEMMA fxProcessStackInv ==
  ASSUME SInv, fxProcessStack
  PROVE  SInv'
<1>1. /\ pc = "reporting"
      /\ UNCHANGED <<crash, frames, bPartialStack, type, uLoopSize, bTopDownStackInId, translation, rounds>>
      /\ \/ pc' = "failed" /\ stackId' = stackId
         \/ /\ pc' = "reported" /\ stackId' = Merge(IdFunctions)
            /\ \A i \in DOMAIN frames : ~(bHidden(frames[i]) /\ frames[i].id)
  BY DEF fxProcessStack, stackVars, translationVars
<1>2. frames \in Seq(Frame) /\ Len(frames) \in Nat /\ DOMAIN frames = 1 .. Len(frames)
  BY LenProperties DEF SInv, TypeOK
<1>3. TypeOK'
  BY <1>1, <1>2, IdLength DEF SInv, TypeOK
<1>4. RoundsInv' /\ HiddenInOrder(frames')
  BY <1>1 DEF SInv, RoundsInv
<1>5. MarksInv' /\ UnmarkedInv' /\ EndInv'
  BY <1>1 DEF SInv, MarksInv, UnmarkedInv, EndInv, bIdFramesHaveAlreadyBeenMarked
<1>6. TriedInv'
  BY <1>1 DEF SInv, TriedInv, RulesFindWhatTheyHide
<1>7. RecursionRepeats'
  BY <1>1 DEF SInv, RecursionRepeats
<1>8. ExplainedIdStartsWithRelevantFrame'
  <2> SUFFICES ASSUME pc' = "reported", RulesFindWhatTheyHide', type' # "RecursiveCall", stackId' # <<>>,
                      NEW r \in Rules, r.types = {}, r.top = {}
               PROVE  stackId'[1] \notin r.additional
    BY DEF ExplainedIdStartsWithRelevantFrame, IdStartsWithRelevantFrame, IrrelevantFunctions
  <2>1. /\ stackId' = Merge(IdFunctions) /\ type # "RecursiveCall"
        /\ \A i \in DOMAIN frames : ~(bHidden(frames[i]) /\ frames[i].id)
    BY <1>1
  <2>2. ~bIdFramesHaveAlreadyBeenMarked /\ ~bTopDownStackInId
    BY <1>2, <2>1 DEF SInv, MarksInv
  <2>3. PICK i : IsFirst(frames, i) /\ stackId'[1] = frames[i].function
    BY <1>2, <2>1, <2>2, IdStart
  <2>4. RulesFindWhatTheyHide
    BY <1>1 DEF RulesFindWhatTheyHide
  <2>5. PICK n \in 1 .. Len(aoBugTranslations) : r = aoBugTranslations[n]
    BY RulesAreGood DEF Rules
  <2>6. n \in 1 .. translation - 1
    <3>1. translation = Len(aoBugTranslations) + 1
      BY <1>1 DEF SInv, EndInv
    <3> QED
      BY <3>1, RulesAreGood
  <2>7. i \in 1 .. Len(frames)
    BY <2>3 DEF IsFirst
  <2> QED
    BY <2>3, <2>4, <2>5, <2>6, <2>7 DEF SInv, TriedInv
<1> QED
  BY <1>3, <1>4, <1>5, <1>6, <1>7, <1>8 DEF SInv

-----------------------------------------------------------------------------
(* Recursion.                                                              *)

\* Products.
LEMMA Products ==
  /\ \A m, n \in Nat : m * n \in Nat /\ (m + 1) * n = m * n + n
  /\ \A m, n, k \in Nat : m <= n => m * k <= n * k
  /\ \A m \in Nat, n \in Nat \ {0} : m * n >= m
<1>1. \A m, n \in Nat : m * n \in Nat /\ (m + 1) * n = m * n + n
  OBVIOUS
<1>2. \A m, n, k \in Nat : m <= n => m * k <= n * k
  <2> SUFFICES ASSUME NEW m \in Nat, NEW n \in Nat, NEW k \in Nat, m <= n PROVE m * k <= n * k
    OBVIOUS
  <2>1. n * k = m * k + (n - m) * k /\ n - m \in Nat
    OBVIOUS
  <2>2. (n - m) * k \in Nat /\ m * k \in Nat
    BY <1>1, <2>1
  <2> QED
    BY <2>1, <2>2
<1>3. \A m \in Nat, n \in Nat \ {0} : m * n >= m
  <2> SUFFICES ASSUME NEW m \in Nat, NEW n \in Nat \ {0} PROVE m * n >= m
    OBVIOUS
  <2>1. m * n = m * (n - 1) + m /\ n - 1 \in Nat
    OBVIOUS
  <2>2. m * (n - 1) \in Nat
    BY <1>1, <2>1
  <2> QED
    BY <2>1, <2>2
<1> QED
  BY <1>1, <1>2, <1>3

\* Division.
LEMMA Quotient ==
  ASSUME NEW z \in Nat \ {0}, NEW d \in Nat
  PROVE  \E k \in Nat, r \in 0 .. z - 1 : d = k * z + r
<1> DEFINE P == {x \in Nat : \E k \in Nat, r \in 0 .. z - 1 : x = k * z + r}
<1>1. 0 \in P
  <2>1. 0 = 0 * z + 0 /\ 0 \in 0 .. z - 1
    OBVIOUS
  <2> QED
    BY <2>1
<1>2. \A x \in Nat : x \in P => x + 1 \in P
  <2> SUFFICES ASSUME NEW x \in Nat, NEW k \in Nat, NEW r \in 0 .. z - 1, x = k * z + r
               PROVE  \E l \in Nat, q \in 0 .. z - 1 : x + 1 = l * z + q
    OBVIOUS
  <2>1. k * z \in Nat /\ (k + 1) * z = k * z + z
    BY Products
  <2>2. CASE r + 1 = z
    <3>1. x + 1 = (k + 1) * z + 0 /\ 0 \in 0 .. z - 1 /\ k + 1 \in Nat
      BY <2>1, <2>2
    <3> QED
      BY <3>1
  <2>3. CASE r + 1 # z
    <3>1. x + 1 = k * z + (r + 1) /\ r + 1 \in 0 .. z - 1
      BY <2>1, <2>3
    <3> QED
      BY <3>1
  <2> QED
    BY <2>2, <2>3
<1> QED
  <2> HIDE DEF P
  <2>1. d \in P
    BY <1>1, <1>2, NatSetInduction
  <2> QED
    BY <2>1 DEF P

\* Of some loops, one is best: it covers the most frames, and of those that do it starts first, and of
\* those it is smallest.
LEMMA BestLoop ==
  ASSUME NEW loops, loops # {}, NEW N \in Nat,
         \A l \in loops : l[1] \in Nat /\ l[2] \in Nat /\ l[2] * l[3] \in Nat /\ l[2] * l[3] <= N
  PROVE  \E l \in loops : \A other \in loops : IsBetter(l, other)
<1> DEFINE Covers(l) == l[2] * l[3]
           Rests == {N - Covers(l) : l \in loops}
<1>1. \A l \in loops : l[1] \in Nat /\ l[2] \in Nat /\ Covers(l) \in Nat /\ Covers(l) <= N
  OBVIOUS
<1>2. \A l, other : IsBetter(l, other) <=>
        Covers(l) > Covers(other) \/ (Covers(l) = Covers(other) /\ ~Comes(other, l))
  BY DEF IsBetter
<1> HIDE DEF Covers
<1>3. PICK rest \in Rests : \A x \in Rests : rest <= x
  <2>1. Rests \subseteq Nat /\ Rests # {}
    BY <1>1
  <2> HIDE DEF Rests
  <2> QED
    BY <2>1, Least
<1> DEFINE Most == {l \in loops : N - Covers(l) = rest}
           Starts == {l[1] : l \in Most}
<1>4. Most # {} /\ Most \subseteq loops
  BY <1>3
<1>5. PICK start \in Starts : \A x \in Starts : start <= x
  <2>1. Starts \subseteq Nat /\ Starts # {}
    BY <1>1, <1>4
  <2> HIDE DEF Starts
  <2> QED
    BY <2>1, Least
<1> DEFINE First == {l \in Most : l[1] = start}
           Sizes == {l[2] : l \in First}
<1>6. First # {} /\ First \subseteq loops
  BY <1>4, <1>5
<1>7. PICK size \in Sizes : \A x \in Sizes : size <= x
  <2>1. Sizes \subseteq Nat /\ Sizes # {}
    BY <1>1, <1>6
  <2> HIDE DEF Sizes
  <2> QED
    BY <2>1, Least
<1>8. PICK l \in First : l[2] = size
  BY <1>7
<1>9. ASSUME NEW other \in loops PROVE IsBetter(l, other)
  <2>1. /\ l \in loops /\ N - Covers(l) = rest /\ l[1] = start
        /\ l[1] \in Nat /\ l[2] \in Nat /\ Covers(l) \in Nat
        /\ other[1] \in Nat /\ other[2] \in Nat /\ Covers(other) \in Nat
    BY <1>1
  <2>2. rest <= N - Covers(other)
    BY <1>3
  <2>3. CASE N - Covers(other) = rest
    <3>1. other \in Most
      BY <2>3
    <3>2. start <= other[1]
      BY <1>5, <3>1
    <3>3. other[1] = start => size <= other[2]
      BY <1>7, <3>1
    <3>4. ~Comes(other, l)
      BY <1>8, <2>1, <3>2, <3>3 DEF Comes
    <3> QED
      BY <1>2, <2>1, <2>3, <3>4
  <2>4. CASE N - Covers(other) # rest
    BY <1>2, <2>1, <2>2, <2>4
  <2> QED
    BY <2>3, <2>4
<1> QED
  BY <1>9

\* What a loop that is found is: frames that repeat as often as a recursion must at least.
LEMMA LoopIsFound ==
  ASSUME frames \in Seq(Frame), NEW loop \in RecursionLoops
  PROVE  /\ loop[1] \in 1 .. Len(frames) /\ loop[2] \in 1 .. uMaxStackRecursionLoopSize - 1
         /\ loop[3] \in Nat /\ loop[3] >= uMinStackRecursionLoops
         /\ \A k \in 0 .. loop[3] - 1 : Repeats(loop[1], loop[2], k)
<1> DEFINE MaxSize(start) ==
             Min({(Len(frames) - start + 1) \div uMinStackRecursionLoops, uMaxStackRecursionLoopSize}) - 1
<1>1. PICK start \in 1 .. Len(frames) - 1 : \E size \in 1 .. MaxSize(start) :
        loop = <<start, size, LoopCount(start, size)>> /\ loop[3] >= uMinStackRecursionLoops
  BY DEF RecursionLoops
<1>2. Len(frames) \in Nat /\ start \in 1 .. Len(frames)
  BY LenProperties
<1>3. MaxSize(start) \in Int /\ MaxSize(start) <= uMaxStackRecursionLoopSize - 1
  <2> DEFINE most == (Len(frames) - start + 1) \div uMinStackRecursionLoops
  <2>1. most \in Nat
    <3>1. \A m \in Nat, n \in Nat \ {0} : m \div n \in Nat
      OBVIOUS
    <3>2. Len(frames) - start + 1 \in Nat
      BY <1>2
    <3> QED
      BY <3>1, <3>2, Constants
  <2> HIDE DEF most
  <2>2. {most, uMaxStackRecursionLoopSize} \subseteq Nat /\ {most, uMaxStackRecursionLoopSize} # {}
    BY <2>1, Constants
  <2>3. /\ Min({most, uMaxStackRecursionLoopSize}) \in {most, uMaxStackRecursionLoopSize}
        /\ Min({most, uMaxStackRecursionLoopSize}) <= uMaxStackRecursionLoopSize
    BY <2>2, MinOfNaturals
  <2> QED
    BY <2>1, <2>3, Constants DEF most
<1> HIDE DEF MaxSize
<1>4. PICK size \in 1 .. MaxSize(start) :
        loop = <<start, size, LoopCount(start, size)>> /\ loop[3] >= uMinStackRecursionLoops
  BY <1>1
<1>5. size \in 1 .. uMaxStackRecursionLoopSize - 1 /\ size \in Nat \ {0}
  BY <1>3, Constants
<1> DEFINE Ends == {k \in 0 .. Len(frames) : ~Repeats(start, size, k)}
<1>6. Ends \subseteq Nat /\ Len(frames) \in Ends
  <2>1. (Len(frames) + 1) * size >= Len(frames) + 1 /\ (Len(frames) + 1) * size \in Nat
    BY <1>2, <1>5, Products
  <2>2. ~(start + (Len(frames) + 1) * size <= Len(frames))
    BY <1>2, <2>1
  <2>3. ~Repeats(start, size, Len(frames))
    BY <2>2 DEF Repeats
  <2> QED
    BY <1>2, <2>3
<1>7. LoopCount(start, size) = Min(Ends)
  BY DEF LoopCount
<1>8. Min(Ends) \in Ends /\ \A k \in Ends : Min(Ends) <= k
  <2> HIDE DEF Ends
  <2> QED
    BY <1>6, MinOfNaturals
<1>9. LoopCount(start, size) \in Nat /\ LoopCount(start, size) <= Len(frames)
  BY <1>2, <1>6, <1>7, <1>8
<1>10. \A k \in 0 .. LoopCount(start, size) - 1 : Repeats(start, size, k)
  <2> SUFFICES ASSUME NEW k \in 0 .. LoopCount(start, size) - 1, ~Repeats(start, size, k) PROVE FALSE
    OBVIOUS
  <2>1. k \in Ends /\ ~(LoopCount(start, size) <= k)
    BY <1>2, <1>9
  <2> HIDE DEF Ends
  <2> QED
    BY <1>7, <1>8, <2>1
<1> QED
  BY <1>2, <1>4, <1>5, <1>9, <1>10

\* A loop covers no more frames than there are.
LEMMA LoopCovers ==
  ASSUME frames \in Seq(Frame), NEW loop \in RecursionLoops
  PROVE  loop[2] * loop[3] \in Nat /\ loop[2] * loop[3] <= Len(frames)
<1>1. /\ loop[1] \in 1 .. Len(frames) /\ loop[2] \in 1 .. uMaxStackRecursionLoopSize - 1
      /\ loop[3] \in Nat /\ loop[3] >= uMinStackRecursionLoops
      /\ \A k \in 0 .. loop[3] - 1 : Repeats(loop[1], loop[2], k)
  BY LoopIsFound
<1>2. PICK start \in Nat : start = loop[1]
  BY <1>1, LenProperties
<1>3. PICK size \in Nat : size = loop[2]
  BY <1>1, Constants
<1>4. PICK count \in Nat \ {0} : count = loop[3]
  BY <1>1, Constants
<1>5. start + ((count - 1) + 1) * size <= Len(frames)
  BY <1>1, <1>2, <1>3, <1>4 DEF Repeats
<1>6. ((count - 1) + 1) * size = size * count /\ size * count \in Nat
  <2>1. (count - 1) + 1 = count /\ count * size = size * count
    OBVIOUS
  <2> QED
    BY <2>1, Products
<1>7. size * count <= Len(frames)
  BY <1>2, <1>5, <1>6, LenProperties
<1> QED
  BY <1>3, <1>4, <1>6, <1>7

\* From one frame on as many frames repeat as a loop is long: the last such frame is in the last loop.
LEMMA LastStart ==
  ASSUME frames \in Seq(Frame), NEW s \in 1 .. Len(frames), NEW z \in Nat \ {0}, NEW count \in Nat \ {0},
         \A k \in 0 .. count - 1 : Repeats(s, z, k)
  PROVE  LET e == LastLoopStart(s, z)
         IN /\ e \in s .. Len(frames) /\ e >= s + (count - 1) * z /\ e + z - 1 <= Len(frames)
            /\ \A i \in s .. e - 1 : i + z <= Len(frames) /\ frames[i].function = frames[i + z].function
            /\ e + z <= Len(frames) => frames[e].function # frames[e + z].function
<1> DEFINE Ends == {i \in s .. Len(frames) : i + z > Len(frames) \/ frames[i].function # frames[i + z].function}
<1>1. Len(frames) \in Nat /\ s \in Nat
  BY LenProperties
<1>2. Ends \subseteq Nat /\ Len(frames) \in Ends
  BY <1>1
<1>3. Min(Ends) \in Ends /\ \A i \in Ends : Min(Ends) <= i
  <2> HIDE DEF Ends
  <2> QED
    BY <1>2, MinOfNaturals
<1>4. PICK e : e = LastLoopStart(s, z)
  OBVIOUS
<1>5. e = Min(Ends)
  BY <1>4 DEF LastLoopStart
<1>6. e \in s .. Len(frames) /\ (e + z <= Len(frames) => frames[e].function # frames[e + z].function)
  BY <1>1, <1>3, <1>5
<1>7. \A i \in s .. e - 1 : i + z <= Len(frames) /\ frames[i].function = frames[i + z].function
  <2> SUFFICES ASSUME NEW i \in s .. e - 1, ~(i + z <= Len(frames) /\ frames[i].function = frames[i + z].function)
               PROVE  FALSE
    OBVIOUS
  <2>1. i \in s .. Len(frames) /\ ~(e <= i)
    BY <1>1, <1>6
  <2>2. i \in Ends
    BY <1>1, <2>1
  <2> HIDE DEF Ends
  <2> QED
    BY <1>3, <1>5, <2>1, <2>2
<1> HIDE DEF Ends
<1>8. (count - 1) * z \in Nat
  BY Products
<1>9. e >= s + (count - 1) * z
  <2> SUFFICES ASSUME e < s + (count - 1) * z PROVE FALSE
    BY <1>1, <1>6, <1>8
  <2>1. e - s \in Nat /\ e - s < (count - 1) * z
    BY <1>1, <1>6, <1>8
  <2>2. PICK k \in Nat, r \in 0 .. z - 1 : e - s = k * z + r
    BY <2>1, Quotient
  <2>3. k * z \in Nat /\ (k + 1) * z = k * z + z /\ ((k + 1) + 1) * z = (k + 1) * z + z
    BY Products
  <2>4. k + 1 \in 0 .. count - 1
    <3> SUFFICES ASSUME count - 1 <= k PROVE FALSE
      OBVIOUS
    <3>1. (count - 1) * z <= k * z
      BY Products
    <3> QED
      BY <1>8, <2>1, <2>2, <2>3, <3>1
  <2>5. k \in 0 .. count - 1
    BY <2>4
  <2>6. e = s + k * z + r /\ e + z = s + (k + 1) * z + r
    BY <1>1, <1>6, <2>2, <2>3
  <2>7. frames[s + r].function = frames[e].function
    BY <2>5, <2>6 DEF Repeats
  <2>8. /\ s + ((k + 1) + 1) * z <= Len(frames)
        /\ frames[s + r].function = frames[e + z].function
    BY <2>4, <2>6 DEF Repeats
  <2>9. e + z <= Len(frames)
    BY <1>1, <1>6, <2>2, <2>3, <2>6, <2>8
  <2> QED
    BY <1>6, <2>7, <2>8, <2>9
<1>10. e + z - 1 <= Len(frames)
  <2>1. CASE e = s
    <3>1. s + (0 + 1) * z <= Len(frames) /\ (0 + 1) * z = z
      BY DEF Repeats
    <3> QED
      BY <1>1, <2>1, <3>1
  <2>2. CASE e # s
    <3>1. e - 1 \in s .. e - 1
      BY <1>1, <1>6, <2>2
    <3>2. (e - 1) + z <= Len(frames)
      BY <1>7, <3>1
    <3> QED
      BY <1>1, <1>6, <3>2
  <2> QED
    BY <2>1, <2>2
<1> QED
  BY <1>4, <1>6, <1>7, <1>9, <1>10

\* The frames of the last loop repeat those above it.
LEMMA LoopsAbove ==
  ASSUME frames \in Seq(Frame), NEW s \in 1 .. Len(frames), NEW z \in Nat \ {0}, NEW count \in Nat \ {0},
         uMinStackRecursionLoops <= count, \A k \in 0 .. count - 1 : Repeats(s, z, k)
  PROVE  LET e == LastLoopStart(s, z)
         IN \A i \in e .. e + z - 1, k \in 0 .. uMinStackRecursionLoops - 1 :
              i - k * z >= s /\ frames[i - k * z].function = frames[i].function
<1>1. PICK e : e = LastLoopStart(s, z)
  OBVIOUS
<1>2. /\ e \in Nat /\ s \in Nat /\ e >= s + (count - 1) * z
      /\ \A i \in s .. e - 1 : frames[i].function = frames[i + z].function
  <2>1. /\ e \in s .. Len(frames) /\ e >= s + (count - 1) * z
        /\ \A i \in s .. e - 1 : i + z <= Len(frames) /\ frames[i].function = frames[i + z].function
    BY <1>1, LastStart
  <2> QED
    BY <2>1, LenProperties
<1>3. PICK least \in Nat \ {0} : least = uMinStackRecursionLoops /\ least <= count
  BY Constants
<1> SUFFICES ASSUME NEW i \in e .. e + z - 1, NEW k \in 0 .. least - 1
             PROVE  i - k * z >= s /\ frames[i - k * z].function = frames[i].function
  BY <1>1, <1>3
<1>4. \A x \in 0 .. least - 1 : x * z \in Nat /\ x * z <= (count - 1) * z /\ i - x * z >= s
  <2> SUFFICES ASSUME NEW x \in 0 .. least - 1
               PROVE  x * z \in Nat /\ x * z <= (count - 1) * z /\ i - x * z >= s
    OBVIOUS
  <2>1. x \in Nat /\ count - 1 \in Nat /\ x <= count - 1
    BY <1>3
  <2>2. x * z \in Nat /\ (count - 1) * z \in Nat /\ x * z <= (count - 1) * z
    BY <2>1, Products
  <2>3. PICK xz \in Nat, cz \in Nat : xz = x * z /\ cz = (count - 1) * z /\ xz <= cz
    BY <2>2
  <2>4. e >= s + cz /\ i \in Nat /\ i >= e /\ s \in Nat /\ e \in Nat /\ xz <= cz
    BY <1>2, <2>3
  <2>5. i - xz >= s
    BY <2>4
  <2> QED
    BY <2>2, <2>3, <2>5
<1> DEFINE P == {x \in Nat : x <= least - 1 => frames[i - x * z].function = frames[i].function}
<1>5. 0 \in P
  <2>1. i - 0 * z = i
    BY <1>2
  <2> QED
    BY <2>1
<1>6. \A x \in Nat : x \in P => x + 1 \in P
  <2> SUFFICES ASSUME NEW x \in Nat, x + 1 <= least - 1, frames[i - x * z].function = frames[i].function
               PROVE  frames[i - (x + 1) * z].function = frames[i].function
    BY <1>3
  <2>1. x + 1 \in 0 .. least - 1
    BY <1>3
  <2>2. i - (x + 1) * z >= s /\ (x + 1) * z \in Nat
    BY <1>4, <2>1
  <2>3. (x + 1) * z = x * z + z /\ x * z \in Nat
    BY Products
  <2>4. i - (x + 1) * z \in s .. e - 1 /\ (i - (x + 1) * z) + z = i - x * z
    BY <1>2, <2>2, <2>3
  <2>5. frames[i - (x + 1) * z].function = frames[(i - (x + 1) * z) + z].function
    BY <1>2, <2>4
  <2> QED
    BY <2>4, <2>5
<1>7. k \in P
  <2> HIDE DEF P
  <2>1. k \in Nat
    BY <1>3
  <2> QED
    BY <1>5, <1>6, <2>1, NatSetInduction
<1> QED
  BY <1>4, <1>7

\* What is marked when a recursion is found.
LEMMA MarkedLoop ==
  ASSUME frames \in Seq(Frame), NEW e \in 1 .. Len(frames), NEW z \in Nat
  PROVE  LET new == MarkLoop(e, z)
         IN /\ new \in Seq(Frame) /\ Len(new) = Len(frames) /\ DOMAIN new = 1 .. Len(frames)
            /\ \A i \in 1 .. Len(frames) :
                 /\ new[i].function = frames[i].function
                 /\ i < e => bHidden(new[i]) /\ ~new[i].id
                 /\ i >= e => (bHidden(new[i]) <=> bHidden(frames[i])) /\ (new[i].id <=> i < e + z)
<1>1. Len(frames) \in Nat /\ DOMAIN frames = 1 .. Len(frames) /\ \A i \in 1 .. Len(frames) : frames[i] \in Frame
  BY LenProperties, ElementOfSeq
<1>2. PICK new : new = MarkLoop(e, z)
  OBVIOUS
<1>3. new = [i \in 1 .. Len(frames) |->
               IF i < e THEN [frames[i] EXCEPT !.hidden = "recursion", !.id = FALSE]
               ELSE [frames[i] EXCEPT !.id = i < e + z]]
  BY <1>1, <1>2 DEF MarkLoop
<1>4. ASSUME NEW frame \in Frame
      PROVE  LET hidden == [frame EXCEPT !.hidden = "recursion", !.id = FALSE]
             IN hidden \in Frame /\ hidden.function = frame.function /\ bHidden(hidden) /\ ~hidden.id
  BY NoneAssumption DEF Frame, Reasons, bHidden
<1>5. ASSUME NEW frame \in Frame, NEW id \in BOOLEAN
      PROVE  LET marked == [frame EXCEPT !.id = id]
             IN /\ marked \in Frame /\ marked.function = frame.function
                /\ marked.hidden = frame.hidden /\ marked.id = id
  BY DEF Frame
<1>6. ASSUME NEW i \in 1 .. Len(frames)
      PROVE  /\ new[i] \in Frame /\ new[i].function = frames[i].function
             /\ i < e => bHidden(new[i]) /\ ~new[i].id
             /\ i >= e => (bHidden(new[i]) <=> bHidden(frames[i])) /\ (new[i].id <=> i < e + z)
  <2>1. CASE i < e
    <3>1. new[i] = [frames[i] EXCEPT !.hidden = "recursion", !.id = FALSE]
      BY <1>3, <2>1
    <3>2. frames[i] \in Frame
      BY <1>1
    <3>3. new[i] \in Frame /\ new[i].function = frames[i].function /\ bHidden(new[i]) /\ ~new[i].id
      BY <1>4, <3>1, <3>2
    <3> QED
      BY <2>1, <3>3
  <2>2. CASE ~(i < e)
    <3> DEFINE id == i < e + z
    <3>1. new[i] = [frames[i] EXCEPT !.id = id]
      BY <1>3, <2>2
    <3>2. frames[i] \in Frame /\ id \in BOOLEAN
      BY <1>1
    <3> HIDE DEF id
    <3>3. new[i] \in Frame /\ new[i].function = frames[i].function /\ new[i].hidden = frames[i].hidden /\ new[i].id = id
      BY <1>5, <3>1, <3>2
    <3> QED
      BY <2>2, <3>3 DEF id, bHidden
  <2> QED
    BY <2>1, <2>2
<1>7. new \in Seq(Frame) /\ Len(new) = Len(frames) /\ DOMAIN new = 1 .. Len(frames)
  <2>1. new \in [1 .. Len(frames) -> Frame]
    <3>1. new = [i \in 1 .. Len(frames) |-> new[i]]
      BY <1>3
    <3> QED
      BY <1>6, <3>1
  <2> QED
    BY <1>1, <2>1
<1> QED
  BY <1>2, <1>6, <1>7

\* The analysis of a stack overflow.
LEMMA foAnalyzeException_STATUS_STACK_OVERFLOWInv ==
  ASSUME SInv, foAnalyzeException_STATUS_STACK_OVERFLOW
  PROVE  SInv'
<1>1. /\ pc = "analyzing" /\ pc' = "retranslating" /\ translation' = 1 /\ rounds' = 0
      /\ UNCHANGED <<crash, bPartialStack, stackId>>
  BY DEF foAnalyzeException_STATUS_STACK_OVERFLOW
<1>2. TypeOK /\ HiddenInOrder(frames) /\ MarksInv /\ UnmarkedInv /\ EndInv
  BY DEF SInv
<1>3. /\ frames \in Seq(Frame) /\ Len(frames) \in Nat /\ DOMAIN frames = 1 .. Len(frames)
      /\ Len(frames) <= 2 * uMaxLinesCount
  BY <1>2, LenProperties DEF TypeOK
<1>4. UnmarkedInv' /\ TriedInv' /\ EndInv' /\ ExplainedIdStartsWithRelevantFrame'
  BY <1>1, <1>2 DEF UnmarkedInv, TriedInv, EndInv, ExplainedIdStartsWithRelevantFrame
<1>5. 1 \in 1 .. Len(aoBugTranslations) + 1 /\ 0 \in 0 .. uSanityCheckMaximumLoops
  BY RulesAreGood, Constants
<1>6. ASSUME frames' \in Seq(Frame), Len(frames') = Len(frames) PROVE RoundsInv'
  BY <1>1, <1>3, <1>6, VisibleCount DEF RoundsInv
<1>7. CASE type' \in {"OOM", "StackExhaustion"} /\ UNCHANGED <<frames, uLoopSize, bTopDownStackInId>>
  <2>1. TypeOK' /\ RoundsInv' /\ HiddenInOrder(frames')
    BY <1>1, <1>2, <1>3, <1>5, <1>6, <1>7 DEF TypeOK
  <2>2. MarksInv'
    BY <1>1, <1>2, <1>7 DEF MarksInv, UnmarkedInv, bIdFramesHaveAlreadyBeenMarked
  <2>3. RecursionRepeats'
    BY <1>7 DEF RecursionRepeats
  <2> QED
    BY <1>4, <2>1, <2>2, <2>3 DEF SInv
<1>8. CASE \E loop \in RecursionLoops :
             /\ type' = "RecursiveCall" /\ uLoopSize' = loop[2] /\ bTopDownStackInId' = TRUE
             /\ frames' = MarkLoop(LastLoopStart(loop[1], loop[2]), loop[2])
  <2>1. PICK loop \in RecursionLoops :
          /\ type' = "RecursiveCall" /\ uLoopSize' = loop[2] /\ bTopDownStackInId' = TRUE
          /\ frames' = MarkLoop(LastLoopStart(loop[1], loop[2]), loop[2])
    BY <1>8
  <2>2. /\ loop[1] \in 1 .. Len(frames) /\ loop[2] \in 1 .. uMaxStackRecursionLoopSize - 1
        /\ loop[3] \in Nat /\ loop[3] >= uMinStackRecursionLoops
        /\ \A k \in 0 .. loop[3] - 1 : Repeats(loop[1], loop[2], k)
    BY <1>3, LoopIsFound
  <2>3. PICK s \in 1 .. Len(frames) : s = loop[1]
    BY <2>2
  <2>4. PICK z \in Nat \ {0} : z = loop[2]
    BY <2>2, Constants
  <2>5. PICK count \in Nat \ {0} : count = loop[3] /\ count >= uMinStackRecursionLoops
    BY <2>2, Constants
  <2>6. PICK e : e = LastLoopStart(s, z)
    OBVIOUS
  <2>7. /\ e \in s .. Len(frames) /\ e >= s + (count - 1) * z /\ e + z - 1 <= Len(frames)
        /\ \A i \in s .. e - 1 : i + z <= Len(frames) /\ frames[i].function = frames[i + z].function
        /\ e + z <= Len(frames) => frames[e].function # frames[e + z].function
    BY <1>3, <2>2, <2>3, <2>4, <2>5, <2>6, LastStart
  <2>8. \A i \in e .. e + z - 1, k \in 0 .. uMinStackRecursionLoops - 1 :
           i - k * z >= s /\ frames[i - k * z].function = frames[i].function
    <3>1. uMinStackRecursionLoops <= count
      BY <2>5, Constants
    <3>2. \A k \in 0 .. count - 1 : Repeats(s, z, k)
      BY <2>2, <2>3, <2>4, <2>5
    <3>3. LET last == LastLoopStart(s, z)
          IN \A i \in last .. last + z - 1, k \in 0 .. uMinStackRecursionLoops - 1 :
               i - k * z >= s /\ frames[i - k * z].function = frames[i].function
      BY <1>3, <3>1, <3>2, LoopsAbove
    <3> QED
      BY <2>6, <3>3
  <2>9. e \in 1 .. Len(frames) /\ e \in Nat
    BY <1>3, <2>7
  <2>10. /\ type' = "RecursiveCall" /\ uLoopSize' = z /\ bTopDownStackInId' = TRUE /\ frames' = MarkLoop(e, z)
    BY <2>1, <2>3, <2>4, <2>6
  <2>11. /\ frames' \in Seq(Frame) /\ Len(frames') = Len(frames) /\ DOMAIN frames' = 1 .. Len(frames)
         /\ \A i \in 1 .. Len(frames) :
              /\ frames'[i].function = frames[i].function
              /\ i < e => bHidden(frames'[i]) /\ ~frames'[i].id
              /\ i >= e => (bHidden(frames'[i]) <=> bHidden(frames[i])) /\ (frames'[i].id <=> i < e + z)
    BY <1>3, <2>9, <2>10, MarkedLoop
  <2>12. TypeOK' /\ RoundsInv'
    <3>1. z \in 0 .. uMaxStackRecursionLoopSize - 1
      BY <2>2, <2>4, Constants
    <3> QED
      BY <1>1, <1>2, <1>3, <1>5, <1>6, <2>10, <2>11, <3>1 DEF TypeOK
  <2>13. HiddenInOrder(frames')
    <3> SUFFICES ASSUME NEW i \in 1 .. Len(frames), NEW j \in 1 .. Len(frames),
                        i < j, ~bHidden(frames'[i]), bHidden(frames'[j])
                 PROVE  frames'[j].function \in HiddenWhenCreated
      BY <2>11 DEF HiddenInOrder
    <3>1. ~(i < e) /\ i >= e /\ j >= e
      BY <1>3, <2>9, <2>11
    <3> QED
      BY <1>2, <2>11, <3>1 DEF HiddenInOrder
  <2>14. MarksInv'
    <3>1. e >= e /\ e < e + z /\ \A j \in 1 .. e - 1 : j \in 1 .. Len(frames) /\ j < e
      BY <1>3, <2>9
    <3>2. frames'[e].id /\ \A j \in 1 .. e - 1 : bHidden(frames'[j])
      BY <2>9, <2>11, <3>1
    <3> QED
      BY <2>9, <2>10, <2>11, <3>2 DEF MarksInv
  <2>15. RecursionRepeats'
    <3>1. {i \in DOMAIN frames' : frames'[i].id} = e .. e + z - 1
      <4>1. \A i \in 1 .. Len(frames) : frames'[i].id <=> i \in e .. e + z - 1
        BY <1>3, <2>9, <2>11
      <4>2. e .. e + z - 1 \subseteq 1 .. Len(frames)
        BY <1>3, <2>7, <2>9
      <4> QED
        BY <2>11, <4>1, <4>2
    <3>2. ASSUME NEW i \in e .. e + z - 1, NEW k \in 1 .. uMinStackRecursionLoops - 1
          PROVE  i - k * z >= 1 /\ frames'[i - k * z].function = frames'[i].function
      <4>2. k \in 0 .. uMinStackRecursionLoops - 1 /\ k \in Nat
        BY Constants
      <4>3. i - k * z >= s /\ frames[i - k * z].function = frames[i].function
        BY <4>2, <2>8
      <4>4. k * z \in Nat
        BY <4>2, Products
      <4>5. i \in 1 .. Len(frames)
        BY <1>3, <2>7, <2>9
      <4>6. i - k * z \in 1 .. Len(frames) /\ i - k * z >= 1
        <5> DEFINE kz == k * z
        <5>1. kz \in Nat /\ i - kz >= s
          BY <4>3, <4>4
        <5> HIDE DEF kz
        <5>2. i - kz \in 1 .. Len(frames) /\ i - kz >= 1
          BY <1>3, <4>5, <5>1
        <5> QED
          BY <5>2 DEF kz
      <4> QED
        BY <2>11, <4>3, <4>5, <4>6
    <3>3. e + z <= Len(frames') => frames'[e].function # frames'[e + z].function
      <4>1. e + z <= Len(frames) => e + z \in 1 .. Len(frames)
        BY <1>3, <2>9
      <4> QED
        BY <2>7, <2>9, <2>11, <4>1
    <3>4. /\ e \in DOMAIN frames' /\ {i \in DOMAIN frames' : frames'[i].id} = e .. e + uLoopSize' - 1
          /\ \A i \in e .. e + uLoopSize' - 1, k \in 1 .. uMinStackRecursionLoops - 1 :
               i - k * uLoopSize' >= 1 /\ frames'[i - k * uLoopSize'].function = frames'[i].function
          /\ e + uLoopSize' <= Len(frames') => frames'[e].function # frames'[e + uLoopSize'].function
      BY <2>9, <2>10, <2>11, <3>1, <3>2, <3>3
    <3> QED
      BY <3>4 DEF RecursionRepeats
  <2> QED
    BY <1>4, <2>12, <2>13, <2>14, <2>15 DEF SInv
<1>9. ASSUME RecursionLoops # {}
      PROVE  \E l \in RecursionLoops : \A other \in RecursionLoops : IsBetter(l, other)
  <2>1. \A l \in RecursionLoops :
          l[1] \in Nat /\ l[2] \in Nat /\ l[2] * l[3] \in Nat /\ l[2] * l[3] <= Len(frames)
    <3> SUFFICES ASSUME NEW l \in RecursionLoops
                 PROVE  l[1] \in Nat /\ l[2] \in Nat /\ l[2] * l[3] \in Nat /\ l[2] * l[3] <= Len(frames)
      OBVIOUS
    <3>1. l[1] \in 1 .. Len(frames) /\ l[2] \in 1 .. uMaxStackRecursionLoopSize - 1
      BY <1>3, LoopIsFound
    <3> QED
      BY <1>3, <3>1, LoopCovers, Constants
  <2> QED
    BY <1>3, <1>9, <2>1, BestLoop
<1> QED
  BY <1>7, <1>8, <1>9, Zenon DEF foAnalyzeException_STATUS_STACK_OVERFLOW

-----------------------------------------------------------------------------
(* The theorems.                                                           *)

LEMMA NextInv == SInv /\ [Next]_vars => SInv'
<1> SUFFICES ASSUME SInv, [Next]_vars PROVE SInv'
  OBVIOUS
<1>1. CASE foCreate
  BY <1>1, foCreateInv
<1>2. CASE Translate
  BY <1>2, TranslateInv
<1>3. CASE NotABug
  BY <1>3, NotABugInv
<1>4. CASE fApplyBugTranslationsToBugReport
  BY <1>4, fApplyBugTranslationsToBugReportInv
<1>5. CASE foAnalyzeException
  BY <1>5, foAnalyzeExceptionInv
<1>6. CASE foAnalyzeException_STATUS_STACK_OVERFLOW
  BY <1>6, foAnalyzeException_STATUS_STACK_OVERFLOWInv
<1>7. CASE fxProcessStack
  BY <1>7, fxProcessStackInv
<1>8. CASE UNCHANGED vars
  <2>1. UNCHANGED <<crash, pc, frames, bPartialStack, type, uLoopSize, bTopDownStackInId, stackId, translation, rounds>>
    BY <1>8 DEF vars, stackVars, reportVars, translationVars
  <2>2. TypeOK' /\ RoundsInv' /\ HiddenInOrder(frames')
    BY <2>1 DEF SInv, TypeOK, RoundsInv
  <2>3. MarksInv' /\ UnmarkedInv' /\ EndInv'
    BY <2>1 DEF SInv, MarksInv, UnmarkedInv, EndInv, bIdFramesHaveAlreadyBeenMarked
  <2>4. TriedInv'
    BY <2>1 DEF SInv, TriedInv, RulesFindWhatTheyHide
  <2>5. RecursionRepeats'
    BY <2>1 DEF SInv, RecursionRepeats
  <2>6. ExplainedIdStartsWithRelevantFrame'
    BY <2>1 DEF SInv, ExplainedIdStartsWithRelevantFrame, RulesFindWhatTheyHide, IdStartsWithRelevantFrame
  <2> QED
    BY <2>1, <2>2, <2>3, <2>4, <2>5, <2>6 DEF SInv
<1> QED
  BY <1>1, <1>2, <1>3, <1>4, <1>5, <1>6, <1>7, <1>8 DEF Next

LEMMA SpecInv == Spec => []SInv
BY InitInv, NextInv, PTL DEF Spec

\* Whatever is on the stack, the report has as many frames as were asked for at most, with their
\* functions, and its id as many functions as configured (cStack, fxProcessStack).
THEOREM SpecTypeOK == Spec => []TypeOK
<1>1. SInv => TypeOK
  BY DEF SInv
<1> QED
  BY <1>1, SpecInv, PTL

\* The translations come to an end before "a bug translation loop was detected"
\* (fApplyBugTranslationsToBugReport): each that is applied hides a frame or replaces a type for good.
THEOREM SpecTranslationsEnd == Spec => []TranslationsEnd
<1>1. SInv => TranslationsEnd
  <2> SUFFICES ASSUME SInv PROVE rounds < uSanityCheckMaximumLoops
    BY DEF TranslationsEnd
  <2>1. TypeOK /\ RoundsInv
    BY DEF SInv
  <2>2. frames \in Seq(Frame) /\ Len(frames) <= 2 * uMaxLinesCount /\ rounds \in Nat
    BY <2>1, Constants DEF TypeOK
  <2>3. PICK m \in {0, 1} : m = IF type \in CppTypes THEN 1 ELSE 0
    OBVIOUS
  <2>4. rounds + Cardinality(Visible(frames)) + m <= Len(frames) + 1
    BY <2>1, <2>3 DEF RoundsInv
  <2> QED
    BY <2>2, <2>4, RoundsBound
<1> QED
  BY <1>1, SpecInv, PTL

\* The id of a bug that is not a recursion starts with a relevant frame, where the rules find on the
\* stack what they hide: in whatever order the rules are tried and try again.
THEOREM SpecExplainedIdStartsWithRelevantFrame == Spec => []ExplainedIdStartsWithRelevantFrame
<1>1. SInv => ExplainedIdStartsWithRelevantFrame
  BY DEF SInv
<1> QED
  BY <1>1, SpecInv, PTL

\* The frames that identify a recursion are a loop that repeats above them as often as it must,
\* whichever loops are on the stack (foAnalyzeException_STATUS_STACK_OVERFLOW).
THEOREM SpecRecursionRepeats == Spec => []RecursionRepeats
<1>1. SInv => RecursionRepeats
  BY DEF SInv
<1> QED
  BY <1>1, SpecInv, PTL

=============================================================================
