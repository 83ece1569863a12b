--------------------------- MODULE NotebookProofs ----------------------------
(* Theorems of Notebook, for any documents, strokes, pages of the relay and *)
(* limits.                                                                 *)
(*                                                                         *)
(*  1. edits: Between finds what takes an edit back;                       *)
(*  2. several edits: a history fits a page where there is a chain of      *)
(*     pages from the oldest to the one that is there (FitsWell);          *)
(*  3. histories of several pages, and what recording, undo, redo,         *)
(*     inserting and clearing make of them;                                *)
(*  4. libraries: every page keeps its name;                               *)
(*  5. the invariant NotebookInv, action by action.                        *)
EXTENDS Notebook, SequenceTheorems, FiniteSetTheorems, WellFoundedInduction, TLAPS

-----------------------------------------------------------------------------
(* Sequences                                                               *)

(* Append keeps what is there and puts the element at the end.             *)
LEMMA AppendFacts ==
  ASSUME NEW S, NEW s \in Seq(S), NEW e \in S
  PROVE  /\ Append(s, e) \in Seq(S)
         /\ Len(Append(s, e)) = Len(s) + 1
         /\ DOMAIN Append(s, e) = 1 .. Len(s) + 1
         /\ \A i \in DOMAIN s : i \in DOMAIN Append(s, e) /\ Append(s, e)[i] = s[i]
         /\ Append(s, e)[Len(s) + 1] = e
  BY AppendProperties, LenProperties

(* Front drops the last element and Last is that element.                  *)
LEMMA FrontFacts ==
  ASSUME NEW S, NEW s \in Seq(S), s # <<>>
  PROVE  /\ Front(s) \in Seq(S)
         /\ DOMAIN Front(s) = 1 .. Len(s) - 1
         /\ \A i \in DOMAIN Front(s) : i \in DOMAIN s /\ Front(s)[i] = s[i]
         /\ Len(s) \in DOMAIN s /\ Last(s) = s[Len(s)] /\ Last(s) \in S
<1>1. Len(s) \in Nat \ {0} /\ DOMAIN s = 1 .. Len(s) /\ \A i \in 1 .. Len(s) : s[i] \in S
  BY EmptySeq, LenProperties, ElementOfSeq
<1>2. /\ Front(s) \in Seq(S)
      /\ Len(Front(s)) = Len(s) - 1
      /\ \A i \in 1 .. Len(s) - 1 : Front(s)[i] = s[i]
  BY <1>1, SubSeqProperties DEF Front
<1> QED
  BY <1>1, <1>2, LenProperties DEF Last

(* RemoveAt drops one element; the ones behind it move up by one.          *)
LEMMA RemoveAtFacts ==
  ASSUME NEW S, NEW s \in Seq(S), NEW i \in DOMAIN s
  PROVE  /\ RemoveAt(s, i) \in Seq(S)
         /\ DOMAIN RemoveAt(s, i) = 1 .. Len(s) - 1
         /\ \A j \in 1 .. Len(s) - 1 :
              RemoveAt(s, i)[j] = IF j < i THEN s[j] ELSE s[j + 1]
<1> DEFINE front == SubSeq(s, 1, i - 1)
           back  == SubSeq(s, i + 1, Len(s))
<1>1. Len(s) \in Nat /\ i \in 1 .. Len(s) /\ \A j \in 1 .. Len(s) : s[j] \in S
  BY LenProperties, ElementOfSeq
<1>2. front \in Seq(S) /\ Len(front) = i - 1 /\ \A j \in 1 .. i - 1 : front[j] = s[j]
  BY <1>1, SubSeqProperties
<1>3. back \in Seq(S) /\ Len(back) = Len(s) - i
      /\ \A j \in 1 .. Len(s) - i : back[j] = s[i + j]
  BY <1>1, SubSeqProperties
<1>4. RemoveAt(s, i) = front \o back
  BY DEF RemoveAt
<1> HIDE DEF front, back
<1>5. /\ front \o back \in Seq(S)
      /\ Len(front \o back) = Len(front) + Len(back)
      /\ \A j \in 1 .. Len(front) + Len(back) : (front \o back)[j] =
           IF j <= Len(front) THEN front[j] ELSE back[j - Len(front)]
  BY <1>2, <1>3, ConcatProperties
<1>6. Len(front) + Len(back) = Len(s) - 1
  BY <1>1, <1>2, <1>3
<1>7. ASSUME NEW j \in 1 .. Len(s) - 1
      PROVE  (front \o back)[j] = IF j < i THEN s[j] ELSE s[j + 1]
  <2>1. CASE j < i
    <3>1. (front \o back)[j] = front[j]
      BY <1>1, <1>2, <1>5, <1>6, <2>1
    <3> QED
      BY <1>1, <1>2, <2>1, <3>1
  <2>2. CASE ~(j < i)
    <3>1. (front \o back)[j] = back[j - (i - 1)]
      BY <1>1, <1>2, <1>5, <1>6, <2>2, SMTT(30)
    <3>2. j - (i - 1) \in 1 .. Len(s) - i /\ i + (j - (i - 1)) = j + 1
      BY <1>1, <2>2
    <3> QED
      BY <1>3, <2>2, <3>1, <3>2
  <2> QED
    BY <2>1, <2>2
<1>8. DOMAIN (front \o back) = 1 .. Len(s) - 1
  BY <1>5, <1>6, LenProperties
<1> QED
  BY <1>4, <1>5, <1>7, <1>8

(* What is left by RemoveAt was there before, at another place if two      *)
(* places are.                                                             *)
LEMMA RemoveAtPlaces ==
  ASSUME NEW S, NEW s \in Seq(S), NEW i \in DOMAIN s
  PROVE  \A j \in DOMAIN RemoveAt(s, i) :
           LET at == IF j < i THEN j ELSE j + 1
           IN  at \in DOMAIN s \ {i} /\ RemoveAt(s, i)[j] = s[at]
<1>1. Len(s) \in Nat /\ DOMAIN s = 1 .. Len(s)
  BY LenProperties
<1> QED
  BY <1>1, RemoveAtFacts

(* Induction: a set of numbers that holds 0 and every successor is Nat.     *)
LEMMA LeastNumber ==
  ASSUME NEW S \in SUBSET Nat, S # {}  PROVE \E m \in S : \A k \in S : m <= k
<1> DEFINE upTo(x) == {y \in S : y <= x}
           segments == {upTo(x) : x \in S}
<1>1. \A x \in S : upTo(x) \in SUBSET Nat /\ IsFiniteSet(upTo(x))
  <2> TAKE x \in S
  <2>1. x \in Nat /\ upTo(x) \in SUBSET Nat /\ \A y \in upTo(x) : y <= x
    OBVIOUS
  <2> QED
    BY <2>1, FS_BoundedSetOfNaturals
<1>2. segments \subseteq FiniteSubsetsOf(Nat) /\ segments # {}
  BY <1>1 DEF FiniteSubsetsOf
<1>3. \E s \in segments : \A r \in segments : <<r, s>> \notin StrictSubsetOrdering(Nat)
  BY <1>2, FS_StrictSubsetOrderingWellFounded, WFMin
<1>4. PICK x \in S : \A y \in S : <<upTo(y), upTo(x)>> \notin StrictSubsetOrdering(Nat)
  BY <1>3
<1>5. ASSUME NEW y \in S, y < x  PROVE FALSE
  <2>1. upTo(y) \subseteq upTo(x) /\ x \in upTo(x) /\ x \notin upTo(y)
    <3>1. x \in Nat /\ y \in Nat
      OBVIOUS
    <3>2. ASSUME NEW z \in upTo(y)  PROVE z \in upTo(x)
      BY <1>5, <3>1
    <3>3. x \in upTo(x) /\ x \notin upTo(y)
      BY <1>5, <3>1
    <3> HIDE DEF upTo
    <3> QED
      BY <3>2, <3>3
  <2>2. upTo(y) \in SUBSET Nat /\ upTo(x) \in SUBSET Nat
    BY <1>1
  <2>3. <<upTo(y), upTo(x)>> \in StrictSubsetOrdering(Nat)
    BY <1>1, <2>1, <2>2 DEF StrictSubsetOrdering, FiniteSubsetsOf
  <2> QED
    BY <1>4, <2>3
<1> QED
  BY <1>5

(* Induction over the natural numbers, for a set of them.                  *)
LEMMA InductionOnSets ==
  ASSUME NEW S \in SUBSET Nat, 0 \in S, \A n \in S : n + 1 \in S
  PROVE  S = Nat
<1>1. CASE Nat \ S # {}
  <2>1. PICK m \in Nat \ S : \A k \in Nat \ S : m <= k
    BY <1>1, LeastNumber
  <2>2. m - 1 \in S
    BY <2>1
  <2> QED
    BY <2>1, <2>2
<1> QED
  BY <1>1

(* The recursive definition that FlattenSeq is computed by.                *)
LEMMA FlattenDef ==
  ASSUME NEW S, NEW ss \in Seq(Seq(S)), ss # <<>>
  PROVE  \E f : /\ f = [i \in 1 .. Len(ss) |-> IF i = 1 THEN ss[i] ELSE f[i - 1] \o ss[i]]
                /\ FlattenSeq(ss) = f[Len(ss)]
<1> DEFINE step(f, n) == [i \in 1 .. n |-> IF i = 1 THEN ss[i] ELSE f[i - 1] \o ss[i]]
           ok == {n \in Nat : \E f : f = step(f, n)}
<1>1. 0 \in ok
  <2>1. [i \in 1 .. 0 |-> {}] = step([i \in 1 .. 0 |-> {}], 0)
    OBVIOUS
  <2> QED
    BY <2>1
<1>2. ASSUME NEW n \in ok PROVE n + 1 \in ok
  <2>1. PICK f : f = step(f, n)
    OBVIOUS
  <2> DEFINE g == [i \in 1 .. n + 1 |-> IF i = n + 1 THEN (IF i = 1 THEN ss[i] ELSE f[i - 1] \o ss[i])
                                                     ELSE f[i]]
  <2>0. n \in Nat
    OBVIOUS
  <2>2. g = step(g, n + 1)
    <3> SUFFICES ASSUME NEW i \in 1 .. n + 1  PROVE g[i] = step(g, n + 1)[i]
      OBVIOUS
    <3>1. CASE i = n + 1
      BY <3>1
    <3>2. CASE i \in 1 .. n
      <4>1. g[i] = f[i] /\ f[i] = step(f, n)[i]
        BY <2>1, <3>2
      <4>2. i # 1 => g[i - 1] = f[i - 1]
        BY <3>2
      <4> QED
        BY <3>2, <4>1, <4>2
    <3> QED
      BY <3>1, <3>2
  <2>3. \E h : h = step(h, n + 1)
    BY <2>2
  <2> HIDE DEF step
  <2> QED
    BY <2>0, <2>3
<1>3. ok = Nat
  <2> HIDE DEF ok
  <2> QED
  BY <1>1, <1>2, InductionOnSets DEF ok
<1>4. Len(ss) \in Nat \ {0}
  BY EmptySeq, LenProperties
<1>5. \E f : f = step(f, Len(ss))
  BY <1>3, <1>4
<1> DEFINE flatten == CHOOSE f : f = step(f, Len(ss))
<1>6. flatten = step(flatten, Len(ss))
  BY <1>5
<1>7. FlattenSeq(ss) = flatten[Len(ss)]
  BY <1>4 DEF FlattenSeq
<1> QED
  BY <1>6, <1>7

(* Several sequences, one after the other, are a sequence.                 *)
LEMMA FlattenIsASeq ==
  ASSUME NEW S, NEW ss \in Seq(Seq(S))
  PROVE  FlattenSeq(ss) \in Seq(S)
<1>1. CASE ss = <<>>
  <2>1. FlattenSeq(<<>>) = <<>>
    BY EmptySeq DEF FlattenSeq
  <2> QED
    BY <1>1, <2>1, EmptySeq
<1>2. CASE ss # <<>>
  <2>1. Len(ss) \in Nat \ {0} /\ \A i \in 1 .. Len(ss) : ss[i] \in Seq(S)
    BY <1>2, EmptySeq, LenProperties, ElementOfSeq
  <2>2. PICK f : /\ f = [i \in 1 .. Len(ss) |-> IF i = 1 THEN ss[i] ELSE f[i - 1] \o ss[i]]
                 /\ FlattenSeq(ss) = f[Len(ss)]
    BY <1>2, FlattenDef
  <2> DEFINE good == {n \in Nat : n + 1 \in 1 .. Len(ss) => f[n + 1] \in Seq(S)}
  <2>3. 0 \in good
    BY <2>1, <2>2
  <2>4. ASSUME NEW n \in good  PROVE n + 1 \in good
    <3> SUFFICES ASSUME (n + 1) + 1 \in 1 .. Len(ss)  PROVE f[(n + 1) + 1] \in Seq(S)
      OBVIOUS
    <3>1. n \in Nat /\ n + 1 \in 1 .. Len(ss) /\ (n + 1) + 1 # 1 /\ ((n + 1) + 1) - 1 = n + 1
      BY <2>1
    <3>2. f[n + 1] \in Seq(S) /\ ss[(n + 1) + 1] \in Seq(S)
      BY <2>1, <3>1
    <3>3. f[(n + 1) + 1] = f[n + 1] \o ss[(n + 1) + 1]
      BY <2>2, <3>1
    <3> QED
      BY <3>2, <3>3, ConcatProperties
  <2>5. good = Nat
    <3> HIDE DEF good
    <3>1. good \in SUBSET Nat
      BY DEF good
    <3> QED
      BY <2>3, <2>4, <3>1, InductionOnSets
  <2>6. Len(ss) - 1 \in Nat /\ (Len(ss) - 1) + 1 = Len(ss) /\ Len(ss) \in 1 .. Len(ss)
    BY <2>1
  <2>7. Len(ss) - 1 \in good
    <3> HIDE DEF good
    <3> QED
      BY <2>5, <2>6
  <2>8. f[Len(ss)] \in Seq(S)
    BY <2>6, <2>7
  <2> QED
    BY <2>2, <2>8
<1> QED
  BY <1>1, <1>2

-----------------------------------------------------------------------------

(* What an edit remembers.                                                 *)
Edit == [start : Nat, removed : Seq(Stroke), inserted : Seq(Stroke)]

-----------------------------------------------------------------------------
(* Edits                                                                   *)

(* The elements of a splice.                                               *)
LEMMA SpliceElements ==
  ASSUME NEW s \in Seq(Stroke), NEW start \in Nat, NEW old \in Seq(Stroke), NEW new \in Seq(Stroke),
         start + Len(old) <= Len(s)
  PROVE  /\ Spliced(s, start, old, new) \in Seq(Stroke)
         /\ Len(Spliced(s, start, old, new)) = Len(s) - Len(old) + Len(new)
         /\ \A i \in 1 .. Len(s) - Len(old) + Len(new) : Spliced(s, start, old, new)[i] =
              IF i <= start THEN s[i]
              ELSE IF i <= start + Len(new) THEN new[i - start]
              ELSE s[i - Len(new) + Len(old)]
<1> DEFINE front == SubSeq(s, 1, start)
           back  == SubSeq(s, start + Len(old) + 1, Len(s))
           both  == front \o new
<1>1. Len(s) \in Nat /\ Len(old) \in Nat /\ Len(new) \in Nat /\ \A j \in 1 .. Len(s) : s[j] \in Stroke
  BY LenProperties, ElementOfSeq
<1>2. front \in Seq(Stroke) /\ Len(front) = start /\ \A j \in 1 .. start : front[j] = s[j]
  BY <1>1, SubSeqProperties
<1>3. back \in Seq(Stroke) /\ Len(back) = Len(s) - (start + Len(old))
      /\ \A j \in 1 .. Len(s) - (start + Len(old)) : back[j] = s[start + Len(old) + j]
  BY <1>1, SubSeqProperties
<1>4. Spliced(s, start, old, new) = both \o back
  BY DEF Spliced
<1> HIDE DEF front, back
<1>5. /\ both \in Seq(Stroke) /\ Len(both) = start + Len(new)
      /\ \A j \in 1 .. start + Len(new) : both[j] = IF j <= start THEN front[j] ELSE new[j - start]
  BY <1>2, ConcatProperties
<1> HIDE DEF both
<1>9. both \in Seq(Stroke) /\ back \in Seq(Stroke)
  BY <1>3, <1>5
<1>6. /\ both \o back \in Seq(Stroke) /\ Len(both \o back) = Len(both) + Len(back)
      /\ \A j \in 1 .. Len(both) + Len(back) :
           (both \o back)[j] = IF j <= Len(both) THEN both[j] ELSE back[j - Len(both)]
  BY <1>9, ConcatProperties
<1>7. Len(both) + Len(back) = Len(s) - Len(old) + Len(new)
  BY <1>1, <1>3, <1>5
<1>8. ASSUME NEW i \in 1 .. Len(s) - Len(old) + Len(new)
      PROVE  (both \o back)[i] = IF i <= start THEN s[i]
                                 ELSE IF i <= start + Len(new) THEN new[i - start]
                                 ELSE s[i - Len(new) + Len(old)]
  <2>1. CASE i <= start
    <3>1. i \in 1 .. start /\ i \in 1 .. start + Len(new) /\ i \in 1 .. Len(both) + Len(back)
          /\ i <= Len(both)
      BY <1>1, <1>5, <1>7, <2>1
    <3>2. (both \o back)[i] = both[i] /\ both[i] = front[i] /\ front[i] = s[i]
      BY <1>2, <1>5, <1>6, <2>1, <3>1
    <3> QED
      BY <2>1, <3>2
  <2>2. CASE i > start /\ i <= start + Len(new)
    <3>1. i \in 1 .. start + Len(new) /\ i \in 1 .. Len(both) + Len(back) /\ i <= Len(both)
          /\ ~(i <= start)
      BY <1>1, <1>5, <1>7, <2>2
    <3>2. (both \o back)[i] = both[i] /\ both[i] = new[i - start]
      BY <1>5, <1>6, <3>1
    <3> QED
      BY <2>2, <3>1, <3>2
  <2>3. CASE i > start + Len(new)
    <3>0. i \in 1 .. Len(both) + Len(back) /\ ~(i <= Len(both)) /\ ~(i <= start)
          /\ ~(i <= start + Len(new))
      BY <1>1, <1>5, <1>7, <2>3
    <3>1. (both \o back)[i] = back[i - (start + Len(new))]
      BY <1>5, <1>6, <3>0
    <3>2. /\ i - (start + Len(new)) \in 1 .. Len(s) - (start + Len(old))
          /\ start + Len(old) + (i - (start + Len(new))) = i - Len(new) + Len(old)
      BY <1>1, <2>3
    <3> QED
      BY <1>3, <3>0, <3>1, <3>2
  <2>4. i \in Int /\ start \in Int /\ Len(new) \in Int
    BY <1>1
  <2>5. i <= start \/ (i > start /\ i <= start + Len(new)) \/ i > start + Len(new)
    BY <2>4
  <2> QED
    BY <2>1, <2>2, <2>3, <2>5
<1> QED
  BY <1>4, <1>6, <1>7, <1>8

(* A place of a sequence matches what is there.                            *)
LEMMA MatchElements ==
  ASSUME NEW s \in Seq(Stroke), NEW start \in Nat, NEW old \in Seq(Stroke)
  PROVE  Matches(s, start, old) <=>
           /\ start + Len(old) <= Len(s)
           /\ \A j \in 1 .. Len(old) : s[start + j] = old[j]
<1>1. Len(s) \in Nat /\ Len(old) \in Nat /\ \A j \in 1 .. Len(s) : s[j] \in Stroke
  BY LenProperties, ElementOfSeq
<1>2. CASE start + Len(old) <= Len(s)
  <2> DEFINE part == SubSeq(s, start + 1, start + Len(old))
  <2>1. \A i \in start + 1 .. start + Len(old) : s[i] \in Stroke
    BY <1>1, <1>2
  <2>2. /\ part \in Seq(Stroke) /\ Len(part) = Len(old)
        /\ \A j \in 1 .. Len(old) : part[j] = s[start + j]
    BY <1>1, <1>2, <2>1, SubSeqProperties
  <2> HIDE DEF part
  <2>3. part = old <=> \A j \in 1 .. Len(old) : part[j] = old[j]
    BY <1>1, <2>2, SeqEqual
  <2> QED
    BY <1>2, <2>2, <2>3 DEF Matches, part
<1>3. CASE ~(start + Len(old) <= Len(s))
  BY <1>3 DEF Matches
<1> QED
  BY <1>2, <1>3

(* A splice is taken back by the inverse one.                              *)
LEMMA SpliceIsReversible ==
  ASSUME NEW s \in Seq(Stroke), NEW start \in Nat, NEW old \in Seq(Stroke), NEW new \in Seq(Stroke),
         Matches(s, start, old)
  PROVE  LET t == Spliced(s, start, old, new)
         IN  t \in Seq(Stroke) /\ Matches(t, start, new) /\ Spliced(t, start, new, old) = s
<1> DEFINE t == Spliced(s, start, old, new)
           u == Spliced(t, start, new, old)
<1>1. Len(s) \in Nat /\ Len(old) \in Nat /\ Len(new) \in Nat
  BY LenProperties
<1>2. start + Len(old) <= Len(s) /\ \A j \in 1 .. Len(old) : s[start + j] = old[j]
  BY MatchElements
<1>3. /\ t \in Seq(Stroke) /\ Len(t) = Len(s) - Len(old) + Len(new)
      /\ \A i \in 1 .. Len(s) - Len(old) + Len(new) : t[i] =
           IF i <= start THEN s[i]
           ELSE IF i <= start + Len(new) THEN new[i - start]
           ELSE s[i - Len(new) + Len(old)]
  BY <1>2, SpliceElements
<1>4. start + Len(new) <= Len(t)
  BY <1>1, <1>2, <1>3
<1> HIDE DEF t
<1>5. Matches(t, start, new)
  <2>1. ASSUME NEW j \in 1 .. Len(new)  PROVE t[start + j] = new[j]
    <3>1. /\ start + j \in 1 .. Len(s) - Len(old) + Len(new)
          /\ ~(start + j <= start) /\ start + j <= start + Len(new) /\ start + j - start = j
      BY <1>1, <1>2
    <3> QED
      BY <1>3, <3>1
  <2> QED
    BY <1>3, <1>4, <2>1, MatchElements
<1>6. /\ u \in Seq(Stroke) /\ Len(u) = Len(t) - Len(new) + Len(old)
      /\ \A i \in 1 .. Len(t) - Len(new) + Len(old) : u[i] =
           IF i <= start THEN t[i]
           ELSE IF i <= start + Len(old) THEN old[i - start]
           ELSE t[i - Len(old) + Len(new)]
  BY <1>3, <1>4, SpliceElements
<1> HIDE DEF u
<1>7. Len(t) - Len(new) + Len(old) = Len(s)
  BY <1>1, <1>3
<1>8. ASSUME NEW i \in 1 .. Len(s)  PROVE u[i] = s[i]
  <2>1. CASE i <= start
    <3>1. i \in 1 .. Len(s) - Len(old) + Len(new)
      BY <1>1, <1>2, <2>1
    <3> QED
      BY <1>3, <1>6, <1>7, <2>1, <3>1
  <2>2. CASE i > start /\ i <= start + Len(old)
    <3>1. i - start \in 1 .. Len(old) /\ start + (i - start) = i /\ ~(i <= start)
      BY <1>1, <2>2
    <3> QED
      BY <1>2, <1>6, <1>7, <2>2, <3>1
  <2>3. CASE i > start + Len(old)
    <3>1. /\ i - Len(old) + Len(new) \in 1 .. Len(s) - Len(old) + Len(new)
          /\ ~(i - Len(old) + Len(new) <= start) /\ ~(i - Len(old) + Len(new) <= start + Len(new))
          /\ (i - Len(old) + Len(new)) - Len(new) + Len(old) = i
          /\ ~(i <= start) /\ ~(i <= start + Len(old))
      BY <1>1, <2>3
    <3>2. u[i] = t[i - Len(old) + Len(new)]
      BY <1>6, <1>7, <3>1
    <3> QED
      BY <1>3, <3>1, <3>2
  <2> QED
    BY <1>1, <2>1, <2>2, <2>3
<1>9. u = s
  BY <1>6, <1>7, <1>8, SeqEqual
<1> QED
  BY <1>3, <1>5, <1>9 DEF t, u

(* The greatest of a bounded set of numbers, and the smaller of two.       *)
LEMMA GreatestNumber ==
  ASSUME NEW S \in SUBSET Nat, S # {}, NEW b \in Nat, \A k \in S : k <= b
  PROVE  Max(S) \in S /\ \A k \in S : Max(S) >= k
<1> DEFINE T == {d \in Nat : d <= b /\ b - d \in S}
<1>1. T \in SUBSET Nat /\ T # {}
  <2>1. PICK k \in S : TRUE
    OBVIOUS
  <2>2. b - k \in T
    <3>1. k \in Nat /\ k <= b
      OBVIOUS
    <3>2. b - k \in Nat /\ b - k <= b /\ b - (b - k) = k
      BY <3>1
    <3> QED
      BY <3>2
  <2> QED
    BY <2>2
<1>2. PICK m \in T : \A d \in T : m <= d
  BY <1>1, LeastNumber
<1>3. b - m \in S
  BY <1>2
<1>4. ASSUME NEW k \in S  PROVE b - m >= k
  <2>1. k \in Nat /\ k <= b
    OBVIOUS
  <2>2. b - k \in T
    <3>2. b - k \in Nat /\ b - k <= b /\ b - (b - k) = k
      BY <2>1
    <3> QED
      BY <3>2
  <2>3. m <= b - k /\ m \in Nat
    BY <1>2, <2>2
  <2> QED
    BY <2>1, <2>3
<1>5. \E x \in S : \A y \in S : x >= y
  BY <1>3, <1>4
<1> QED
  BY <1>5 DEF Max

(* The smaller of two numbers.                                             *)
LEMMA SmallerNumber ==
  ASSUME NEW a \in Nat, NEW b \in Nat
  PROVE  Min({a, b}) \in Nat /\ Min({a, b}) <= a /\ Min({a, b}) <= b
<1>1. \E x \in {a, b} : \A y \in {a, b} : x =< y
  <2>1. CASE a <= b
    BY <2>1
  <2>2. CASE b <= a
    BY <2>2
  <2> QED
    BY <2>1, <2>2
<1>2. Min({a, b}) \in {a, b} /\ \A y \in {a, b} : Min({a, b}) =< y
  BY <1>1 DEF Min
<1> QED
  BY <1>2

(* Two sequences agree up to their common prefix.                          *)
LEMMA PrefixFacts ==
  ASSUME NEW s \in Seq(Stroke), NEW t \in Seq(Stroke)
  PROVE  LET p == CommonPrefix(s, t)
         IN  p \in Nat /\ p <= Len(s) /\ p <= Len(t) /\ \A i \in 1 .. p : s[i] = t[i]
<1> DEFINE b == Min({Len(s), Len(t)})
           S == {k \in 0 .. b : SubSeq(s, 1, k) = SubSeq(t, 1, k)}
           p == Max(S)
<1>1. /\ Len(s) \in Nat /\ Len(t) \in Nat
      /\ \A j \in 1 .. Len(s) : s[j] \in Stroke
      /\ \A j \in 1 .. Len(t) : t[j] \in Stroke
  BY LenProperties, ElementOfSeq
<1>2. b \in Nat /\ b <= Len(s) /\ b <= Len(t)
  BY <1>1, SmallerNumber
<1>3. CommonPrefix(s, t) = p
  BY DEF CommonPrefix
<1> HIDE DEF b
<1>4. 0 \in S
  BY <1>2, SubSeqEmpty
<1>5. S \in SUBSET Nat /\ \A k \in S : k <= b
  BY <1>2
<1> HIDE DEF S
<1>6. p \in S
  BY <1>2, <1>4, <1>5, GreatestNumber
<1>7. p \in 0 .. b /\ SubSeq(s, 1, p) = SubSeq(t, 1, p)
  BY <1>6 DEF S
<1> HIDE DEF p
<1>8. p \in Nat /\ p <= Len(s) /\ p <= Len(t)
  BY <1>1, <1>2, <1>7
<1>9. ASSUME NEW i \in 1 .. p  PROVE s[i] = t[i]
  <2>1. \A j \in 1 .. p : s[j] \in Stroke /\ t[j] \in Stroke
    BY <1>1, <1>8
  <2>2. i \in 1 .. p - 1 + 1 /\ 1 + i - 1 = i
    BY <1>8
  <2>3. SubSeq(s, 1, p)[i] = s[i]
    BY <1>8, <2>1, <2>2, SubSeqProperties
  <2>4. SubSeq(t, 1, p)[i] = t[i]
    BY <1>8, <2>1, <2>2, SubSeqProperties
  <2> QED
    BY <1>7, <2>3, <2>4
<1> QED
  BY <1>3, <1>8, <1>9

(* They agree in their common suffix, which leaves room for the prefix.    *)
LEMMA SuffixFacts ==
  ASSUME NEW s \in Seq(Stroke), NEW t \in Seq(Stroke), NEW p \in Nat, p <= Len(s), p <= Len(t)
  PROVE  LET q == CommonSuffix(s, t, p)
         IN  /\ q \in Nat /\ p + q <= Len(s) /\ p + q <= Len(t)
             /\ \A i \in 1 .. q : s[Len(s) - q + i] = t[Len(t) - q + i]
<1> DEFINE b == Min({Len(s), Len(t)})
           S == {k \in 0 .. b - p : SubSeq(s, Len(s) - k + 1, Len(s)) = SubSeq(t, Len(t) - k + 1, Len(t))}
           q == Max(S)
<1>1. /\ Len(s) \in Nat /\ Len(t) \in Nat
      /\ \A j \in 1 .. Len(s) : s[j] \in Stroke
      /\ \A j \in 1 .. Len(t) : t[j] \in Stroke
  BY LenProperties, ElementOfSeq
<1>2. b \in Nat /\ b <= Len(s) /\ b <= Len(t) /\ p <= b
  <2>1. Min({Len(s), Len(t)}) \in {Len(s), Len(t)}
    <3>1. \E x \in {Len(s), Len(t)} : \A y \in {Len(s), Len(t)} : x =< y
      <4>1. CASE Len(s) <= Len(t)
        BY <1>1, <4>1
      <4>2. CASE Len(t) <= Len(s)
        BY <1>1, <4>2
      <4> QED
        BY <1>1, <4>1, <4>2
    <3> QED
      BY <3>1 DEF Min
  <2> QED
    BY <1>1, <2>1, SmallerNumber
<1>3. CommonSuffix(s, t, p) = q
  BY DEF CommonSuffix
<1> HIDE DEF b
<1>4. 0 \in S
  <2>1. /\ SubSeq(s, Len(s) - 0 + 1, Len(s)) = << >> /\ SubSeq(t, Len(t) - 0 + 1, Len(t)) = << >>
    BY <1>1, SubSeqEmpty
  <2>2. 0 \in 0 .. b - p
    BY <1>2
  <2> QED
    BY <2>1, <2>2
<1>5. S \in SUBSET Nat /\ \A k \in S : k <= b - p
  BY <1>2
<1>6. b - p \in Nat
  BY <1>2
<1> HIDE DEF S
<1>7. q \in S
  BY <1>4, <1>5, <1>6, GreatestNumber
<1>8. /\ q \in 0 .. b - p
      /\ SubSeq(s, Len(s) - q + 1, Len(s)) = SubSeq(t, Len(t) - q + 1, Len(t))
  BY <1>7 DEF S
<1> HIDE DEF q
<1>9. q \in Nat /\ p + q <= Len(s) /\ p + q <= Len(t)
  BY <1>1, <1>2, <1>8
<1>10. ASSUME NEW i \in 1 .. q  PROVE s[Len(s) - q + i] = t[Len(t) - q + i]
  <2>1. /\ \A j \in Len(s) - q + 1 .. Len(s) : s[j] \in Stroke
        /\ \A j \in Len(t) - q + 1 .. Len(t) : t[j] \in Stroke
    BY <1>1, <1>9
  <2>2. /\ i \in 1 .. Len(s) - (Len(s) - q + 1) + 1 /\ (Len(s) - q + 1) + i - 1 = Len(s) - q + i
        /\ i \in 1 .. Len(t) - (Len(t) - q + 1) + 1 /\ (Len(t) - q + 1) + i - 1 = Len(t) - q + i
    BY <1>1, <1>9
  <2>5. Len(s) - q + 1 \in Int /\ Len(t) - q + 1 \in Int /\ Len(s) \in Int /\ Len(t) \in Int
    BY <1>1, <1>9
  <2>3. SubSeq(s, Len(s) - q + 1, Len(s))[i] = s[Len(s) - q + i]
    BY <2>5, <2>1, <2>2, SubSeqProperties
  <2>4. SubSeq(t, Len(t) - q + 1, Len(t))[i] = t[Len(t) - q + i]
    BY <2>5, <2>1, <2>2, SubSeqProperties
  <2> QED
    BY <1>8, <2>3, <2>4
<1> QED
  BY <1>3, <1>9, <1>10

(* What an edit remembers of a page before and after it takes it back.     *)
LEMMA BetweenFacts ==
  ASSUME NEW s \in Seq(Stroke), NEW t \in Seq(Stroke)
  PROVE  LET r == Between(s, t)
         IN  r \in Edit /\ Reversible(t, r) /\ Reversed(t, r) = s
<1> DEFINE p == CommonPrefix(s, t)
           q == CommonSuffix(s, t, p)
           removed  == SubSeq(s, p + 1, Len(s) - q)
           inserted == SubSeq(t, p + 1, Len(t) - q)
           u == Spliced(t, p, inserted, removed)
<1>1. /\ Len(s) \in Nat /\ Len(t) \in Nat
      /\ \A j \in 1 .. Len(s) : s[j] \in Stroke
      /\ \A j \in 1 .. Len(t) : t[j] \in Stroke
  BY LenProperties, ElementOfSeq
<1>2. Between(s, t) = [start |-> p, removed |-> removed, inserted |-> inserted]
  BY DEF Between
<1>3. p \in Nat /\ p <= Len(s) /\ p <= Len(t) /\ \A i \in 1 .. p : s[i] = t[i]
  BY PrefixFacts
<1> HIDE DEF p
<1>4. /\ q \in Nat /\ p + q <= Len(s) /\ p + q <= Len(t)
      /\ \A i \in 1 .. q : s[Len(s) - q + i] = t[Len(t) - q + i]
  BY <1>3, SuffixFacts
<1> HIDE DEF q
<1>5. /\ removed \in Seq(Stroke) /\ Len(removed) = Len(s) - q - p
      /\ \A j \in 1 .. Len(s) - q - p : removed[j] = s[p + j]
  <2>1. \A j \in p + 1 .. Len(s) - q : s[j] \in Stroke
    BY <1>1, <1>3, <1>4
  <2>2. p + 1 \in Int /\ Len(s) - q \in Int
    BY <1>1, <1>3, <1>4
  <2>3. /\ removed \in Seq(Stroke)
        /\ Len(removed) = IF p + 1 <= Len(s) - q THEN (Len(s) - q) - (p + 1) + 1 ELSE 0
        /\ \A j \in 1 .. (Len(s) - q) - (p + 1) + 1 : removed[j] = s[(p + 1) + j - 1]
    BY <2>1, <2>2, SubSeqProperties
  <2> HIDE DEF removed
  <2> QED
    BY <1>1, <1>3, <1>4, <2>3
<1>6. /\ inserted \in Seq(Stroke) /\ Len(inserted) = Len(t) - q - p
      /\ \A j \in 1 .. Len(t) - q - p : inserted[j] = t[p + j]
  <2>1. \A j \in p + 1 .. Len(t) - q : t[j] \in Stroke
    BY <1>1, <1>3, <1>4
  <2>2. p + 1 \in Int /\ Len(t) - q \in Int
    BY <1>1, <1>3, <1>4
  <2>3. /\ inserted \in Seq(Stroke)
        /\ Len(inserted) = IF p + 1 <= Len(t) - q THEN (Len(t) - q) - (p + 1) + 1 ELSE 0
        /\ \A j \in 1 .. (Len(t) - q) - (p + 1) + 1 : inserted[j] = t[(p + 1) + j - 1]
    BY <2>1, <2>2, SubSeqProperties
  <2> HIDE DEF inserted
  <2> QED
    BY <1>1, <1>3, <1>4, <2>3
<1> HIDE DEF removed, inserted
<1>7. p + Len(inserted) <= Len(t)
  BY <1>1, <1>3, <1>4, <1>6
<1>8. Matches(t, p, inserted)
  BY <1>3, <1>6, <1>7, MatchElements
<1>14. p \in Nat /\ removed \in Seq(Stroke) /\ inserted \in Seq(Stroke)
  BY <1>3, <1>5, <1>6
<1>9. /\ u \in Seq(Stroke) /\ Len(u) = Len(t) - Len(inserted) + Len(removed)
      /\ \A i \in 1 .. Len(t) - Len(inserted) + Len(removed) : u[i] =
           IF i <= p THEN t[i]
           ELSE IF i <= p + Len(removed) THEN removed[i - p]
           ELSE t[i - Len(removed) + Len(inserted)]
  BY <1>7, <1>14, SpliceElements
<1> HIDE DEF u
<1>13. /\ Len(s) \in Nat /\ Len(t) \in Nat /\ p \in Nat /\ q \in Nat
       /\ p + q <= Len(s) /\ p + q <= Len(t)
       /\ Len(removed) = Len(s) - q - p /\ Len(inserted) = Len(t) - q - p
  BY <1>1, <1>3, <1>4, <1>5, <1>6
<1>10. Len(t) - Len(inserted) + Len(removed) = Len(s)
  BY <1>13
<1>11. ASSUME NEW i \in 1 .. Len(s)  PROVE u[i] = s[i]
  <2>1. CASE i <= p
    <3>1. i \in 1 .. p
      BY <1>13, <2>1
    <3> QED
      BY <1>3, <1>9, <1>10, <2>1, <3>1
  <2>2. CASE i > p /\ i <= p + Len(removed)
    <3>1. i - p \in 1 .. Len(s) - q - p /\ p + (i - p) = i /\ ~(i <= p)
      BY <1>13, <2>2
    <3> QED
      BY <1>5, <1>9, <1>10, <2>2, <3>1
  <2>3. CASE i > p + Len(removed)
    <3>1. /\ ~(i <= p) /\ ~(i <= p + Len(removed))
          /\ i - Len(removed) + Len(inserted) = Len(t) - q + (i - Len(s) + q)
          /\ i - Len(s) + q \in 1 .. q /\ Len(s) - q + (i - Len(s) + q) = i
      BY <1>13, <2>3
    <3>2. u[i] = t[i - Len(removed) + Len(inserted)]
      BY <1>9, <1>10, <3>1
    <3> QED
      BY <1>4, <3>1, <3>2
  <2>4. i \in Int /\ p \in Int /\ Len(removed) \in Int
    BY <1>1, <1>3, <1>4, <1>5
  <2>5. i <= p \/ (i > p /\ i <= p + Len(removed)) \/ i > p + Len(removed)
    BY <2>4
  <2> QED
    BY <2>1, <2>2, <2>3, <2>5
<1>12. u = s
  BY <1>9, <1>10, <1>11, SeqEqual
<1> QED
  BY <1>2, <1>3, <1>5, <1>6, <1>8, <1>12 DEF Edit, Reversible, Reversed, u

-----------------------------------------------------------------------------
(* Several edits                                                           *)

(* The pages between the edits: ps[k] is the page after the first k.       *)
Chain(ps, edits) ==
  /\ ps \in [0 .. Len(edits) -> Seq(Stroke)]
  /\ \A k \in 1 .. Len(edits) : Reversible(ps[k], edits[k]) /\ Reversed(ps[k], edits[k]) = ps[k - 1]
Replays(s, edits) == \E ps : Chain(ps, edits) /\ ps[Len(edits)] = s

Inverses(edits) == [k \in DOMAIN edits |-> Inverted(edits[k])]
FitsWell(s, h)  == Replays(s, h.undo) /\ Replays(s, Inverses(h.redo))

(* Nothing is taken back from any page.                                    *)
LEMMA ReplaysNothing ==
  ASSUME NEW s \in Seq(Stroke)
  PROVE  Replays(s, << >>)
<1>1. Len(<< >>) = 0
  BY EmptySeq
<1>2. Chain([k \in 0 .. 0 |-> s], << >>)
  BY <1>1 DEF Chain
<1>3. [k \in 0 .. 0 |-> s][0] = s
  OBVIOUS
<1> QED
  BY <1>1, <1>2, <1>3 DEF Replays

(* One edit more.                                                          *)
LEMMA ReplaysAppend ==
  ASSUME NEW s, NEW edits \in Seq(Edit), Replays(s, edits), NEW e \in Edit,
         NEW t \in Seq(Stroke), Reversible(t, e), Reversed(t, e) = s
  PROVE  Replays(t, Append(edits, e))
<1>1. PICK ps : Chain(ps, edits) /\ ps[Len(edits)] = s
  BY DEF Replays
<1> DEFINE more == Append(edits, e)
           n == Len(edits)
           qs == [k \in 0 .. n + 1 |-> IF k = n + 1 THEN t ELSE ps[k]]
<1>2. /\ n \in Nat /\ Len(more) = n + 1 /\ more[n + 1] = e
      /\ \A k \in 1 .. n : more[k] = edits[k]
  BY AppendFacts, LenProperties
<1> HIDE DEF more
<1>7. ps \in [0 .. n -> Seq(Stroke)]
  BY <1>1 DEF Chain
<1> HIDE DEF n
<1>8. n \in Nat /\ \A k \in 0 .. n + 1 : k # n + 1 => k \in 0 .. n
  BY <1>2
<1>3. qs \in [0 .. n + 1 -> Seq(Stroke)]
  BY <1>7, <1>8
<1>4. qs[n + 1] = t /\ \A k \in 0 .. n : qs[k] = ps[k]
  BY <1>8
<1> HIDE DEF qs
<1>5. ASSUME NEW k \in 1 .. n + 1
      PROVE  Reversible(qs[k], more[k]) /\ Reversed(qs[k], more[k]) = qs[k - 1]
  <2>1. CASE k = n + 1
    <3>1. k - 1 = n /\ n \in 0 .. n
      BY <1>2, <2>1
    <3>2. ps[n] = s
      BY <1>1 DEF n
    <3>3. qs[k] = t /\ more[k] = e /\ qs[k - 1] = s
      BY <1>2, <1>4, <2>1, <3>1, <3>2
    <3> QED
      BY <3>3
  <2>2. CASE k \in 1 .. n
    <3>1. k \in 0 .. n /\ k - 1 \in 0 .. n
      BY <1>2, <2>2
    <3>2. Reversible(ps[k], edits[k]) /\ Reversed(ps[k], edits[k]) = ps[k - 1]
      BY <1>1, <2>2 DEF Chain, n
    <3>3. qs[k] = ps[k] /\ more[k] = edits[k] /\ qs[k - 1] = ps[k - 1]
      BY <1>2, <1>4, <2>2, <3>1
    <3> QED
      BY <3>2, <3>3
  <2> QED
    BY <1>2, <2>1, <2>2
<1>6. Chain(qs, more) /\ qs[Len(more)] = t
  BY <1>2, <1>3, <1>4, <1>5 DEF Chain
<1> QED
  BY <1>6 DEF Replays, more

(* One edit less, from the end.                                            *)
LEMMA ReplaysFront ==
  ASSUME NEW s, NEW edits \in Seq(Edit), Replays(s, edits), edits # << >>
  PROVE  /\ s \in Seq(Stroke) /\ Reversible(s, Last(edits))
         /\ Replays(Reversed(s, Last(edits)), Front(edits))
<1>1. PICK ps : Chain(ps, edits) /\ ps[Len(edits)] = s
  BY DEF Replays
<1> DEFINE n == Len(edits)
           less == Front(edits)
           qs == [k \in 0 .. n - 1 |-> ps[k]]
<1>2. /\ n \in Nat \ {0} /\ Last(edits) = edits[n]
      /\ Len(less) = n - 1 /\ \A k \in 1 .. n - 1 : less[k] = edits[k]
  <2>1. n \in Nat \ {0}
    BY EmptySeq
  <2>2. less \in Seq(Edit) /\ DOMAIN less = 1 .. n - 1 /\ \A k \in DOMAIN less : less[k] = edits[k]
    BY FrontFacts
  <2>3. Len(less) = n - 1
    BY <2>1, <2>2, LenProperties
  <2> QED
    BY <2>1, <2>2, <2>3 DEF Last
<1> HIDE DEF less
<1>3. ps \in [0 .. n -> Seq(Stroke)]
  BY <1>1 DEF Chain
<1>4. qs \in [0 .. n - 1 -> Seq(Stroke)] /\ \A k \in 0 .. n - 1 : qs[k] = ps[k]
  BY <1>2, <1>3
<1> HIDE DEF qs
<1>5. n \in 1 .. n /\ n \in 0 .. n
  BY <1>2
<1>6. s \in Seq(Stroke) /\ Reversible(s, edits[n]) /\ Reversed(s, edits[n]) = ps[n - 1]
  BY <1>1, <1>3, <1>5 DEF Chain
<1>7. ASSUME NEW k \in 1 .. n - 1
      PROVE  Reversible(qs[k], less[k]) /\ Reversed(qs[k], less[k]) = qs[k - 1]
  <2>1. k \in 1 .. n /\ k \in 0 .. n - 1 /\ k - 1 \in 0 .. n - 1
    BY <1>2
  <2>2. Reversible(ps[k], edits[k]) /\ Reversed(ps[k], edits[k]) = ps[k - 1]
    BY <1>1, <2>1 DEF Chain
  <2> QED
    BY <1>2, <1>4, <2>1, <2>2
<1>8. Chain(qs, less) /\ qs[Len(less)] = ps[n - 1]
  <2>1. n - 1 \in 0 .. n - 1
    BY <1>2
  <2> QED
    BY <1>2, <1>4, <1>7, <2>1 DEF Chain
<1> QED
  BY <1>2, <1>6, <1>8 DEF Replays, less

(* One edit less, from the beginning.                                      *)
LEMMA ReplaysTail ==
  ASSUME NEW s, NEW edits \in Seq(Edit), Replays(s, edits), edits # << >>
  PROVE  Replays(s, Tail(edits))
<1>1. PICK ps : Chain(ps, edits) /\ ps[Len(edits)] = s
  BY DEF Replays
<1> DEFINE n == Len(edits)
           less == Tail(edits)
           qs == [k \in 0 .. n - 1 |-> ps[k + 1]]
<1>2. /\ n \in Nat \ {0} /\ Len(less) = n - 1 /\ \A k \in 1 .. n - 1 : less[k] = edits[k + 1]
  BY EmptySeq, HeadTailProperties
<1> HIDE DEF less
<1>3. ps \in [0 .. n -> Seq(Stroke)]
  BY <1>1 DEF Chain
<1>4. qs \in [0 .. n - 1 -> Seq(Stroke)] /\ \A k \in 0 .. n - 1 : qs[k] = ps[k + 1]
  BY <1>2, <1>3
<1> HIDE DEF qs
<1>7. ASSUME NEW k \in 1 .. n - 1
      PROVE  Reversible(qs[k], less[k]) /\ Reversed(qs[k], less[k]) = qs[k - 1]
  <2>1. k + 1 \in 1 .. n /\ k \in 0 .. n - 1 /\ k - 1 \in 0 .. n - 1 /\ (k - 1) + 1 = k /\ (k + 1) - 1 = k
    BY <1>2
  <2>2. Reversible(ps[k + 1], edits[k + 1]) /\ Reversed(ps[k + 1], edits[k + 1]) = ps[(k + 1) - 1]
    BY <1>1, <2>1 DEF Chain
  <2> QED
    BY <1>2, <1>4, <2>1, <2>2
<1>8. Chain(qs, less) /\ qs[Len(less)] = ps[n]
  <2>1. n - 1 \in 0 .. n - 1 /\ (n - 1) + 1 = n
    BY <1>2
  <2> QED
    BY <1>2, <1>4, <1>7, <2>1 DEF Chain
<1> QED
  BY <1>1, <1>8 DEF Replays, less

(* Inverting edits.                                                        *)
LEMMA InversesFacts ==
  ASSUME NEW edits \in Seq(Edit)
  PROVE  /\ Inverses(edits) \in Seq(Edit) /\ Len(Inverses(edits)) = Len(edits)
         /\ \A k \in 1 .. Len(edits) : Inverses(edits)[k] = Inverted(edits[k])
<1>1. Len(edits) \in Nat /\ DOMAIN edits = 1 .. Len(edits) /\ \A k \in 1 .. Len(edits) : edits[k] \in Edit
  BY LenProperties, ElementOfSeq
<1>2. \A k \in 1 .. Len(edits) : Inverted(edits[k]) \in Edit
  BY <1>1 DEF Inverted, Edit
<1>3. Inverses(edits) = [k \in 1 .. Len(edits) |-> Inverted(edits[k])]
  BY <1>1 DEF Inverses
<1>4. [k \in 1 .. Len(edits) |-> Inverted(edits[k])] \in Seq(Edit)
  BY <1>1, <1>2, IsASeq
<1> QED
  BY <1>1, <1>3, <1>4, LenProperties

(* Inverting one edit more.                                                *)
LEMMA InversesAppend ==
  ASSUME NEW edits \in Seq(Edit), NEW e \in Edit
  PROVE  Inverses(Append(edits, e)) = Append(Inverses(edits), Inverted(e))
<1> DEFINE more == Append(edits, e)
           a == Inverses(more)
           inverses == Inverses(edits)
           b == Append(inverses, Inverted(e))
<1>1. /\ Len(edits) \in Nat /\ more \in Seq(Edit) /\ Len(more) = Len(edits) + 1
      /\ more[Len(edits) + 1] = e /\ \A k \in 1 .. Len(edits) : more[k] = edits[k]
  BY AppendFacts, LenProperties
<1> HIDE DEF more
<1>2. /\ a \in Seq(Edit) /\ Len(a) = Len(edits) + 1
      /\ \A k \in 1 .. Len(edits) + 1 : a[k] = Inverted(more[k])
  BY <1>1, InversesFacts
<1>3. Inverted(e) \in Edit
  BY DEF Inverted, Edit
<1>4. /\ inverses \in Seq(Edit) /\ Len(inverses) = Len(edits)
      /\ \A k \in 1 .. Len(edits) : inverses[k] = Inverted(edits[k])
  BY InversesFacts
<1> HIDE DEF a, inverses
<1>5. /\ b \in Seq(Edit) /\ Len(b) = Len(edits) + 1 /\ b[Len(edits) + 1] = Inverted(e)
      /\ \A k \in 1 .. Len(edits) : b[k] = inverses[k]
  BY <1>3, <1>4, AppendFacts, LenProperties
<1> HIDE DEF b
<1>6. ASSUME NEW k \in 1 .. Len(edits) + 1  PROVE a[k] = b[k]
  <2>1. CASE k \in 1 .. Len(edits)
    BY <1>1, <1>2, <1>4, <1>5, <2>1
  <2>2. CASE k = Len(edits) + 1
    BY <1>1, <1>2, <1>5, <2>2
  <2> QED
    BY <1>1, <2>1, <2>2
<1>7. a = b
  BY <1>2, <1>5, <1>6, SeqEqual
<1> QED
  BY <1>7 DEF a, b, more, inverses

(* Inverting one edit less.                                                *)
LEMMA InversesFront ==
  ASSUME NEW edits \in Seq(Edit), edits # << >>
  PROVE  /\ Inverses(edits) # << >> /\ Last(Inverses(edits)) = Inverted(Last(edits))
         /\ Front(Inverses(edits)) = Inverses(Front(edits))
<1> DEFINE inverses == Inverses(edits)
           less == Front(edits)
           a == Front(inverses)
           b == Inverses(less)
           n == Len(edits)
<1>1. /\ n \in Nat \ {0} /\ less \in Seq(Edit) /\ Len(less) = n - 1
      /\ \A k \in 1 .. n - 1 : less[k] = edits[k]
  <2>1. n \in Nat \ {0}
    BY EmptySeq
  <2>2. less \in Seq(Edit) /\ DOMAIN less = 1 .. n - 1 /\ \A k \in DOMAIN less : less[k] = edits[k]
    BY FrontFacts
  <2> QED
    BY <2>1, <2>2, LenProperties
<1>2. /\ inverses \in Seq(Edit) /\ Len(inverses) = n
      /\ \A k \in 1 .. n : inverses[k] = Inverted(edits[k])
  BY InversesFacts
<1> HIDE DEF less, inverses
<1>3. inverses # << >>
  BY <1>1, <1>2, EmptySeq
<1>4. /\ a \in Seq(Edit) /\ Len(a) = n - 1 /\ \A k \in 1 .. n - 1 : a[k] = inverses[k]
  <2>1. a \in Seq(Edit) /\ DOMAIN a = 1 .. n - 1 /\ \A k \in DOMAIN a : a[k] = inverses[k]
    BY <1>2, <1>3, FrontFacts
  <2> QED
    BY <1>1, <2>1, LenProperties
<1>5. /\ b \in Seq(Edit) /\ Len(b) = n - 1 /\ \A k \in 1 .. n - 1 : b[k] = Inverted(less[k])
  BY <1>1, InversesFacts
<1> HIDE DEF a, b
<1>6. ASSUME NEW k \in 1 .. n - 1  PROVE a[k] = b[k]
  <2>1. k \in 1 .. n
    BY <1>1
  <2> QED
    BY <1>1, <1>2, <1>4, <1>5, <2>1
<1>7. a = b
  BY <1>4, <1>5, <1>6, SeqEqual
<1>8. inverses[n] = Inverted(edits[n])
  BY <1>1, <1>2
<1>9. Last(inverses) = Inverted(Last(edits))
  BY <1>2, <1>8 DEF Last
<1> QED
  BY <1>3, <1>7, <1>9 DEF a, b, less, inverses

-----------------------------------------------------------------------------
(* Histories that fit their page                                           *)

History == [identity : Document \X Nat, undo : Seq(Edit), redo : Seq(Edit)]

(* A splice and its inverse.                                               *)
LEMMA InvertedFacts ==
  ASSUME NEW e \in Edit, NEW s \in Seq(Stroke)
  PROVE  /\ Inverted(e) \in Edit
         /\ Reversible(s, Inverted(e)) <=> Forwardable(s, e)
         /\ Reversed(s, Inverted(e)) = Forwarded(s, e)
         /\ Reversible(s, e) => LET t == Reversed(s, e)
                                IN  t \in Seq(Stroke) /\ Forwardable(t, e) /\ Forwarded(t, e) = s
         /\ Forwardable(s, e) => LET t == Forwarded(s, e)
                                 IN  t \in Seq(Stroke) /\ Reversible(t, e) /\ Reversed(t, e) = s
<1>1. e.start \in Nat /\ e.removed \in Seq(Stroke) /\ e.inserted \in Seq(Stroke)
  BY DEF Edit
<1>2. /\ Inverted(e) \in Edit /\ Inverted(e).start = e.start
      /\ Inverted(e).removed = e.inserted /\ Inverted(e).inserted = e.removed
  BY <1>1 DEF Inverted, Edit
<1>3. Reversible(s, e) => LET t == Reversed(s, e)
                          IN  t \in Seq(Stroke) /\ Forwardable(t, e) /\ Forwarded(t, e) = s
  BY <1>1, SpliceIsReversible DEF Reversible, Reversed, Forwardable, Forwarded
<1>4. Forwardable(s, e) => LET t == Forwarded(s, e)
                           IN  t \in Seq(Stroke) /\ Reversible(t, e) /\ Reversed(t, e) = s
  BY <1>1, SpliceIsReversible DEF Reversible, Reversed, Forwardable, Forwarded
<1> QED
  BY <1>2, <1>3, <1>4 DEF Reversible, Reversed, Forwardable, Forwarded

(* A page without edits.                                                   *)
LEMMA NewHistoryFits ==
  ASSUME NEW s \in Seq(Stroke), NEW id
  PROVE  FitsWell(s, NewHistory(id))
<1>1. Inverses(<< >>) = << >>
  <2>1. << >> \in Seq(Edit) /\ Len(<< >>) = 0
    BY EmptySeq
  <2>2. Inverses(<< >>) \in Seq(Edit) /\ Len(Inverses(<< >>)) = 0
    BY <2>1, InversesFacts
  <2> QED
    BY <2>2, EmptySeq
<1> QED
  BY <1>1, ReplaysNothing DEF FitsWell, NewHistory

(* An undo leaves a page that fits what is left of its history, and the    *)
(* edit can be made again.                                                 *)
LEMMA UndoFits ==
  ASSUME NEW h \in History, NEW s, FitsWell(s, h), h.undo # << >>
  PROVE  LET t == Reversed(s, Last(h.undo))
         IN  /\ s \in Seq(Stroke) /\ t \in Seq(Stroke)
             /\ FitsWell(t, AfterUndo(h))
             /\ Reversible(s, Last(h.undo)) /\ Forwardable(t, Last(h.undo)) /\ Forwarded(t, Last(h.undo)) = s
<1> DEFINE e == Last(h.undo)
           t == Reversed(s, e)
<1>1. h.undo \in Seq(Edit) /\ h.redo \in Seq(Edit)
  BY DEF History
<1>2. e \in Edit
  BY <1>1, FrontFacts
<1>3. s \in Seq(Stroke) /\ Reversible(s, e) /\ Replays(t, Front(h.undo))
  BY <1>1, ReplaysFront DEF FitsWell
<1> HIDE DEF e
<1>4. t \in Seq(Stroke) /\ Forwardable(t, e) /\ Forwarded(t, e) = s
  BY <1>2, <1>3, InvertedFacts
<1> HIDE DEF t
<1>5. Inverted(e) \in Edit /\ Reversible(t, Inverted(e)) /\ Reversed(t, Inverted(e)) = s
  BY <1>2, <1>4, InvertedFacts
<1>6. Replays(t, Append(Inverses(h.redo), Inverted(e)))
  <2>1. Inverses(h.redo) \in Seq(Edit) /\ Replays(s, Inverses(h.redo))
    BY <1>1, InversesFacts DEF FitsWell
  <2> QED
    BY <1>4, <1>5, <2>1, ReplaysAppend
<1>7. Replays(t, Inverses(Append(h.redo, e)))
  BY <1>1, <1>2, <1>6, InversesAppend
<1>8. AfterUndo(h).undo = Front(h.undo) /\ AfterUndo(h).redo = Append(h.redo, e)
  BY DEF AfterUndo, History, e
<1> QED
  BY <1>3, <1>4, <1>7, <1>8 DEF FitsWell, t, e

(* The same of a redo.                                                     *)
LEMMA RedoFits ==
  ASSUME NEW h \in History, NEW s, FitsWell(s, h), h.redo # << >>
  PROVE  LET t == Forwarded(s, Last(h.redo))
         IN  /\ s \in Seq(Stroke) /\ t \in Seq(Stroke)
             /\ FitsWell(t, AfterRedo(h))
             /\ Forwardable(s, Last(h.redo)) /\ Reversible(t, Last(h.redo)) /\ Reversed(t, Last(h.redo)) = s
<1> DEFINE e == Last(h.redo)
           t == Forwarded(s, e)
<1>1. h.undo \in Seq(Edit) /\ h.redo \in Seq(Edit)
  BY DEF History
<1>2. e \in Edit
  BY <1>1, FrontFacts
<1>3. /\ Inverses(h.redo) \in Seq(Edit) /\ Inverses(h.redo) # << >>
      /\ Last(Inverses(h.redo)) = Inverted(e)
      /\ Front(Inverses(h.redo)) = Inverses(Front(h.redo))
  BY <1>1, InversesFacts, InversesFront
<1> HIDE DEF e
<1>4. s \in Seq(Stroke) /\ Reversible(s, Inverted(e)) /\ Replays(Reversed(s, Inverted(e)), Inverses(Front(h.redo)))
  BY <1>3, ReplaysFront DEF FitsWell
<1>5. /\ Forwardable(s, e) /\ t \in Seq(Stroke) /\ Reversible(t, e) /\ Reversed(t, e) = s
      /\ Reversed(s, Inverted(e)) = t
  BY <1>2, <1>4, InvertedFacts
<1> HIDE DEF t
<1>6. Replays(t, Append(h.undo, e))
  BY <1>1, <1>2, <1>4, <1>5, ReplaysAppend DEF FitsWell
<1>7. Replays(t, Inverses(Front(h.redo)))
  BY <1>4, <1>5
<1>8. AfterRedo(h).redo = Front(h.redo) /\ AfterRedo(h).undo = Append(h.undo, e)
  BY DEF AfterRedo, History, e
<1> QED
  BY <1>4, <1>5, <1>6, <1>7, <1>8 DEF FitsWell, t, e

(* A history with a page is what the tablet asks of it.                    *)
LEMMA FitsWellSuffices ==
  ASSUME NEW s \in Seq(Stroke), NEW edits \in Seq(Edit), Replays(s, edits)
  PROVE  CanAllBeTakenBack(s, edits)
<1> DEFINE n == Len(edits)
           body(f) == [k \in 0 .. n |-> IF k = 0 THEN s ELSE Reversed(f[k - 1], edits[n - k + 1])]
           pages == CHOOSE f : f = body(f)
<1>1. n \in Nat /\ DOMAIN edits = 1 .. n
  BY LenProperties
<1>2. PICK ps : Chain(ps, edits) /\ ps[n] = s
  BY DEF Replays
<1>3. /\ ps \in [0 .. n -> Seq(Stroke)]
      /\ \A k \in 1 .. n : Reversible(ps[k], edits[k]) /\ Reversed(ps[k], edits[k]) = ps[k - 1]
  BY <1>2 DEF Chain
<1>4. CanAllBeTakenBack(s, edits) <=> \A k \in DOMAIN edits : Reversible(pages[k - 1], edits[n - k + 1])
  BY DEF CanAllBeTakenBack
<1> DEFINE g == [k \in 0 .. n |-> ps[n - k]]
<1>5. g = body(g)
  <2>1. ASSUME NEW k \in 0 .. n
        PROVE  ps[n - k] = IF k = 0 THEN s ELSE Reversed(g[k - 1], edits[n - k + 1])
    <3>1. CASE k = 0
      <4>1. n - k = n
        BY <1>1, <3>1
      <4> QED
        BY <1>2, <3>1, <4>1
    <3>2. CASE k # 0
      <4>1. k - 1 \in 0 .. n /\ n - (k - 1) = n - k + 1 /\ n - k + 1 \in 1 .. n /\ (n - k + 1) - 1 = n - k
        BY <1>1, <3>2
      <4>2. g[k - 1] = ps[n - k + 1]
        BY <4>1
      <4> QED
        BY <1>3, <3>2, <4>1, <4>2
    <3> QED
      BY <3>1, <3>2
  <2> QED
    BY <2>1
<1>6. pages = body(pages)
  BY <1>5
<1> HIDE DEF pages
<1>7. \A k \in 0 .. n : pages[k] = IF k = 0 THEN s ELSE Reversed(pages[k - 1], edits[n - k + 1])
  BY <1>6
<1> DEFINE ok == {k \in Nat : k <= n => pages[k] = ps[n - k]}
<1>8. 0 \in ok
  <2>1. pages[0] = s /\ n - 0 = n
    BY <1>1, <1>7
  <2> QED
    BY <1>2, <2>1
<1>9. ASSUME NEW k \in ok  PROVE k + 1 \in ok
  <2>1. k \in Nat /\ (k <= n => pages[k] = ps[n - k])
    OBVIOUS
  <2>2. ASSUME k + 1 <= n  PROVE pages[k + 1] = ps[n - (k + 1)]
    <3>1. k + 1 \in 0 .. n /\ k + 1 # 0 /\ (k + 1) - 1 = k /\ n - (k + 1) + 1 = n - k
          /\ n - k \in 1 .. n /\ (n - k) - 1 = n - (k + 1) /\ k <= n
      BY <1>1, <2>1, <2>2
    <3>2. pages[k + 1] = Reversed(pages[k], edits[n - k])
      BY <1>7, <3>1
    <3> QED
      BY <1>3, <2>1, <3>1, <3>2
  <2> QED
    BY <2>1, <2>2
<1> HIDE DEF ok
<1>10. ok = Nat
  BY <1>8, <1>9, InductionOnSets DEF ok
<1>11. ASSUME NEW k \in 1 .. n  PROVE Reversible(pages[k - 1], edits[n - k + 1])
  <2>1. k - 1 \in Nat /\ k - 1 <= n /\ n - (k - 1) = n - k + 1 /\ n - k + 1 \in 1 .. n
    BY <1>1
  <2>2. k - 1 \in ok
    BY <1>10, <2>1
  <2>3. pages[k - 1] = ps[n - (k - 1)]
    BY <2>1, <2>2 DEF ok
  <2> QED
    BY <1>3, <2>1, <2>3
<1> QED
  BY <1>1, <1>4, <1>11

(* The chain of pages is what undo and redo go along.                      *)
LEMMA FitsWellIsFits ==
  ASSUME NEW h \in History, NEW s \in Seq(Stroke), FitsWell(s, h)
  PROVE  Fits(s, h)
<1>1. h.undo \in Seq(Edit) /\ h.redo \in Seq(Edit)
  BY DEF History
<1>2. Inverses(h.redo) \in Seq(Edit)
  BY <1>1, InversesFacts
<1>3. CanAllBeTakenBack(s, h.undo) /\ CanAllBeTakenBack(s, Inverses(h.redo))
  BY <1>1, <1>2, FitsWellSuffices DEF FitsWell
<1> QED
  BY <1>3 DEF Fits, Inverses

-----------------------------------------------------------------------------
(* Histories of several pages                                              *)

IsSized(h) == h \in History /\ Len(h.undo) + Len(h.redo) <= MaxActions

HistoriesOK(hs) ==
  /\ hs \in Seq(History) /\ Len(hs) <= MaxHistories
  /\ \A k \in DOMAIN hs : IsSized(hs[k])
  /\ \A j, k \in DOMAIN hs : hs[j].identity = hs[k].identity => j = k

RecordedHistory(h, s, t) ==
  [h EXCEPT !.undo = LatestActions(Append(@, Between(s, t))), !.redo = << >>]

(* The history of a page that was edited.                                  *)
LEMMA RecordFacts ==
  ASSUME NEW h, IsSized(h), NEW s \in Seq(Stroke), NEW t \in Seq(Stroke)
  PROVE  LET g == RecordedHistory(h, s, t)
         IN  /\ IsSized(g) /\ g.identity = h.identity
             /\ g.undo # << >> /\ Last(g.undo) = Between(s, t)
             /\ FitsWell(s, h) => FitsWell(t, g)
<1> DEFINE g == RecordedHistory(h, s, t)
           e == Between(s, t)
           more == Append(h.undo, e)
<1>1. /\ h \in History /\ h.undo \in Seq(Edit) /\ Len(h.undo) \in Nat /\ Len(h.redo) \in Nat
      /\ Len(h.undo) <= MaxActions /\ MaxActions \in Nat \ {0}
  <2>1. h.undo \in Seq(Edit) /\ h.redo \in Seq(Edit) /\ h \in History
    BY DEF IsSized, History
  <2>2. Len(h.undo) \in Nat /\ Len(h.redo) \in Nat
    BY <2>1, LenProperties
  <2>3. MaxActions \in Nat \ {0} /\ Len(h.undo) + Len(h.redo) <= MaxActions
    BY HistoryAssumption DEF IsSized
  <2>4. Len(h.undo) <= MaxActions
    <3>1. \A a, b, c \in Nat : a + b <= c => a <= c
      OBVIOUS
    <3> QED
      BY <2>2, <2>3, <3>1
  <2> QED
    BY <2>1, <2>2, <2>3, <2>4
<1>2. e \in Edit /\ Reversible(t, e) /\ Reversed(t, e) = s
  BY BetweenFacts
<1> HIDE DEF e
<1>3. more \in Seq(Edit) /\ Len(more) = Len(h.undo) + 1 /\ more[Len(h.undo) + 1] = e
  BY <1>1, <1>2, AppendFacts
<1>4. Replays(s, h.undo) => Replays(t, more)
  BY <1>1, <1>2, ReplaysAppend
<1> HIDE DEF more
<1>5. more # << >>
  BY <1>1, <1>3, EmptySeq
<1>6. /\ Tail(more) \in Seq(Edit) /\ Len(Tail(more)) = Len(h.undo)
      /\ \A i \in 1 .. Len(Tail(more)) : Tail(more)[i] = more[i + 1]
  BY <1>1, <1>3, <1>5, HeadTailProperties
<1>7. Replays(t, more) => Replays(t, Tail(more))
  BY <1>3, <1>5, ReplaysTail
<1> DEFINE latest == LatestActions(more)
<1>8. /\ latest \in Seq(Edit) /\ Len(latest) \in Nat \ {0} /\ Len(latest) <= MaxActions
      /\ latest[Len(latest)] = e /\ (Replays(s, h.undo) => Replays(t, latest))
  <2>1. CASE Len(more) > MaxActions
    <3>1. latest = Tail(more) /\ Len(h.undo) = MaxActions /\ Len(h.undo) \in 1 .. Len(h.undo)
      BY <1>1, <1>3, <2>1 DEF LatestActions
    <3>2. Tail(more)[Len(h.undo)] = e
      BY <1>3, <1>6, <3>1
    <3> QED
      BY <1>1, <1>4, <1>6, <1>7, <3>1, <3>2
  <2>2. CASE ~(Len(more) > MaxActions)
    <3>1. latest = more
      BY <2>2 DEF LatestActions
    <3> QED
      BY <1>1, <1>3, <1>4, <2>2, <3>1
  <2> QED
    BY <2>1, <2>2
<1>14. g = [h EXCEPT !.undo = latest, !.redo = << >>]
  BY DEF RecordedHistory, more, e
<1> HIDE DEF latest, g
<1>9. g = [identity |-> h.identity, undo |-> latest, redo |-> << >>]
  BY <1>1, <1>14 DEF History
<1>10. << >> \in Seq(Edit) /\ Len(<< >>) = 0
  BY EmptySeq
<1>11. IsSized(g) /\ g.identity = h.identity
  BY <1>1, <1>8, <1>9, <1>10 DEF IsSized, History
<1>12. g.undo # << >> /\ Last(g.undo) = e
  BY <1>8, <1>9, <1>10 DEF Last
<1>13. FitsWell(s, h) => FitsWell(t, g)
  <2>1. FitsWell(t, NewHistory(0))
    BY NewHistoryFits
  <2>2. Replays(t, Inverses(<< >>))
    BY <2>1 DEF FitsWell, NewHistory
  <2> QED
    BY <1>8, <1>9, <2>2 DEF FitsWell
<1> QED
  BY <1>11, <1>12, <1>13 DEF g, e

(* Undo and redo keep the size of a history.                               *)
LEMMA UndoneFacts ==
  ASSUME NEW h, IsSized(h)
  PROVE  /\ h.undo # << >> =>
              /\ IsSized(AfterUndo(h)) /\ AfterUndo(h).identity = h.identity
              /\ AfterUndo(h).redo # << >> /\ Last(AfterUndo(h).redo) = Last(h.undo)
         /\ h.redo # << >> =>
              /\ IsSized(AfterRedo(h)) /\ AfterRedo(h).identity = h.identity
              /\ AfterRedo(h).undo # << >> /\ Last(AfterRedo(h).undo) = Last(h.redo)
<1>1. h \in History /\ h.undo \in Seq(Edit) /\ h.redo \in Seq(Edit) /\ h.identity \in Document \X Nat
  BY DEF IsSized, History
<1>2. ASSUME NEW a \in Seq(Edit), NEW b \in Seq(Edit), a # << >>, Len(a) + Len(b) <= MaxActions
      PROVE  /\ Front(a) \in Seq(Edit) /\ Append(b, Last(a)) \in Seq(Edit)
             /\ Len(Front(a)) + Len(Append(b, Last(a))) <= MaxActions
             /\ Append(b, Last(a)) # << >> /\ Last(Append(b, Last(a))) = Last(a)
  <2>1. Len(a) \in Nat \ {0} /\ Len(b) \in Nat
    BY <1>2, EmptySeq, LenProperties
  <2>2. Front(a) \in Seq(Edit) /\ DOMAIN Front(a) = 1 .. Len(a) - 1 /\ Last(a) \in Edit
    BY <1>2, FrontFacts
  <2>3. Len(Front(a)) = Len(a) - 1
    BY <2>1, <2>2, LenProperties
  <2>4. /\ Append(b, Last(a)) \in Seq(Edit) /\ Len(Append(b, Last(a))) = Len(b) + 1
        /\ Append(b, Last(a))[Len(b) + 1] = Last(a)
    BY <2>2, AppendFacts
  <2>5. Append(b, Last(a)) # << >>
    BY <2>1, <2>4, EmptySeq
  <2>6. Last(Append(b, Last(a))) = Last(a)
    BY <2>4 DEF Last
  <2>7. MaxActions \in Nat
    BY HistoryAssumption
  <2> QED
    BY <1>2, <2>1, <2>2, <2>3, <2>4, <2>5, <2>6, <2>7
<1>3. ASSUME h.undo # << >>
      PROVE  /\ IsSized(AfterUndo(h)) /\ AfterUndo(h).identity = h.identity
             /\ AfterUndo(h).redo # << >> /\ Last(AfterUndo(h).redo) = Last(h.undo)
  <2> DEFINE less == Front(h.undo)
             more == Append(h.redo, Last(h.undo))
  <2>3. AfterUndo(h) = [h EXCEPT !.undo = less, !.redo = more]
    BY DEF AfterUndo
  <2>4. /\ less \in Seq(Edit) /\ more \in Seq(Edit) /\ Len(less) + Len(more) <= MaxActions
        /\ more # << >> /\ Last(more) = Last(h.undo)
    BY <1>1, <1>2, <1>3 DEF IsSized
  <2> HIDE DEF less, more
  <2>1. AfterUndo(h) = [identity |-> h.identity, undo |-> less, redo |-> more]
    BY <1>1, <2>3 DEF History
  <2> QED
    BY <1>1, <2>1, <2>4 DEF IsSized, History
<1>4. ASSUME h.redo # << >>
      PROVE  /\ IsSized(AfterRedo(h)) /\ AfterRedo(h).identity = h.identity
             /\ AfterRedo(h).undo # << >> /\ Last(AfterRedo(h).undo) = Last(h.redo)
  <2> DEFINE less == Front(h.redo)
             more == Append(h.undo, Last(h.redo))
  <2>3. AfterRedo(h) = [h EXCEPT !.redo = less, !.undo = more]
    BY DEF AfterRedo
  <2>2. Len(h.redo) + Len(h.undo) <= MaxActions
    <3>1. Len(h.redo) \in Nat /\ Len(h.undo) \in Nat /\ MaxActions \in Nat
      BY <1>1, LenProperties, HistoryAssumption
    <3>2. Len(h.undo) + Len(h.redo) <= MaxActions
      BY DEF IsSized
    <3>3. \A a, b, c \in Nat : a + b <= c => b + a <= c
      OBVIOUS
    <3> QED
      BY <3>1, <3>2, <3>3
  <2>4. /\ less \in Seq(Edit) /\ more \in Seq(Edit) /\ Len(less) + Len(more) <= MaxActions
        /\ more # << >> /\ Last(more) = Last(h.redo)
    BY <1>1, <1>2, <1>4, <2>2
  <2> HIDE DEF less, more
  <2>1. AfterRedo(h) = [identity |-> h.identity, undo |-> more, redo |-> less]
    BY <1>1, <2>3 DEF History
  <2>5. Len(more) + Len(less) <= MaxActions
    <3>1. Len(less) \in Nat /\ Len(more) \in Nat /\ MaxActions \in Nat
      BY <2>4, LenProperties, HistoryAssumption
    <3>2. \A a, b, c \in Nat : a + b <= c => b + a <= c
      OBVIOUS
    <3> QED
      BY <2>4, <3>1, <3>2
  <2> QED
    BY <1>1, <2>1, <2>4, <2>5 DEF IsSized, History
<1> QED
  BY <1>3, <1>4

(* The history of a page among those of others.                            *)
LEMMA HistoryOfFacts ==
  ASSUME NEW hs, HistoriesOK(hs), NEW id \in Document \X Nat
  PROVE  /\ IsSized(HistoryOf(hs, id)) /\ HistoryOf(hs, id).identity = id
         /\ IsSized(NewHistory(id)) /\ NewHistory(id).identity = id
         /\ id \in Identities(hs) => \E k \in DOMAIN hs : hs[k] = HistoryOf(hs, id)
         /\ id \notin Identities(hs) => HistoryOf(hs, id) = NewHistory(id)
<1>1. IsSized(NewHistory(id)) /\ NewHistory(id).identity = id
  <2>1. << >> \in Seq(Edit) /\ Len(<< >>) = 0
    BY EmptySeq
  <2>2. 0 + 0 <= MaxActions
    BY HistoryAssumption
  <2> QED
    BY <2>1, <2>2 DEF NewHistory, IsSized, History
<1>2. CASE id \notin Identities(hs)
  BY <1>1, <1>2 DEF HistoryOf
<1>3. CASE id \in Identities(hs)
  <2>1. \E k \in DOMAIN hs : hs[k].identity = id
    BY <1>3 DEF Identities
  <2> DEFINE k == CHOOSE k \in DOMAIN hs : hs[k].identity = id
  <2>2. k \in DOMAIN hs /\ hs[k].identity = id
    BY <2>1
  <2>3. HistoryOf(hs, id) = hs[k]
    BY <1>3 DEF HistoryOf
  <2>4. IsSized(hs[k])
    BY <2>2 DEF HistoriesOK
  <2> HIDE DEF k
  <2> QED
    BY <1>1, <1>3, <2>2, <2>3, <2>4
<1> QED
  BY <1>2, <1>3

(* A page has one history.                                                 *)
LEMMA HistoryIsUnique ==
  ASSUME NEW hs, HistoriesOK(hs), NEW k \in DOMAIN hs
  PROVE  HistoryOf(hs, hs[k].identity) = hs[k]
<1> DEFINE id == hs[k].identity
           j  == CHOOSE j \in DOMAIN hs : hs[j].identity = id
<1>1. j \in DOMAIN hs /\ hs[j].identity = id
  OBVIOUS
<1>2. j = k
  BY <1>1 DEF HistoriesOK
<1>3. id \in Identities(hs)
  BY DEF Identities
<1>4. HistoryOf(hs, id) = hs[j]
  BY <1>3 DEF HistoryOf
<1> QED
  BY <1>2, <1>4

(* The history of one page is replaced.                                    *)
LEMMA UpdatedFacts ==
  ASSUME NEW hs, HistoriesOK(hs), NEW h, IsSized(h)
  PROVE  /\ HistoriesOK(Updated(hs, h)) /\ Identities(Updated(hs, h)) = Identities(hs)
         /\ \A k \in DOMAIN Updated(hs, h) :
              \/ Updated(hs, h)[k] = h
              \/ \E j \in DOMAIN hs : Updated(hs, h)[k] = hs[j] /\ hs[j].identity # h.identity
         /\ h.identity \in Identities(hs) => HistoryOf(Updated(hs, h), h.identity) = h
<1> DEFINE u == Updated(hs, h)
<1>1. hs \in Seq(History) /\ h \in History
  BY DEF HistoriesOK, IsSized
<1>2. Len(hs) \in Nat /\ DOMAIN hs = 1 .. Len(hs) /\ \A k \in 1 .. Len(hs) : hs[k] \in History
  BY <1>1, LenProperties, ElementOfSeq
<1>3. u = [k \in 1 .. Len(hs) |-> IF hs[k].identity = h.identity THEN h ELSE hs[k]]
  BY <1>2 DEF Updated
<1>4. u \in Seq(History)
  BY <1>1, <1>2, <1>3, IsASeq
<1>5. DOMAIN u = 1 .. Len(hs)
  BY <1>3
<1>6. \A k \in 1 .. Len(hs) : u[k] = IF hs[k].identity = h.identity THEN h ELSE hs[k]
  BY <1>3
<1> HIDE DEF u
<1>7. Len(u) = Len(hs)
  BY <1>2, <1>4, <1>5, LenProperties
<1>8. \A k \in 1 .. Len(hs) : u[k].identity = hs[k].identity /\ IsSized(u[k])
  BY <1>2, <1>6 DEF HistoriesOK
<1>9. HistoriesOK(u)
  BY <1>2, <1>4, <1>5, <1>7, <1>8 DEF HistoriesOK
<1>10. Identities(u) = Identities(hs)
  BY <1>2, <1>5, <1>8 DEF Identities
<1>11. \A k \in DOMAIN u : u[k] = h \/ \E j \in DOMAIN hs : u[k] = hs[j] /\ hs[j].identity # h.identity
  BY <1>2, <1>5, <1>6
<1>12. ASSUME h.identity \in Identities(hs)  PROVE HistoryOf(u, h.identity) = h
  <2>1. PICK k \in DOMAIN hs : hs[k].identity = h.identity
    BY <1>12 DEF Identities
  <2>2. k \in DOMAIN u /\ u[k] = h
    BY <1>2, <1>5, <1>6, <2>1
  <2> QED
    BY <1>9, <2>2, HistoryIsUnique
<1> QED
  BY <1>9, <1>10, <1>11, <1>12 DEF u

(* A page gets a history.                                                  *)
LEMMA WithHistoryFacts ==
  ASSUME NEW hs, HistoriesOK(hs), NEW id \in Document \X Nat
  PROVE  LET w == WithHistory(hs, id)
         IN  /\ HistoriesOK(w)
             /\ id \in Identities(w) /\ Identities(w) \subseteq Identities(hs) \cup {id}
             /\ \A k \in DOMAIN w : w[k].identity # id => \E j \in DOMAIN hs : w[k] = hs[j]
<1>1. CASE id \in Identities(hs)
  <2>1. WithHistory(hs, id) = hs
    BY <1>1 DEF WithHistory
  <2> QED
    BY <1>1, <2>1
<1>2. CASE id \notin Identities(hs)
  <2> DEFINE rest == IF Len(hs) >= MaxHistories THEN Tail(hs) ELSE hs
             new  == NewHistory(id)
             w    == Append(rest, new)
  <2>1. WithHistory(hs, id) = w
    BY <1>2 DEF WithHistory
  <2>2. new \in History /\ IsSized(new) /\ new.identity = id
    BY HistoryOfFacts DEF IsSized
  <2>3. /\ hs \in Seq(History) /\ Len(hs) \in Nat /\ DOMAIN hs = 1 .. Len(hs)
        /\ Len(hs) <= MaxHistories /\ MaxHistories \in Nat \ {0}
    BY LenProperties, HistoryAssumption DEF HistoriesOK
  <2> HIDE DEF new
  <2>4. \E d \in Nat : /\ rest \in Seq(History) /\ Len(rest) \in Nat /\ Len(rest) < MaxHistories
                       /\ Len(rest) + d = Len(hs)
                       /\ \A k \in 1 .. Len(rest) : rest[k] = hs[k + d]
    <3>1. CASE Len(hs) >= MaxHistories
      <4>1. hs # << >>
        BY <2>3, <3>1, EmptySeq
      <4>2. /\ Tail(hs) \in Seq(History) /\ Len(Tail(hs)) = Len(hs) - 1
            /\ \A k \in 1 .. Len(Tail(hs)) : Tail(hs)[k] = hs[k + 1]
        BY <2>3, <4>1, HeadTailProperties
      <4>3. Len(Tail(hs)) \in Nat /\ Len(Tail(hs)) < MaxHistories /\ Len(Tail(hs)) + 1 = Len(hs)
        BY <2>3, <3>1, <4>2
      <4> QED
        BY <3>1, <4>2, <4>3
    <3>2. CASE ~(Len(hs) >= MaxHistories)
      <4>1. Len(hs) < MaxHistories /\ Len(hs) + 0 = Len(hs) /\ \A k \in 1 .. Len(hs) : hs[k] = hs[k + 0]
        BY <2>3, <3>2
      <4> QED
        BY <2>3, <3>2, <4>1
    <3> QED
      BY <3>1, <3>2
  <2> HIDE DEF rest
  <2>5. PICK d \in Nat : /\ rest \in Seq(History) /\ Len(rest) \in Nat /\ Len(rest) < MaxHistories
                         /\ Len(rest) + d = Len(hs)
                         /\ \A k \in 1 .. Len(rest) : rest[k] = hs[k + d]
    BY <2>4
  <2>6. /\ w \in Seq(History) /\ Len(w) = Len(rest) + 1 /\ DOMAIN w = 1 .. Len(rest) + 1
        /\ w[Len(rest) + 1] = new /\ \A k \in 1 .. Len(rest) : w[k] = rest[k]
    BY <2>2, <2>5, AppendFacts, LenProperties
  <2> HIDE DEF w
  <2>7. \A k \in 1 .. Len(rest) : k + d \in 1 .. Len(hs) /\ w[k] = hs[k + d]
    BY <2>3, <2>5, <2>6
  <2>8. \A k \in 1 .. Len(rest) : IsSized(w[k]) /\ w[k].identity # id /\ w[k].identity \in Identities(hs)
    <3>1. \A m \in DOMAIN hs : IsSized(hs[m]) /\ hs[m].identity \in Identities(hs)
      BY DEF HistoriesOK, Identities
    <3> QED
      BY <1>2, <2>3, <2>7, <3>1
  <2>9. \A k \in DOMAIN w : k = Len(rest) + 1 \/ k \in 1 .. Len(rest)
    BY <2>5, <2>6
  <2>16. IsSized(w[Len(rest) + 1]) /\ w[Len(rest) + 1].identity = id
    BY <2>2, <2>6
  <2>10. \A k \in DOMAIN w : IsSized(w[k])
    BY <2>8, <2>9, <2>16
  <2>11. ASSUME NEW j \in DOMAIN w, NEW k \in DOMAIN w, w[j].identity = w[k].identity  PROVE j = k
    <3>1. CASE j = Len(rest) + 1
      BY <2>2, <2>6, <2>8, <2>9, <2>11, <3>1
    <3>2. CASE k = Len(rest) + 1
      BY <2>2, <2>6, <2>8, <2>9, <2>11, <3>2
    <3>3. CASE j \in 1 .. Len(rest) /\ k \in 1 .. Len(rest)
      <4>1. j + d \in DOMAIN hs /\ k + d \in DOMAIN hs /\ hs[j + d].identity = hs[k + d].identity
        BY <2>3, <2>7, <2>11, <3>3
      <4>2. \A m, n \in DOMAIN hs : hs[m].identity = hs[n].identity => m = n
        BY DEF HistoriesOK
      <4>3. j + d = k + d
        BY <4>1, <4>2
      <4> QED
        BY <2>5, <3>3, <4>3
    <3> QED
      BY <2>9, <3>1, <3>2, <3>3
  <2>12. Len(w) <= MaxHistories
    BY <2>3, <2>5, <2>6
  <2>13. HistoriesOK(w)
    BY <2>6, <2>10, <2>11, <2>12 DEF HistoriesOK
  <2>14. id \in Identities(w) /\ Identities(w) \subseteq Identities(hs) \cup {id}
    <3>1. Len(rest) + 1 \in DOMAIN w
      BY <2>5, <2>6
    <3> QED
      BY <2>2, <2>6, <2>8, <2>9, <3>1 DEF Identities
  <2>15. \A k \in DOMAIN w : w[k].identity # id => \E j \in DOMAIN hs : w[k] = hs[j]
    BY <2>2, <2>3, <2>6, <2>7, <2>9
  <2> QED
    BY <2>1, <2>13, <2>14, <2>15
<1> QED
  BY <1>1, <1>2

(* A page was edited.                                                      *)
LEMMA RecordedFacts ==
  ASSUME NEW hs, HistoriesOK(hs), NEW id \in Document \X Nat,
         NEW s \in Seq(Stroke), NEW t \in Seq(Stroke), s # t
  PROVE  LET r == Recorded(hs, id, s, t)
             h == RecordedHistory(HistoryOf(hs, id), s, t)
         IN  /\ HistoriesOK(r) /\ Identities(r) \subseteq Identities(hs) \cup {id}
             /\ HistoryOf(r, id) = h
             /\ \A k \in DOMAIN r : r[k] = h \/ \E j \in DOMAIN hs : r[k] = hs[j] /\ hs[j].identity # id
<1> DEFINE h == RecordedHistory(HistoryOf(hs, id), s, t)
           w == WithHistory(hs, id)
           r == Updated(w, h)
<1>1. Recorded(hs, id, s, t) = r
  BY DEF Recorded, RecordedHistory
<1>2. IsSized(h) /\ h.identity = id
  BY HistoryOfFacts, RecordFacts
<1> HIDE DEF h
<1>3. /\ HistoriesOK(w)
      /\ id \in Identities(w) /\ Identities(w) \subseteq Identities(hs) \cup {id}
      /\ \A k \in DOMAIN w : w[k].identity # id => \E j \in DOMAIN hs : w[k] = hs[j]
  BY WithHistoryFacts
<1> HIDE DEF w
<1>4. /\ HistoriesOK(r) /\ Identities(r) = Identities(w) /\ HistoryOf(r, id) = h
      /\ \A k \in DOMAIN r : r[k] = h \/ \E j \in DOMAIN w : r[k] = w[j] /\ w[j].identity # id
  BY <1>2, <1>3, UpdatedFacts
<1> HIDE DEF r
<1>5. \A k \in DOMAIN r : r[k] = h \/ \E j \in DOMAIN hs : r[k] = hs[j] /\ hs[j].identity # id
  BY <1>3, <1>4
<1> QED
  BY <1>1, <1>3, <1>4, <1>5 DEF h

(* Where the histories of a document go when a page is inserted.           *)
Moved(id, doc, index) == IF id[1] = doc /\ id[2] >= index THEN <<doc, id[2] + 1>> ELSE id

(* Two pages never move to one place, and the place is left free.          *)
LEMMA MovedFacts ==
  ASSUME NEW id \in Document \X Nat, NEW doc \in Document, NEW index \in Nat
  PROVE  /\ Moved(id, doc, index) \in Document \X Nat
         /\ Moved(id, doc, index) # <<doc, index>>
         /\ \A other \in Document \X Nat :
              Moved(other, doc, index) = Moved(id, doc, index) => other = id
<1>1. id = <<id[1], id[2]>> /\ id[1] \in Document /\ id[2] \in Nat
  OBVIOUS
<1>2. CASE id[1] = doc /\ id[2] >= index
  <2>1. Moved(id, doc, index) = <<doc, id[2] + 1>>
    BY <1>2 DEF Moved
  <2>2. ASSUME NEW other \in Document \X Nat, Moved(other, doc, index) = Moved(id, doc, index)
        PROVE  other = id
    <3>1. other = <<other[1], other[2]>> /\ other[1] \in Document /\ other[2] \in Nat
      OBVIOUS
    <3>2. CASE other[1] = doc /\ other[2] >= index
      <4>1. Moved(other, doc, index) = <<doc, other[2] + 1>>
        BY <3>2 DEF Moved
      <4>2. other[2] + 1 = id[2] + 1
        BY <2>1, <2>2, <4>1
      <4> QED
        BY <1>1, <1>2, <3>1, <3>2, <4>2
    <3>3. CASE ~(other[1] = doc /\ other[2] >= index)
      <4>1. Moved(other, doc, index) = other
        BY <3>3 DEF Moved
      <4>2. other[1] = doc /\ other[2] = id[2] + 1
        BY <2>1, <2>2, <4>1
      <4> QED
        BY <1>1, <1>2, <3>3, <4>2
    <3> QED
      BY <3>2, <3>3
  <2>3. <<doc, id[2] + 1>> \in Document \X Nat /\ id[2] + 1 # index
    BY <1>1, <1>2
  <2> QED
    BY <2>1, <2>2, <2>3
<1>3. CASE ~(id[1] = doc /\ id[2] >= index)
  <2>1. Moved(id, doc, index) = id
    BY <1>3 DEF Moved
  <2>2. ASSUME NEW other \in Document \X Nat, Moved(other, doc, index) = Moved(id, doc, index)
        PROVE  other = id
    <3>1. other = <<other[1], other[2]>> /\ other[1] \in Document /\ other[2] \in Nat
      OBVIOUS
    <3>2. CASE other[1] = doc /\ other[2] >= index
      <4>1. Moved(other, doc, index) = <<doc, other[2] + 1>>
        BY <3>2 DEF Moved
      <4>2. id[1] = doc /\ id[2] = other[2] + 1
        BY <2>1, <2>2, <4>1
      <4> QED
        BY <1>1, <1>3, <3>1, <3>2, <4>2
    <3>3. CASE ~(other[1] = doc /\ other[2] >= index)
      BY <2>1, <2>2, <3>3 DEF Moved
    <3> QED
      BY <3>2, <3>3
  <2>3. id # <<doc, index>>
    BY <1>3
  <2> QED
    BY <2>1, <2>2, <2>3
<1> QED
  BY <1>2, <1>3

(* Histories move with their pages.                                        *)
LEMMA ShiftedFacts ==
  ASSUME NEW hs, HistoriesOK(hs), NEW doc \in Document, NEW index \in Nat
  PROVE  /\ HistoriesOK(Shifted(hs, doc, index))
         /\ \A k \in DOMAIN Shifted(hs, doc, index) :
              \E h \in History :
                /\ k \in DOMAIN hs /\ h = hs[k]
                /\ Shifted(hs, doc, index)[k] = [h EXCEPT !.identity = Moved(h.identity, doc, index)]
<1> DEFINE u == Shifted(hs, doc, index)
           moved(h) == [h EXCEPT !.identity = Moved(h.identity, doc, index)]
<1>1. /\ hs \in Seq(History) /\ Len(hs) \in Nat /\ DOMAIN hs = 1 .. Len(hs) /\ Len(hs) <= MaxHistories
      /\ \A k \in 1 .. Len(hs) : hs[k] \in History /\ IsSized(hs[k])
      /\ \A j, k \in 1 .. Len(hs) : hs[j].identity = hs[k].identity => j = k
  BY LenProperties, ElementOfSeq DEF HistoriesOK
<1>2. ASSUME NEW h \in History
      PROVE  /\ moved(h) = [identity |-> Moved(h.identity, doc, index), undo |-> h.undo, redo |-> h.redo]
             /\ moved(h) \in History /\ (IsSized(h) => IsSized(moved(h)))
             /\ moved(h) = IF h.identity[1] = doc /\ h.identity[2] >= index
                           THEN [h EXCEPT !.identity = <<doc, @[2] + 1>>] ELSE h
  <2>1. h.identity \in Document \X Nat /\ h = [identity |-> h.identity, undo |-> h.undo, redo |-> h.redo]
    BY DEF History
  <2>2. Moved(h.identity, doc, index) \in Document \X Nat
    BY <2>1, MovedFacts
  <2>3. moved(h) = [identity |-> Moved(h.identity, doc, index), undo |-> h.undo, redo |-> h.redo]
    BY <2>1
  <2>4. moved(h) \in History /\ (IsSized(h) => IsSized(moved(h)))
    BY <2>2, <2>3 DEF History, IsSized
  <2> DEFINE next == [h EXCEPT !.identity = <<doc, @[2] + 1>>]
  <2>5. ASSUME h.identity[1] = doc /\ h.identity[2] >= index  PROVE moved(h) = next
    <3>1. Moved(h.identity, doc, index) = <<doc, h.identity[2] + 1>>
      BY <2>5 DEF Moved
    <3> QED
      BY <3>1, Zenon
  <2>6. ASSUME ~(h.identity[1] = doc /\ h.identity[2] >= index)  PROVE moved(h) = h
    BY <2>1, <2>6 DEF Moved
  <2> HIDE DEF next, moved
  <2>7. moved(h) = IF h.identity[1] = doc /\ h.identity[2] >= index THEN next ELSE h
    BY <2>5, <2>6
  <2>8. moved(h) = IF h.identity[1] = doc /\ h.identity[2] >= index
                   THEN [h EXCEPT !.identity = <<doc, @[2] + 1>>] ELSE h
    BY <2>7, Zenon DEF next
  <2> QED
    BY <2>3, <2>4, <2>8, Zenon
<1>3. \A k \in 1 .. Len(hs) : u[k] = moved(hs[k])
  BY <1>1, <1>2 DEF Shifted
<1>4. u = [k \in 1 .. Len(hs) |-> u[k]] /\ DOMAIN u = 1 .. Len(hs)
  BY <1>1 DEF Shifted
<1> HIDE DEF u, moved
<1>5. \A k \in 1 .. Len(hs) : u[k] \in History /\ IsSized(u[k])
  BY <1>1, <1>2, <1>3
<1>6. u \in Seq(History)
  <2>1. [k \in 1 .. Len(hs) |-> u[k]] \in Seq(History)
    BY <1>1, <1>5, IsASeq
  <2> QED
    BY <1>4, <2>1
<1>7. Len(u) = Len(hs)
  BY <1>1, <1>4, <1>6, LenProperties
<1>8. ASSUME NEW j \in 1 .. Len(hs), NEW k \in 1 .. Len(hs), u[j].identity = u[k].identity
      PROVE  j = k
  <2>1. u[j].identity = Moved(hs[j].identity, doc, index) /\ u[k].identity = Moved(hs[k].identity, doc, index)
    BY <1>1, <1>2, <1>3
  <2>2. hs[j].identity \in Document \X Nat /\ hs[k].identity \in Document \X Nat
    BY <1>1 DEF History
  <2>3. hs[j].identity = hs[k].identity
    BY <1>8, <2>1, <2>2, MovedFacts, ZenonT(60)
  <2> QED
    BY <1>1, <2>3
<1>9. HistoriesOK(u)
  BY <1>1, <1>4, <1>5, <1>6, <1>7, <1>8 DEF HistoriesOK
<1>10. \A k \in DOMAIN u : \E h \in History :
         /\ k \in DOMAIN hs /\ h = hs[k]
         /\ u[k] = [h EXCEPT !.identity = Moved(h.identity, doc, index)]
  BY <1>1, <1>3, <1>4 DEF moved
<1> QED
  BY <1>9, <1>10 DEF u

(* The history of a page is dropped.                                       *)
LEMMA ClearedFacts ==
  ASSUME NEW hs, HistoriesOK(hs), NEW id
  PROVE  /\ HistoriesOK(Cleared(hs, id)) /\ id \notin Identities(Cleared(hs, id))
         /\ \A k \in DOMAIN Cleared(hs, id) : \E j \in DOMAIN hs : Cleared(hs, id)[k] = hs[j]
<1>1. CASE id \notin Identities(hs)
  BY <1>1 DEF Cleared
<1>2. CASE id \in Identities(hs)
  <2> DEFINE at == CHOOSE k \in DOMAIN hs : hs[k].identity = id
             u  == RemoveAt(hs, at)
  <2>1. Cleared(hs, id) = u
    BY <1>2 DEF Cleared
  <2>2. at \in DOMAIN hs /\ hs[at].identity = id
    <3>1. \E k \in DOMAIN hs : hs[k].identity = id
      BY <1>2 DEF Identities
    <3> QED
      BY <3>1
  <2> HIDE DEF at
  <2>3. hs \in Seq(History) /\ Len(hs) \in Nat /\ DOMAIN hs = 1 .. Len(hs) /\ Len(hs) <= MaxHistories
    BY LenProperties DEF HistoriesOK
  <2>4. u \in Seq(History) /\ DOMAIN u = 1 .. Len(hs) - 1
    BY <2>2, <2>3, RemoveAtFacts
  <2>5. \A j \in DOMAIN u : LET from == IF j < at THEN j ELSE j + 1
                           IN  from \in DOMAIN hs \ {at} /\ u[j] = hs[from]
    BY <2>2, <2>3, RemoveAtPlaces
  <2> HIDE DEF u
  <2>6. ASSUME NEW j \in DOMAIN u, NEW k \in DOMAIN u, u[j].identity = u[k].identity  PROVE j = k
    <3> DEFINE from(i) == IF i < at THEN i ELSE i + 1
    <3>1. from(j) = from(k)
      BY <2>5, <2>6 DEF HistoriesOK
    <3>2. j \in Nat /\ k \in Nat /\ at \in Nat
      BY <2>2, <2>3, <2>4
    <3> QED
      BY <3>1, <3>2
  <2>7. \A j \in DOMAIN u : \E i \in DOMAIN hs : i # at /\ u[j] = hs[i]
    BY <2>5
  <2>8. \A j \in DOMAIN u : IsSized(u[j]) /\ u[j].identity # id
    BY <2>2, <2>7 DEF HistoriesOK
  <2>9. Len(u) <= MaxHistories
    <3>0. Len(hs) - 1 \in Nat
      BY <2>2, <2>3
    <3>1. Len(u) = Len(hs) - 1
      BY <2>4, <3>0, LenProperties
    <3>2. MaxHistories \in Nat
      BY HistoryAssumption
    <3> QED
      BY <2>3, <3>1, <3>2
  <2>10. HistoriesOK(u) /\ id \notin Identities(u)
    BY <2>4, <2>6, <2>8, <2>9 DEF HistoriesOK, Identities
  <2> QED
    BY <2>1, <2>7, <2>10
<1> QED
  BY <1>1, <1>2

-----------------------------------------------------------------------------
(* Libraries                                                               *)

Leaf == [name : Nat, strokes : Seq(Stroke)]
Book == [current : Nat, pages : Seq(Leaf)]

LibraryTypeOK(lib) ==
  /\ DOMAIN lib \subseteq Document /\ DOMAIN lib # {}
  /\ lib \in [DOMAIN lib -> Book]
  /\ \A d \in DOMAIN lib : lib[d].current \in DOMAIN lib[d].pages

(* Names are given once, in the order in which pages are made.             *)
NamesAreOwn(lib) ==
  /\ IsFiniteSet(IdentitiesIn(lib))
  /\ \A id \in IdentitiesIn(lib) : PageAt(lib, id).name <= Cardinality(IdentitiesIn(lib))
  /\ \A i, j \in IdentitiesIn(lib) : PageAt(lib, i).name = PageAt(lib, j).name => i = j

LibraryOK(lib) == LibraryTypeOK(lib) /\ NamesAreOwn(lib)

(* Identities are places of the library.                                   *)
LEMMA IdentityFacts ==
  ASSUME NEW lib, LibraryTypeOK(lib)
  PROVE  /\ \A d \in DOMAIN lib :
              /\ lib[d] \in Book /\ d \in Document /\ Len(lib[d].pages) \in Nat
              /\ DOMAIN lib[d].pages = 1 .. Len(lib[d].pages)
              /\ lib[d].current \in 1 .. Len(lib[d].pages)
              /\ <<d, lib[d].current>> \in IdentitiesIn(lib)
         /\ \A d \in DOMAIN lib, i \in Nat :
              <<d, i>> \in IdentitiesIn(lib) <=> i \in 1 .. Len(lib[d].pages)
         /\ \A id \in IdentitiesIn(lib) :
              /\ id \in Document \X Nat /\ id = <<id[1], id[2]>> /\ id[1] \in DOMAIN lib
              /\ id[2] \in 1 .. Len(lib[id[1]].pages)
              /\ PageAt(lib, id) \in Leaf
<1>1. ASSUME NEW d \in DOMAIN lib
      PROVE  /\ lib[d] \in Book /\ d \in Document /\ lib[d].pages \in Seq(Leaf)
             /\ Len(lib[d].pages) \in Nat
             /\ DOMAIN lib[d].pages = 1 .. Len(lib[d].pages)
             /\ lib[d].current \in 1 .. Len(lib[d].pages)
  <2>1. lib[d] \in Book /\ d \in Document /\ lib[d].current \in DOMAIN lib[d].pages
    BY DEF LibraryTypeOK
  <2>2. lib[d].pages \in Seq(Leaf)
    BY <2>1 DEF Book
  <2> QED
    BY <2>1, <2>2, LenProperties
<1>2. \A id : id \in IdentitiesIn(lib) <=> \E d \in DOMAIN lib : \E i \in DOMAIN lib[d].pages : id = <<d, i>>
  BY DEF IdentitiesIn
<1>3. ASSUME NEW d \in DOMAIN lib, NEW i \in Nat
      PROVE  <<d, i>> \in IdentitiesIn(lib) <=> i \in 1 .. Len(lib[d].pages)
  <2>1. <<d, i>> \in IdentitiesIn(lib) <=> \E e \in DOMAIN lib : \E j \in DOMAIN lib[e].pages : <<d, i>> = <<e, j>>
    BY <1>2
  <2> QED
    BY <1>1, <2>1
<1>4. \A d \in DOMAIN lib : <<d, lib[d].current>> \in IdentitiesIn(lib)
  BY <1>1, <1>3
<1>5. ASSUME NEW id \in IdentitiesIn(lib)
      PROVE  /\ id \in Document \X Nat /\ id = <<id[1], id[2]>> /\ id[1] \in DOMAIN lib
             /\ id[2] \in 1 .. Len(lib[id[1]].pages)
             /\ PageAt(lib, id) \in Leaf
  <2>1. PICK d \in DOMAIN lib : \E i \in DOMAIN lib[d].pages : id = <<d, i>>
    BY <1>2
  <2>2. PICK i \in DOMAIN lib[d].pages : id = <<d, i>>
    BY <2>1
  <2>3. d \in Document /\ i \in Nat /\ i \in 1 .. Len(lib[d].pages) /\ lib[d].pages \in Seq(Leaf)
    BY <1>1
  <2>4. lib[d].pages[i] \in Leaf
    BY <2>3, ElementOfSeq
  <2> QED
    BY <2>2, <2>3, <2>4 DEF PageAt
<1> QED
  BY <1>1, <1>3, <1>4, <1>5

(* Where two libraries have the same pages under the same names.           *)
LEMMA NamesStay ==
  ASSUME NEW lib, NamesAreOwn(lib), NEW new, IdentitiesIn(new) = IdentitiesIn(lib),
         \A id \in IdentitiesIn(lib) : PageAt(new, id).name = PageAt(lib, id).name
  PROVE  NamesAreOwn(new)
  BY DEF NamesAreOwn

(* The strokes of one page are stored.                                     *)
LEMMA StoreFacts ==
  ASSUME NEW lib, LibraryOK(lib), NEW id \in IdentitiesIn(lib), NEW s \in Seq(Stroke)
  PROVE  LET new == Store(lib, id, s)
         IN  /\ LibraryOK(new) /\ DOMAIN new = DOMAIN lib
             /\ IdentitiesIn(new) = IdentitiesIn(lib)
             /\ \A d \in DOMAIN lib : new[d].current = lib[d].current
             /\ PageAt(new, id) = [name |-> PageAt(lib, id).name, strokes |-> s]
             /\ \A j \in IdentitiesIn(lib) : j # id => PageAt(new, j) = PageAt(lib, j)
<1> DEFINE new == Store(lib, id, s)
           d == id[1]
           i == id[2]
           leaf == [name |-> PageAt(lib, id).name, strokes |-> s]
<1>1. /\ LibraryTypeOK(lib) /\ NamesAreOwn(lib) /\ d \in DOMAIN lib /\ id = <<d, i>>
      /\ i \in 1 .. Len(lib[d].pages) /\ PageAt(lib, id) \in Leaf /\ PageAt(lib, id) = lib[d].pages[i]
  BY IdentityFacts DEF LibraryOK, PageAt
<1>2. lib \in [DOMAIN lib -> Book] /\ lib[d] \in Book /\ lib[d].pages \in Seq(Leaf)
  BY <1>1 DEF LibraryTypeOK, Book
<1>3. leaf \in Leaf /\ [lib[d].pages[i] EXCEPT !.strokes = s] = leaf
  BY <1>1 DEF Leaf
<1> DEFINE pages == [lib[d].pages EXCEPT ![i] = leaf]
<1>4. /\ pages \in Seq(Leaf) /\ Len(pages) = Len(lib[d].pages) /\ pages[i] = leaf
      /\ \A j \in 1 .. Len(lib[d].pages) : j # i => pages[j] = lib[d].pages[j]
  BY <1>1, <1>2, <1>3, ExceptSeq
<1>5. new = [lib EXCEPT ![d] = [current |-> lib[d].current, pages |-> pages]]
  <2>1. new = [lib EXCEPT ![d] = [lib[d] EXCEPT !.pages = [lib[d].pages EXCEPT ![i] = [lib[d].pages[i] EXCEPT !.strokes = s]]]]
    BY DEF Store
  <2>2. new = [lib EXCEPT ![d] = [lib[d] EXCEPT !.pages = pages]]
    BY <1>3, <2>1
  <2> HIDE DEF pages
  <2>3. [lib[d] EXCEPT !.pages = pages] = [current |-> lib[d].current, pages |-> pages]
    BY <1>2 DEF Book
  <2> QED
    BY <2>2, <2>3
<1> HIDE DEF pages, leaf, new
<1> DEFINE book == [current |-> lib[d].current, pages |-> pages]
<1>6. book \in Book /\ book.current = lib[d].current /\ book.pages = pages
  BY <1>2, <1>4 DEF Book
<1> HIDE DEF book
<1>7. new \in [DOMAIN lib -> Book] /\ new[d] = book /\ \A e \in DOMAIN lib : e # d => new[e] = lib[e]
  BY <1>1, <1>2, <1>5, <1>6 DEF book
<1>8. DOMAIN new = DOMAIN lib
  BY <1>7
<1>9. DOMAIN pages = 1 .. Len(lib[d].pages) /\ DOMAIN lib[d].pages = 1 .. Len(lib[d].pages)
  BY <1>2, <1>4, LenProperties
<1>10. \A e \in DOMAIN lib : DOMAIN new[e].pages = DOMAIN lib[e].pages /\ new[e].current = lib[e].current
  BY <1>6, <1>7, <1>9
<1>11. IdentitiesIn(new) = IdentitiesIn(lib)
  <2>1. \A x : x \in IdentitiesIn(lib) <=> \E e \in DOMAIN lib : \E j \in DOMAIN lib[e].pages : x = <<e, j>>
    BY DEF IdentitiesIn
  <2>2. \A x : x \in IdentitiesIn(new) <=> \E e \in DOMAIN new : \E j \in DOMAIN new[e].pages : x = <<e, j>>
    BY DEF IdentitiesIn
  <2> QED
    BY <1>8, <1>10, <2>1, <2>2
<1>12. LibraryTypeOK(new)
  BY <1>1, <1>7, <1>8, <1>10 DEF LibraryTypeOK
<1>13. PageAt(new, id) = leaf
  BY <1>1, <1>4, <1>6, <1>7 DEF PageAt
<1>14. ASSUME NEW j \in IdentitiesIn(lib), j # id  PROVE PageAt(new, j) = PageAt(lib, j)
  <2>1. j[1] \in DOMAIN lib /\ j = <<j[1], j[2]>> /\ j[2] \in 1 .. Len(lib[j[1]].pages)
    BY <1>1, IdentityFacts
  <2>2. CASE j[1] = d
    BY <1>1, <1>4, <1>6, <1>7, <1>14, <2>1, <2>2 DEF PageAt
  <2>3. CASE j[1] # d
    BY <1>7, <2>1, <2>3 DEF PageAt
  <2> QED
    BY <2>2, <2>3
<1>15. NamesAreOwn(new)
  <2>1. \A j \in IdentitiesIn(lib) : PageAt(new, j).name = PageAt(lib, j).name
    BY <1>13, <1>14 DEF leaf
  <2> QED
    BY <1>1, <1>11, <2>1, NamesStay
<1> QED
  BY <1>8, <1>10, <1>11, <1>12, <1>13, <1>14, <1>15 DEF LibraryOK, leaf, new

(* A page is turned.                                                       *)
Turned(lib, d, i) == [lib EXCEPT ![d].current = i]

(* Turning leaves every page where it is.                                  *)
LEMMA TurnFacts ==
  ASSUME NEW lib, LibraryOK(lib), NEW d \in DOMAIN lib, NEW i \in 1 .. Len(lib[d].pages)
  PROVE  LET new == Turned(lib, d, i)
         IN  /\ LibraryOK(new) /\ DOMAIN new = DOMAIN lib
             /\ IdentitiesIn(new) = IdentitiesIn(lib) /\ new[d].current = i
             /\ \A id \in IdentitiesIn(lib) : PageAt(new, id) = PageAt(lib, id)
<1> DEFINE new == Turned(lib, d, i)
           book == [current |-> i, pages |-> lib[d].pages]
<1>1. /\ LibraryTypeOK(lib) /\ lib \in [DOMAIN lib -> Book] /\ lib[d] \in Book
      /\ DOMAIN lib[d].pages = 1 .. Len(lib[d].pages) /\ Len(lib[d].pages) \in Nat
  BY IdentityFacts DEF LibraryOK, LibraryTypeOK
<1>2. new = [lib EXCEPT ![d] = [lib[d] EXCEPT !.current = i]]
  BY DEF Turned
<1>3. book \in Book /\ book.current = i /\ book.pages = lib[d].pages /\ [lib[d] EXCEPT !.current = i] = book
  BY <1>1 DEF Book
<1>4. new = [lib EXCEPT ![d] = book]
  BY <1>2, <1>3
<1> HIDE DEF new, book
<1>5. new \in [DOMAIN lib -> Book] /\ new[d] = book /\ \A e \in DOMAIN lib : e # d => new[e] = lib[e]
  BY <1>1, <1>3, <1>4
<1>6. DOMAIN new = DOMAIN lib /\ \A e \in DOMAIN lib : new[e].pages = lib[e].pages
  BY <1>3, <1>5
<1>7. LibraryTypeOK(new)
  BY <1>1, <1>3, <1>5, <1>6 DEF LibraryTypeOK
<1>8. IdentitiesIn(new) = IdentitiesIn(lib)
  <2>1. \A x : x \in IdentitiesIn(lib) <=> \E e \in DOMAIN lib : \E j \in DOMAIN lib[e].pages : x = <<e, j>>
    BY DEF IdentitiesIn
  <2>2. \A x : x \in IdentitiesIn(new) <=> \E e \in DOMAIN new : \E j \in DOMAIN new[e].pages : x = <<e, j>>
    BY DEF IdentitiesIn
  <2> QED
    BY <1>6, <2>1, <2>2
<1>9. \A id \in IdentitiesIn(lib) : PageAt(new, id) = PageAt(lib, id)
  <2> TAKE id \in IdentitiesIn(lib)
  <2>1. id[1] \in DOMAIN lib
    BY <1>1, IdentityFacts
  <2> QED
    BY <1>6, <2>1 DEF PageAt
<1>10. NamesAreOwn(new)
  BY <1>8, <1>9, NamesStay DEF LibraryOK
<1> QED
  BY <1>3, <1>5, <1>6, <1>7, <1>8, <1>9, <1>10 DEF LibraryOK, new

(* An element is inserted.                                                 *)
LEMMA InsertElements ==
  ASSUME NEW S, NEW s \in Seq(S), NEW at \in 1 .. Len(s) + 1, NEW e \in S
  PROVE  LET t == InsertAt(s, at, e)
         IN  /\ t \in Seq(S) /\ Len(t) = Len(s) + 1 /\ t[at] = e
             /\ \A i \in 1 .. Len(s) : i < at => t[i] = s[i]
             /\ \A i \in 1 .. Len(s) : i >= at => t[i + 1] = s[i]
<1> DEFINE a == SubSeq(s, 1, at - 1)
           b == SubSeq(s, at, Len(s))
           m == a \o <<e>>
<1>1. Len(s) \in Nat /\ \A i \in 1 .. Len(s) : s[i] \in S
  BY LenProperties, ElementOfSeq
<1>2. a \in Seq(S) /\ Len(a) = at - 1 /\ \A i \in 1 .. at - 1 : a[i] = s[i]
  BY <1>1, SubSeqProperties
<1>3. b \in Seq(S) /\ Len(b) = Len(s) - at + 1 /\ \A i \in 1 .. Len(s) - at + 1 : b[i] = s[at + i - 1]
  BY <1>1, SubSeqProperties
<1>4. <<e>> \in Seq(S) /\ Len(<<e>>) = 1 /\ <<e>>[1] = e
  OBVIOUS
<1> HIDE DEF a, b
<1>5. m \in Seq(S) /\ Len(m) = at /\ m[at] = e /\ \A i \in 1 .. at - 1 : m[i] = s[i]
  BY <1>2, <1>4, ConcatProperties
<1> HIDE DEF m
<1> DEFINE t == m \o b
<1>6. t = InsertAt(s, at, e)
  BY DEF t, m, a, b, InsertAt
<1>7. /\ t \in Seq(S) /\ Len(t) = at + (Len(s) - at + 1)
      /\ \A i \in 1 .. Len(t) : t[i] = IF i <= at THEN m[i] ELSE b[i - at]
  BY <1>3, <1>5, ConcatProperties
<1> HIDE DEF t
<1>8. t[at] = e /\ \A i \in 1 .. Len(s) : i < at => t[i] = s[i]
  BY <1>1, <1>5, <1>7
<1>9. ASSUME NEW i \in 1 .. Len(s), i >= at  PROVE t[i + 1] = s[i]
  <2>1. i + 1 \in 1 .. Len(t) /\ ~(i + 1 <= at) /\ (i + 1) - at \in 1 .. Len(s) - at + 1 /\ at + ((i + 1) - at) - 1 = i
    BY <1>1, <1>7, <1>9
  <2> QED
    BY <1>3, <1>7, <2>1
<1> QED
  BY <1>1, <1>6, <1>7, <1>8, <1>9

(* A blank page is inserted.                                               *)
Inserted(lib, d, at, n) ==
  [lib EXCEPT ![d].current = at, ![d].pages = InsertAt(@, at, BlankPage(n))]

(* Every page keeps its leaf, at the place where its history goes.         *)
LEMMA InsertFacts ==
  ASSUME NEW lib, LibraryOK(lib), NEW d \in DOMAIN lib, NEW at \in 1 .. Len(lib[d].pages) + 1,
         NEW n, n = Cardinality(IdentitiesIn(lib)) + 1
  PROVE  LET new == Inserted(lib, d, at, n)
         IN  /\ LibraryOK(new) /\ DOMAIN new = DOMAIN lib /\ new[d].current = at
             /\ IdentitiesIn(lib) \subseteq IdentitiesIn(new)
             /\ <<d, at>> \in IdentitiesIn(new) /\ PageAt(new, <<d, at>>) = BlankPage(n)
             /\ \A id \in IdentitiesIn(lib) :
                  Moved(id, d, at) \in IdentitiesIn(new) /\ PageAt(new, Moved(id, d, at)) = PageAt(lib, id)
             /\ \A j \in IdentitiesIn(new) :
                  j = <<d, at>> \/ \E id \in IdentitiesIn(lib) : j = Moved(id, d, at)
<1> DEFINE new == Inserted(lib, d, at, n)
           pages == InsertAt(lib[d].pages, at, BlankPage(n))
           book == [current |-> at, pages |-> pages]
           len == Len(lib[d].pages)
           own(id) == Moved(id, d, at)
<1>1. /\ LibraryTypeOK(lib) /\ NamesAreOwn(lib) /\ lib \in [DOMAIN lib -> Book] /\ lib[d] \in Book
      /\ DOMAIN lib[d].pages = 1 .. len /\ len \in Nat /\ lib[d].pages \in Seq(Leaf) /\ d \in Document
  BY IdentityFacts DEF LibraryOK, LibraryTypeOK, Book
<1>2. n \in Nat /\ BlankPage(n) \in Leaf /\ BlankPage(n).name = n
  <2>1. Cardinality(IdentitiesIn(lib)) \in Nat
    BY <1>1, FS_CardinalityType DEF NamesAreOwn
  <2> QED
    BY <2>1 DEF BlankPage, Leaf
<1>3. /\ pages \in Seq(Leaf) /\ Len(pages) = len + 1 /\ pages[at] = BlankPage(n)
      /\ \A i \in 1 .. len : i < at => pages[i] = lib[d].pages[i]
      /\ \A i \in 1 .. len : i >= at => pages[i + 1] = lib[d].pages[i]
  <2> DEFINE old  == lib[d].pages
             leaf == BlankPage(n)
  <2>1. old \in Seq(Leaf) /\ at \in 1 .. Len(old) + 1 /\ leaf \in Leaf
    BY <1>1, <1>2
  <2> HIDE DEF old, leaf
  <2>2. /\ InsertAt(old, at, leaf) \in Seq(Leaf) /\ Len(InsertAt(old, at, leaf)) = Len(old) + 1
        /\ InsertAt(old, at, leaf)[at] = leaf
        /\ \A i \in 1 .. Len(old) : i < at => InsertAt(old, at, leaf)[i] = old[i]
        /\ \A i \in 1 .. Len(old) : i >= at => InsertAt(old, at, leaf)[i + 1] = old[i]
    BY <2>1, InsertElements
  <2> QED
    BY <2>2 DEF old, leaf
<1>4. new = [lib EXCEPT ![d] = book]
  <2>1. [[lib EXCEPT ![d].current = at] EXCEPT ![d].pages = InsertAt(lib[d].pages, at, BlankPage(n))] = new
    BY DEF Inserted
  <2> HIDE DEF pages
  <2>2. [[lib[d] EXCEPT !.current = at] EXCEPT !.pages = pages] = book
    <3>1. [lib[d] EXCEPT !.current = at] = [current |-> at, pages |-> lib[d].pages]
      BY <1>1 DEF Book
    <3>2. [[current |-> at, pages |-> lib[d].pages] EXCEPT !.pages = pages] = book
      OBVIOUS
    <3> QED
      BY <3>1, <3>2
  <2>3. [[lib EXCEPT ![d].current = at] EXCEPT ![d].pages = pages] = [lib EXCEPT ![d] = book]
    BY <1>1, <2>2
  <2> QED
    BY <2>1, <2>3 DEF pages
<1> HIDE DEF pages, new
<1>5. book \in Book /\ book.current = at /\ book.pages = pages /\ at \in DOMAIN pages /\ DOMAIN pages = 1 .. len + 1
  BY <1>1, <1>3, LenProperties DEF Book
<1> HIDE DEF book
<1>6. new \in [DOMAIN lib -> Book] /\ new[d] = book /\ \A e \in DOMAIN lib : e # d => new[e] = lib[e]
  BY <1>1, <1>4, <1>5
<1>7. LibraryTypeOK(new) /\ DOMAIN new = DOMAIN lib
  BY <1>1, <1>5, <1>6 DEF LibraryTypeOK
<1>8. \A e \in DOMAIN lib, i \in Nat : <<e, i>> \in IdentitiesIn(lib) <=> i \in 1 .. Len(lib[e].pages)
  BY <1>1, IdentityFacts
<1>9. \A e \in DOMAIN lib, i \in Nat :
        <<e, i>> \in IdentitiesIn(new) <=> i \in 1 .. (IF e = d THEN len + 1 ELSE Len(lib[e].pages))
  BY <1>3, <1>5, <1>6, <1>7, IdentityFacts, ZenonT(60)
<1>10. \A id \in IdentitiesIn(lib) :
         id \in Document \X Nat /\ id = <<id[1], id[2]>> /\ id[1] \in DOMAIN lib /\ id[2] \in 1 .. Len(lib[id[1]].pages)
  BY <1>1, IdentityFacts
<1>11. \A id \in IdentitiesIn(new) :
         id \in Document \X Nat /\ id = <<id[1], id[2]>> /\ id[1] \in DOMAIN lib
  BY <1>7, IdentityFacts
<1>12. ASSUME NEW id \in IdentitiesIn(lib)
       PROVE  own(id) \in IdentitiesIn(new) /\ PageAt(new, own(id)) = PageAt(lib, id)
  <2>1. id \in Document \X Nat /\ id = <<id[1], id[2]>> /\ id[1] \in DOMAIN lib /\ id[2] \in 1 .. Len(lib[id[1]].pages)
    BY <1>10
  <2>2. CASE id[1] = d /\ id[2] >= at
    <3>1. own(id) = <<d, id[2] + 1>> /\ id[2] \in 1 .. len /\ id[2] + 1 \in 1 .. len + 1 /\ id[2] + 1 \in Nat
      BY <1>1, <2>1, <2>2 DEF Moved
    <3>2. own(id) \in IdentitiesIn(new)
      BY <1>9, <3>1
    <3>3. PageAt(new, own(id)) = pages[id[2] + 1]
      BY <1>5, <1>6, <3>1 DEF PageAt
    <3> QED
      BY <1>3, <2>2, <3>1, <3>2, <3>3 DEF PageAt
  <2>3. CASE id[1] = d /\ id[2] < at
    <3>1. own(id) = id /\ id[2] \in 1 .. len /\ id[2] \in 1 .. len + 1 /\ id[2] \in Nat
      BY <1>1, <2>1, <2>3 DEF Moved
    <3>2. own(id) \in IdentitiesIn(new)
      BY <1>9, <2>1, <2>3, <3>1
    <3>3. PageAt(new, own(id)) = pages[id[2]]
      BY <1>5, <1>6, <2>3, <3>1 DEF PageAt
    <3> QED
      BY <1>3, <2>3, <3>1, <3>2, <3>3 DEF PageAt
  <2>4. CASE id[1] # d
    <3>1. own(id) = id
      BY <2>4 DEF Moved
    <3>2. own(id) \in IdentitiesIn(new)
      BY <1>9, <2>1, <2>4, <3>1
    <3> QED
      BY <1>6, <2>1, <2>4, <3>1, <3>2 DEF PageAt
  <2>5. id[1] # d \/ (id[1] = d /\ id[2] < at) \/ (id[1] = d /\ id[2] >= at)
    BY <2>1
  <2> QED
    BY <2>2, <2>3, <2>4, <2>5
<1>13. <<d, at>> \in IdentitiesIn(new) /\ PageAt(new, <<d, at>>) = BlankPage(n)
  <2>1. at \in Nat /\ at \in 1 .. len + 1
    BY <1>1
  <2> QED
    BY <1>3, <1>5, <1>6, <1>9, <2>1 DEF PageAt
<1>14. ASSUME NEW j \in IdentitiesIn(new), j # <<d, at>>
       PROVE  \E id \in IdentitiesIn(lib) : j = own(id)
  <2>1. j \in Document \X Nat /\ j = <<j[1], j[2]>> /\ j[1] \in DOMAIN lib /\ j[2] \in Nat
    BY <1>11
  <2>2. j[2] \in 1 .. (IF j[1] = d THEN len + 1 ELSE Len(lib[j[1]].pages))
    BY <1>9, <2>1
  <2>3. CASE j[1] = d /\ j[2] > at
    <3>1. j[2] - 1 \in 1 .. len /\ j[2] - 1 \in Nat /\ j[2] - 1 >= at /\ (j[2] - 1) + 1 = j[2]
      BY <1>1, <2>1, <2>2, <2>3
    <3> DEFINE id == <<d, j[2] - 1>>
    <3>2. id \in IdentitiesIn(lib)
      BY <1>8, <3>1
    <3>3. own(id) = j
      BY <2>1, <2>3, <3>1 DEF Moved
    <3> QED
      BY <3>2, <3>3
  <2>4. CASE j[1] = d /\ j[2] < at
    <3>1. j[2] \in 1 .. len /\ own(j) = j
      BY <1>1, <2>1, <2>2, <2>4 DEF Moved
    <3> QED
      BY <1>8, <2>1, <2>4, <3>1
  <2>5. CASE j[1] # d
    <3>1. own(j) = j
      BY <2>5 DEF Moved
    <3> QED
      BY <1>8, <2>1, <2>2, <2>5, <3>1
  <2>6. ~(j[1] = d /\ j[2] = at)
    BY <1>14, <2>1
  <2> QED
    BY <1>1, <2>1, <2>3, <2>4, <2>5, <2>6
<1>15. IdentitiesIn(lib) \subseteq IdentitiesIn(new)
  <2> SUFFICES ASSUME NEW id \in IdentitiesIn(lib)  PROVE id \in IdentitiesIn(new)
    OBVIOUS
  <2>1. id[2] \in 1 .. (IF id[1] = d THEN len + 1 ELSE Len(lib[id[1]].pages)) /\ id[2] \in Nat
    BY <1>1, <1>10
  <2> QED
    BY <1>9, <1>10, <2>1
<1>16. IsFiniteSet(IdentitiesIn(new)) /\ Cardinality(IdentitiesIn(new)) = n
  <2> DEFINE last == <<d, len + 1>>
  <2>1. last \notin IdentitiesIn(lib) /\ last \in IdentitiesIn(new)
    <3>1. len + 1 \in Nat /\ len + 1 \notin 1 .. len /\ len + 1 \in 1 .. len + 1
      BY <1>1
    <3> QED
      BY <1>8, <1>9, <3>1
  <2>2. \A id \in IdentitiesIn(new) : id \in IdentitiesIn(lib) \/ id = last
    <3> TAKE id \in IdentitiesIn(new)
    <3>1. id[2] \in Nat /\ id[2] \in 1 .. (IF id[1] = d THEN len + 1 ELSE Len(lib[id[1]].pages))
      BY <1>9, <1>11
    <3>2. CASE id[1] = d /\ id[2] = len + 1
      BY <1>11, <3>2
    <3>3. CASE ~(id[1] = d /\ id[2] = len + 1)
      <4>1. id[2] \in 1 .. Len(lib[id[1]].pages)
        BY <1>1, <3>1, <3>3
      <4> QED
        BY <1>8, <1>11, <3>1, <4>1
    <3> QED
      BY <3>2, <3>3
  <2> HIDE DEF last
  <2>3. IdentitiesIn(new) = IdentitiesIn(lib) \cup {last}
    BY <1>15, <2>1, <2>2
  <2>4. IsFiniteSet(IdentitiesIn(lib))
    BY <1>1 DEF NamesAreOwn
  <2> QED
    BY <2>1, <2>3, <2>4, FS_AddElement
<1>17. \A id \in IdentitiesIn(lib) : PageAt(lib, id).name \in Nat /\ PageAt(lib, id).name < n
  <2> TAKE id \in IdentitiesIn(lib)
  <2>1. PageAt(lib, id) \in Leaf
    BY <1>1, IdentityFacts
  <2>2. PageAt(lib, id).name <= Cardinality(IdentitiesIn(lib)) /\ Cardinality(IdentitiesIn(lib)) \in Nat
    BY <1>1, FS_CardinalityType DEF NamesAreOwn
  <2> QED
    BY <2>1, <2>2 DEF Leaf
<1> HIDE DEF own
<1>18. \A j \in IdentitiesIn(new) :
         /\ PageAt(new, j).name <= n
         /\ j = <<d, at>> \/ \E id \in IdentitiesIn(lib) : j = own(id) /\ PageAt(new, j).name = PageAt(lib, id).name
  BY <1>2, <1>12, <1>13, <1>14, <1>17
<1>19. ASSUME NEW i \in IdentitiesIn(new), NEW j \in IdentitiesIn(new), PageAt(new, i).name = PageAt(new, j).name
       PROVE  i = j
  <2>1. CASE i = <<d, at>> /\ j = <<d, at>>
    BY <2>1
  <2>2. CASE i = <<d, at>> /\ j # <<d, at>>
    BY <1>2, <1>13, <1>17, <1>18, <1>19, <2>2
  <2>3. CASE i # <<d, at>> /\ j = <<d, at>>
    BY <1>2, <1>13, <1>17, <1>18, <1>19, <2>3
  <2>4. CASE i # <<d, at>> /\ j # <<d, at>>
    <3>1. PICK id \in IdentitiesIn(lib) : i = own(id) /\ PageAt(new, i).name = PageAt(lib, id).name
      BY <1>18, <2>4
    <3>2. PICK jd \in IdentitiesIn(lib) : j = own(jd) /\ PageAt(new, j).name = PageAt(lib, jd).name
      BY <1>18, <2>4
    <3>3. id = jd
      BY <1>1, <1>19, <3>1, <3>2 DEF NamesAreOwn
    <3> QED
      BY <3>1, <3>2, <3>3
  <2> QED
    BY <2>1, <2>2, <2>3, <2>4
<1>20. NamesAreOwn(new)
  BY <1>16, <1>18, <1>19 DEF NamesAreOwn
<1> QED
  BY <1>5, <1>6, <1>7, <1>12, <1>13, <1>14, <1>15, <1>20 DEF LibraryOK, new, own

(* A document of blank pages is added.                                     *)
LEMMA WithDocumentFacts ==
  ASSUME NEW lib, LibraryOK(lib), IdentitiesIn(lib) = IdentitiesIn(library),
         NEW d \in Document, d \notin DOMAIN lib, NEW n \in Nat \ {0}
  PROVE  LET new == WithDocument(lib, d, n)
         IN  /\ LibraryOK(new) /\ DOMAIN new = DOMAIN lib \cup {d}
             /\ IdentitiesIn(lib) \subseteq IdentitiesIn(new)
             /\ \A e \in DOMAIN lib : new[e] = lib[e]
             /\ \A id \in IdentitiesIn(lib) : PageAt(new, id) = PageAt(lib, id)
             /\ \A id \in IdentitiesIn(new) \ IdentitiesIn(lib) :
                  /\ PageAt(new, id).strokes = <<>>
                  /\ \A j \in IdentitiesIn(lib) : PageAt(lib, j).name # PageAt(new, id).name
<1> DEFINE new == WithDocument(lib, d, n)
           first == NextName
           pages == [i \in 1 .. n |-> BlankPage(first + i - 1)]
           book == [current |-> 1, pages |-> pages]
           ids == IdentitiesIn(lib)
<1>1. /\ LibraryTypeOK(lib) /\ NamesAreOwn(lib) /\ lib \in [DOMAIN lib -> Book]
      /\ \A e \in DOMAIN lib : lib[e].current \in DOMAIN lib[e].pages /\ DOMAIN lib[e].pages = 1 .. Len(lib[e].pages)
  BY IdentityFacts DEF LibraryOK, LibraryTypeOK
<1>2. IsFiniteSet(ids) /\ Cardinality(ids) \in Nat /\ first = Cardinality(ids) + 1
  BY <1>1, FS_CardinalityType DEF NamesAreOwn, NextName
<1> HIDE DEF first
<1>3. \A i \in 1 .. n : /\ pages[i] \in Leaf /\ pages[i].name = first + i - 1 /\ pages[i].strokes = <<>>
                        /\ first + i - 1 \in Nat /\ first + i - 1 > Cardinality(ids)
                        /\ first + i - 1 <= Cardinality(ids) + n
  <2> TAKE i \in 1 .. n
  <2>1. first + i - 1 \in Nat /\ first + i - 1 > Cardinality(ids) /\ first + i - 1 <= Cardinality(ids) + n
    BY <1>2
  <2>2. pages[i] = [name |-> first + i - 1, strokes |-> <<>>] /\ <<>> \in Seq(Stroke)
    BY EmptySeq DEF BlankPage
  <2> DEFINE number == first + i - 1
  <2>3. number \in Nat
    BY <2>1
  <2> HIDE DEF pages, ids, number
  <2>4. [name |-> number, strokes |-> <<>>] \in Leaf
    BY <2>2, <2>3 DEF Leaf
  <2>5. pages[i] = [name |-> number, strokes |-> <<>>]
    BY <2>2 DEF number
  <2>6. pages[i] \in Leaf /\ pages[i].name = number /\ pages[i].strokes = <<>>
    BY <2>4, <2>5
  <2> QED
    BY <2>1, <2>6 DEF number
<1>4. pages \in Seq(Leaf) /\ Len(pages) = n /\ DOMAIN pages = 1 .. n
  BY <1>3, IsASeq
<1>5. book \in Book /\ book.pages = pages /\ book.current = 1 /\ 1 \in DOMAIN pages
  BY <1>4 DEF Book
<1>6. new = [e \in DOMAIN lib \cup {d} |-> IF e = d THEN book ELSE lib[e]]
  BY DEF WithDocument, first
<1> HIDE DEF pages, book, new
<1>7. /\ DOMAIN new = DOMAIN lib \cup {d} /\ new[d] = book /\ \A e \in DOMAIN lib : new[e] = lib[e]
      /\ new \in [DOMAIN lib \cup {d} -> Book]
  BY <1>1, <1>5, <1>6
<1>8. LibraryTypeOK(new)
  BY <1>1, <1>5, <1>7 DEF LibraryTypeOK
<1>9. \A x : x \in ids <=> \E e \in DOMAIN lib : \E j \in DOMAIN lib[e].pages : x = <<e, j>>
  BY DEF IdentitiesIn
<1>10. \A x : x \in IdentitiesIn(new) <=> \E e \in DOMAIN new : \E j \in DOMAIN new[e].pages : x = <<e, j>>
  BY DEF IdentitiesIn
<1> DEFINE fresh == {<<d, i>> : i \in 1 .. n}
<1>11. IdentitiesIn(new) = ids \cup fresh /\ ids \cap fresh = {}
  <2> HIDE DEF ids
  <2>1. \A x : x \in fresh <=> \E j \in DOMAIN new[d].pages : x = <<d, j>>
    BY <1>4, <1>5, <1>7
  <2>2. \A x : x \in IdentitiesIn(new) <=> x \in ids \/ x \in fresh
    BY <1>7, <1>9, <1>10, <2>1
  <2>3. \A x : ~(x \in ids /\ x \in fresh)
    BY <1>7, <1>9, <2>1
  <2> QED
    BY <2>2, <2>3
<1>12. \A id \in ids : PageAt(new, id) = PageAt(lib, id) /\ PageAt(lib, id).name \in Nat /\ PageAt(lib, id).name <= Cardinality(ids)
  <2> TAKE id \in ids
  <2>1. id[1] \in DOMAIN lib /\ PageAt(lib, id) \in Leaf
    BY <1>1, IdentityFacts
  <2>2. PageAt(new, id) = PageAt(lib, id)
    BY <1>7, <2>1 DEF PageAt
  <2> QED
    BY <1>1, <2>1, <2>2 DEF NamesAreOwn, Leaf
<1>13. \A i \in 1 .. n : PageAt(new, <<d, i>>) = pages[i]
  BY <1>5, <1>7 DEF PageAt
<1>14. IsFiniteSet(fresh) /\ Cardinality(fresh) = n
  <2> DEFINE f == [i \in 1 .. n |-> <<d, i>>]
  <2>1. f \in Bijection(1 .. n, fresh)
    <3>1. f \in [1 .. n -> fresh]
      OBVIOUS
    <3>2. \A i, j \in 1 .. n : f[i] = f[j] => i = j
      OBVIOUS
    <3>3. \A x \in fresh : \E i \in 1 .. n : f[i] = x
      OBVIOUS
    <3> QED
      BY <3>1, <3>2, <3>3 DEF Bijection, Injection, IsInjective, Surjection
  <2>2. ExistsBijection(1 .. n, fresh)
    BY <2>1 DEF ExistsBijection
  <2>3. IsFiniteSet(1 .. n) /\ Cardinality(1 .. n) = n
    <3>1. 1 \in Int /\ n \in Int /\ ~(1 > n) /\ n - 1 + 1 = n
      OBVIOUS
    <3> QED
      BY <3>1, FS_Interval
  <2> QED
    BY <2>2, <2>3, FS_Bijection
<1>15. IsFiniteSet(IdentitiesIn(new)) /\ Cardinality(IdentitiesIn(new)) = Cardinality(ids) + n
  <2> HIDE DEF fresh, ids
  <2>1. IsFiniteSet(ids \cup fresh) /\ Cardinality(ids \cup fresh) = Cardinality(ids) + n - Cardinality(ids \cap fresh)
    BY <1>2, <1>14, FS_Union
  <2>2. Cardinality(ids \cap fresh) = 0
    BY <1>11, FS_EmptySet
  <2> QED
    BY <1>2, <1>11, <2>1, <2>2
<1>16. \A id \in fresh : \E i \in 1 .. n : id = <<d, i>> /\ PageAt(new, id) = pages[i]
  BY <1>13
<1>17. \A id \in fresh : /\ PageAt(new, id).strokes = <<>> /\ PageAt(new, id).name \in Nat
                         /\ PageAt(new, id).name > Cardinality(ids)
                         /\ PageAt(new, id).name <= Cardinality(ids) + n
  <2> HIDE DEF fresh, ids
  <2> QED
    BY <1>3, <1>16
<1>18. NamesAreOwn(new)
  <2>1. \A id \in IdentitiesIn(new) : PageAt(new, id).name <= Cardinality(ids) + n
    <3> HIDE DEF fresh, ids
    <3>1. \A a, b, c \in Nat : a <= b => a <= b + c
      OBVIOUS
    <3> QED
      BY <1>2, <1>11, <1>12, <1>17, <3>1
  <2>2. ASSUME NEW i \in IdentitiesIn(new), NEW j \in IdentitiesIn(new), PageAt(new, i).name = PageAt(new, j).name
        PROVE  i = j
    <3>1. CASE i \in ids /\ j \in ids
      BY <1>1, <1>12, <2>2, <3>1 DEF NamesAreOwn
    <3>2. CASE i \in ids /\ j \in fresh
      <4> HIDE DEF fresh, ids
      <4> QED
        BY <1>2, <1>12, <1>17, <2>2, <3>2
    <3>3. CASE i \in fresh /\ j \in ids
      <4> HIDE DEF fresh, ids
      <4> QED
        BY <1>2, <1>12, <1>17, <2>2, <3>3
    <3>4. CASE i \in fresh /\ j \in fresh
      <4>1. PICK a \in 1 .. n : i = <<d, a>> /\ PageAt(new, i) = pages[a]
        BY <1>16, <3>4
      <4>2. PICK b \in 1 .. n : j = <<d, b>> /\ PageAt(new, j) = pages[b]
        BY <1>16, <3>4
      <4>3. first + a - 1 = first + b - 1
        BY <1>3, <2>2, <4>1, <4>2
      <4>4. a = b
        BY <1>2, <4>3
      <4> QED
        BY <4>1, <4>2, <4>4
    <3> HIDE DEF fresh, ids
    <3> QED
      BY <1>11, <3>1, <3>2, <3>3, <3>4
  <2> QED
    BY <1>15, <2>1, <2>2 DEF NamesAreOwn
<1>19. \A id \in IdentitiesIn(new) \ ids :
         PageAt(new, id).strokes = <<>> /\ \A j \in ids : PageAt(lib, j).name # PageAt(new, id).name
  <2> HIDE DEF fresh, ids
  <2> QED
    BY <1>2, <1>11, <1>12, <1>17
<1> QED
  BY <1>7, <1>8, <1>11, <1>12, <1>18, <1>19 DEF LibraryOK, new

(* Storing the strokes that a page has changes nothing.                    *)
LEMMA StoreNothing ==
  ASSUME NEW lib, LibraryOK(lib), NEW id \in IdentitiesIn(lib)
  PROVE  Store(lib, id, PageAt(lib, id).strokes) = lib
<1> DEFINE d == id[1]
           i == id[2]
           s == PageAt(lib, id).strokes
<1>1. /\ lib \in [DOMAIN lib -> Book] /\ d \in DOMAIN lib /\ lib[d] \in Book /\ lib[d].pages \in Seq(Leaf)
      /\ i \in DOMAIN lib[d].pages /\ lib[d].pages[i] \in Leaf /\ s = lib[d].pages[i].strokes
  BY IdentityFacts DEF LibraryOK, LibraryTypeOK, PageAt, Book
<1>2. Store(lib, id, s) =
        [lib EXCEPT ![d] = [lib[d] EXCEPT !.pages = [lib[d].pages EXCEPT ![i] = [lib[d].pages[i] EXCEPT !.strokes = s]]]]
  BY DEF Store
<1>3. [lib[d].pages[i] EXCEPT !.strokes = s] = lib[d].pages[i]
  BY <1>1 DEF Leaf
<1>4. [lib[d].pages EXCEPT ![i] = lib[d].pages[i]] = lib[d].pages
  <2>1. \E n \in Nat : lib[d].pages \in [1 .. n -> Leaf]
    BY <1>1, SeqDef
  <2> QED
    BY <2>1
<1>5. [lib[d] EXCEPT !.pages = lib[d].pages] = lib[d]
  BY <1>1 DEF Book
<1>6. [lib EXCEPT ![d] = lib[d]] = lib
  BY <1>1
<1> QED
  BY <1>2, <1>3, <1>4, <1>5, <1>6

(* A library, when the strokes p of the open page are stored.              *)
StoredIn(lib, o, p) == IF o = NoDocument THEN lib ELSE Store(lib, <<o, lib[o].current>>, p)

(* What storing the open page changes.                                     *)
LEMMA StoredInFacts ==
  ASSUME NEW lib, LibraryOK(lib), NEW o \in DOMAIN lib \cup {NoDocument}, NEW p \in Seq(Stroke)
  PROVE  LET new == StoredIn(lib, o, p)
             id  == <<o, lib[o].current>>
         IN  /\ LibraryOK(new) /\ DOMAIN new = DOMAIN lib /\ IdentitiesIn(new) = IdentitiesIn(lib)
             /\ \A d \in DOMAIN lib : new[d].current = lib[d].current
             /\ \A j \in IdentitiesIn(lib) : PageAt(new, j).name = PageAt(lib, j).name
             /\ \A j \in IdentitiesIn(lib) :
                  o = NoDocument \/ j # id => PageAt(new, j) = PageAt(lib, j)
             /\ o # NoDocument =>
                  id \in IdentitiesIn(lib) /\ PageAt(new, id) = [name |-> PageAt(lib, id).name, strokes |-> p]
             /\ o = NoDocument \/ PageAt(lib, id).strokes = p => new = lib
<1> DEFINE new == StoredIn(lib, o, p)
           id  == <<o, lib[o].current>>
<1>1. CASE o = NoDocument
  <2>1. new = lib
    BY <1>1 DEF StoredIn
  <2> HIDE DEF new
  <2> QED
    BY <1>1, <2>1 DEF new
<1>2. CASE o # NoDocument
  <2>1. id \in IdentitiesIn(lib) /\ new = Store(lib, id, p)
    BY <1>2, IdentityFacts DEF StoredIn, LibraryOK
  <2> HIDE DEF id
  <2>2. /\ LibraryOK(new) /\ DOMAIN new = DOMAIN lib
        /\ IdentitiesIn(new) = IdentitiesIn(lib)
        /\ \A d \in DOMAIN lib : new[d].current = lib[d].current
        /\ PageAt(new, id) = [name |-> PageAt(lib, id).name, strokes |-> p]
        /\ \A j \in IdentitiesIn(lib) : j # id => PageAt(new, j) = PageAt(lib, j)
    BY <2>1, StoreFacts
  <2>3. PageAt(lib, id).strokes = p => new = lib
    BY <2>1, StoreNothing
  <2> HIDE DEF new
  <2>4. \A j \in IdentitiesIn(lib) : PageAt(new, j).name = PageAt(lib, j).name
    BY <2>2
  <2> QED
    BY <1>2, <2>1, <2>2, <2>3, <2>4 DEF new, id
<1> QED
  BY <1>1, <1>2

(* The strokes under a name.                                               *)
LEMMA StrokesOfFacts ==
  ASSUME NEW lib, NamesAreOwn(lib)
  PROVE  /\ \A id \in IdentitiesIn(lib) : StrokesOf(lib, PageAt(lib, id).name) = PageAt(lib, id).strokes
         /\ \A n : (\A id \in IdentitiesIn(lib) : PageAt(lib, id).name # n) => StrokesOf(lib, n) = <<>>
<1>1. ASSUME NEW id \in IdentitiesIn(lib)
      PROVE  StrokesOf(lib, PageAt(lib, id).name) = PageAt(lib, id).strokes
  <2> DEFINE ids == {j \in IdentitiesIn(lib) : PageAt(lib, j).name = PageAt(lib, id).name}
  <2>1. ids = {id}
    BY DEF NamesAreOwn
  <2> HIDE DEF ids
  <2>2. ids # {} /\ (CHOOSE j \in ids : TRUE) = id
    BY <2>1
  <2> QED
    BY <2>2 DEF StrokesOf, ids
<1>2. ASSUME NEW n, \A id \in IdentitiesIn(lib) : PageAt(lib, id).name # n
      PROVE  StrokesOf(lib, n) = <<>>
  <2>1. {id \in IdentitiesIn(lib) : PageAt(lib, id).name = n} = {}
    BY <1>2
  <2> QED
    BY <2>1 DEF StrokesOf
<1> QED
  BY <1>1, <1>2

(* Pages that are elsewhere what they were, or were blank and are gone,    *)
(* have not changed.                                                       *)
LEMMA ChangedFacts ==
  ASSUME NEW a, NamesAreOwn(a), NEW b, NamesAreOwn(b), NEW S,
         \A id \in IdentitiesIn(a) :
           \/ PageAt(a, id).name \in S
           \/ \E j \in IdentitiesIn(b) : PageAt(b, j).name = PageAt(a, id).name /\ PageAt(b, j).strokes = PageAt(a, id).strokes
           \/ /\ PageAt(a, id).strokes = <<>>
              /\ \A j \in IdentitiesIn(b) : PageAt(b, j).name # PageAt(a, id).name
  PROVE  Changed(a, b) \subseteq S
<1> SUFFICES ASSUME NEW n \in Changed(a, b)  PROVE n \in S
  OBVIOUS
<1>1. PICK id \in IdentitiesIn(a) : n = PageAt(a, id).name /\ StrokesOf(a, n) # StrokesOf(b, n)
  BY DEF Changed
<1>2. StrokesOf(a, n) = PageAt(a, id).strokes
  BY <1>1, StrokesOfFacts
<1>3. ASSUME NEW j \in IdentitiesIn(b), PageAt(b, j).name = n, PageAt(b, j).strokes = PageAt(a, id).strokes
      PROVE  FALSE
  BY <1>1, <1>2, <1>3, StrokesOfFacts
<1>4. ASSUME PageAt(a, id).strokes = <<>>, \A j \in IdentitiesIn(b) : PageAt(b, j).name # n
      PROVE  FALSE
  BY <1>1, <1>2, <1>4, StrokesOfFacts
<1> QED
  BY <1>1, <1>3, <1>4

(* Where two libraries have the same pages, but for the strokes of a few.  *)
LEMMA AlikeFacts ==
  ASSUME NEW a, LibraryOK(a), NEW b, LibraryOK(b), NEW S, IdentitiesIn(b) = IdentitiesIn(a),
         \A id \in IdentitiesIn(a) :
           /\ PageAt(b, id).name = PageAt(a, id).name
           /\ PageAt(a, id).name \in S \/ PageAt(b, id).strokes = PageAt(a, id).strokes
  PROVE  Changed(a, b) \subseteq S /\ Changed(b, a) \subseteq S
<1>1. NamesAreOwn(a) /\ NamesAreOwn(b)
  BY DEF LibraryOK
<1> QED
  BY <1>1, ChangedFacts

-----------------------------------------------------------------------------
(* The invariant                                                           *)

IsWriting ==
  /\ writing.by \in {"none", "pen", "request", "share", "relay"}
  /\ writing.next \in {"none", "library", "histories"}
  /\ writing = [by |-> writing.by, next |-> writing.next]
  /\ writing.by = "none" <=> writing.next = "none"
IsRelaying == writing.by = "relay"

Types ==
  /\ LibraryOK(library) /\ LibraryOK(file.library) /\ LibraryOK(agreed.library)
  /\ HistoriesOK(histories) /\ HistoriesOK(file.histories)
  /\ file = [library |-> file.library, histories |-> file.histories]
  /\ open \in DOMAIN library \cup {NoDocument}
  /\ page \in Seq(Stroke)
  /\ session \in IdentitiesIn(library) \cup {NotShared}
  /\ IsWriting
  /\ IsRelaying => session # NotShared
  /\ writing.by = "share" => open # NoDocument

(* Histories belong to pages, and pages are only ever added.               *)
PagesExist ==
  /\ Identities(histories) \subseteq IdentitiesIn(library)
  /\ Identities(file.histories) \subseteq IdentitiesIn(file.library)
  /\ IdentitiesIn(file.library) \subseteq IdentitiesIn(library)

(* Between the two writes.                                                 *)
InTransit ==
  writing.next = "histories" =>
    /\ file.library = library
    /\ IsRelaying => session \notin Identities(histories)

(* The page that is open is in the library, except while the relay's page  *)
(* is on its way to it, or was lost on its way.                            *)
PageIsStored ==
  \/ open = NoDocument
  \/ page = PageAt(library, Identity).strokes
  \/ IsRelaying /\ IsShared
  \/ writing = Idle /\ unsaved /\ session = NotShared

IsFit(lib, old, h) ==
  PageAt(lib, h.identity).name \in old \/ FitsWell(PageAt(lib, h.identity).strokes, h)

(* A history is that of its page, except where the relay's page is on its  *)
(* way, and that in the file is that of the page in the file with which it *)
(* was written.                                                            *)
MemoryFits ==
  \A k \in DOMAIN histories :
    (IsRelaying /\ histories[k].identity = session) \/ IsFit(Stored, stale, histories[k])
FileFits ==
  \A k \in DOMAIN file.histories :
    file.histories[k].identity \in IdentitiesIn(agreed.library) =>
      IsFit(agreed.library, agreed.stale, file.histories[k])

(* A process that stops loses what was done to one page.                   *)
OnePageAhead == unsaved \/ \E n : Changed(Stored, file.library) \subseteq {n}

NotebookInv ==
  /\ Types /\ PagesExist /\ InTransit /\ PageIsStored /\ NothingIsUnsaved
  /\ MemoryFits /\ FileFits /\ OnePageAhead

(* What the open page is, and what storing it changes.                     *)
LEMMA StoredFacts ==
  ASSUME Types
  PROVE  /\ Stored = StoredIn(library, open, page)
         /\ LibraryOK(Stored) /\ DOMAIN Stored = DOMAIN library
         /\ IdentitiesIn(Stored) = IdentitiesIn(library)
         /\ \A d \in DOMAIN library : Stored[d].current = library[d].current
         /\ \A j \in IdentitiesIn(library) : PageAt(Stored, j).name = PageAt(library, j).name
         /\ \A j \in IdentitiesIn(library) :
              open = NoDocument \/ j # Identity => PageAt(Stored, j) = PageAt(library, j)
         /\ open # NoDocument =>
              /\ open \in DOMAIN library /\ Identity \in IdentitiesIn(library) /\ Identity \in Document \X Nat
              /\ PageAt(Stored, Identity) = [name |-> PageAt(library, Identity).name, strokes |-> page]
         /\ open = NoDocument \/ PageAt(library, Identity).strokes = page => Stored = library
<1>1. LibraryOK(library) /\ open \in DOMAIN library \cup {NoDocument} /\ page \in Seq(Stroke)
  BY DEF Types
<1>2. Stored = StoredIn(library, open, page) /\ Identity = <<open, library[open].current>>
  BY DEF Stored, StoredIn, Identity
<1>3. Identity \in IdentitiesIn(library) => Identity \in Document \X Nat
  BY <1>1, IdentityFacts DEF LibraryOK
<1> QED
  BY <1>1, <1>2, <1>3, StoredInFacts

(* A handler that leaves the files to be written.                          *)
LEMMA HandlerFacts ==
  ASSUME NotebookInv, writing = Idle, NEW who \in {"pen", "request", "share", "relay"},
         writing' = ToWrite(who), UNCHANGED <<session, file, agreed, unsaved>>,
         LibraryOK(library'), IdentitiesIn(library) \subseteq IdentitiesIn(library'),
         HistoriesOK(histories'), Identities(histories') \subseteq IdentitiesIn(library'),
         open' \in DOMAIN library' \cup {NoDocument}, page' \in Seq(Stroke),
         who = "relay" => session # NotShared, who = "share" => open' # NoDocument,
         PageIsStored', MemoryFits',
         \E n : Changed(Stored', Stored) \subseteq {n}
  PROVE  NotebookInv'
<1>1. Types /\ PagesExist /\ FileFits /\ NothingIsUnsaved
  BY DEF NotebookInv
<1>2. writing'.by = who /\ writing'.next = "library" /\ IsWriting'
  BY DEF ToWrite, IsWriting
<1>3. Types'
  BY <1>1, <1>2 DEF Types, IsRelaying
<1>4. PagesExist'
  BY <1>1 DEF PagesExist
<1>5. InTransit'
  BY <1>2 DEF InTransit
<1>6. NothingIsUnsaved'
  BY <1>2 DEF NothingIsUnsaved, Idle
<1>7. FileFits'
  BY <1>1 DEF FileFits, IsFit
<1>8. OnePageAhead'
  <2>1. ~unsaved => file.library = Stored
    BY <1>1 DEF NothingIsUnsaved
  <2> QED
    BY <2>1 DEF OnePageAhead
<1> QED
  BY <1>3, <1>4, <1>5, <1>6, <1>7, <1>8 DEF NotebookInv

(* The two properties of steps.                                            *)
UndoStep ==
  PageIsOpen /\ ~IsShared /\ open' = open /\ Identity' = Identity /\ page' # page
    => TakesBack(HistoryOf(histories', Identity), page, page')
PagesStep ==
  unsaved \/ Changed(Stored, Stored') = {}
     \/ /\ Cardinality(Changed(Stored, Stored')) = 1
        /\ \/ open # NoDocument /\ open' = open /\ Identity' = Identity
           \/ session # NotShared
                /\ Changed(Stored, Stored') = {PageAt(library, session).name}
           \/ library' = file.library

(* A step that changes the strokes of one page at most.                    *)
LEMMA OneChange ==
  ASSUME NEW n, Changed(Stored, Stored') \subseteq {n},
         \/ open # NoDocument /\ open' = open /\ Identity' = Identity
         \/ session # NotShared /\ n = PageAt(library, session).name
         \/ library' = file.library
  PROVE  PagesStep
<1>1. Changed(Stored, Stored') = {} \/ Changed(Stored, Stored') = {n}
  OBVIOUS
<1>2. Cardinality({n}) = 1
  BY FS_Singleton
<1> QED
  BY <1>1, <1>2 DEF PagesStep

(* A history that fits a page fits it wherever it is.                      *)
LEMMA FitMoves ==
  ASSUME NEW a, NEW old, NEW h, IsFit(a, old, h), NEW b, NEW new, old \subseteq new,
         NEW g, g.undo = h.undo, g.redo = h.redo,
         PageAt(b, g.identity).name = PageAt(a, h.identity).name,
         PageAt(b, g.identity).strokes = PageAt(a, h.identity).strokes
  PROVE  IsFit(b, new, g)
  BY DEF IsFit, FitsWell

(* The page that is open becomes `after', and the histories of the other   *)
(* pages stay.                                                             *)
LEMMA ReplaceFacts ==
  ASSUME NotebookInv, PageIsOpen, NEW after \in Seq(Stroke), NEW who \in {"pen", "request"},
         page' = after, library' = Store(library, Identity, after), writing' = ToWrite(who),
         UNCHANGED <<open, session, file, agreed, unsaved>>,
         stale \subseteq stale', HistoriesOK(histories'),
         Identities(histories') \subseteq Identities(histories) \cup {Identity},
         \A k \in DOMAIN histories' :
           \/ \E j \in DOMAIN histories : histories'[k] = histories[j] /\ histories[j].identity # Identity
           \/ /\ histories'[k].identity = Identity
              /\ PageAt(library, Identity).name \in stale' \/ FitsWell(after, histories'[k])
  PROVE  NotebookInv' /\ PagesStep /\ Identity' = Identity
<1> DEFINE id == Identity
<1>1. /\ Types /\ PagesExist /\ MemoryFits /\ writing = Idle /\ open # NoDocument
      /\ writing.by = "none" /\ LibraryOK(library)
  BY DEF NotebookInv, PageIsOpen, Types, Idle
<1>2. /\ IdentitiesIn(Stored) = IdentitiesIn(library) /\ LibraryOK(Stored)
      /\ \A j \in IdentitiesIn(library) : PageAt(Stored, j).name = PageAt(library, j).name
      /\ \A j \in IdentitiesIn(library) : j # id => PageAt(Stored, j) = PageAt(library, j)
      /\ open \in DOMAIN library /\ id \in IdentitiesIn(library)
      /\ PageAt(Stored, id) = [name |-> PageAt(library, id).name, strokes |-> page]
  BY <1>1, StoredFacts
<1>3. /\ LibraryOK(library') /\ DOMAIN library' = DOMAIN library
      /\ IdentitiesIn(library') = IdentitiesIn(library)
      /\ \A d \in DOMAIN library : library'[d].current = library[d].current
      /\ PageAt(library', id) = [name |-> PageAt(library, id).name, strokes |-> after]
      /\ \A j \in IdentitiesIn(library) : j # id => PageAt(library', j) = PageAt(library, j)
  BY <1>1, <1>2, StoreFacts
<1>4. Identity' = id /\ open' = open /\ open' \in DOMAIN library' \cup {NoDocument} /\ page' \in Seq(Stroke)
  BY <1>2, <1>3 DEF Identity
<1>5. page' = PageAt(library', id).strokes
  BY <1>3
<1>6. Stored' = library'
  <2>1. Stored' = Store(library', id, page')
    BY <1>1, <1>4 DEF Stored
  <2> QED
    BY <1>2, <1>3, <1>5, <2>1, StoreNothing
<1> HIDE DEF id
<1>7. PageIsStored'
  BY <1>4, <1>5 DEF PageIsStored
<1>8. MemoryFits'
  <2> SUFFICES ASSUME NEW k \in DOMAIN histories'  PROVE IsFit(library', stale', histories'[k])
    BY <1>6 DEF MemoryFits
  <2>1. CASE \E j \in DOMAIN histories : histories'[k] = histories[j] /\ histories[j].identity # id
    <3>1. PICK j \in DOMAIN histories : histories'[k] = histories[j] /\ histories[j].identity # id
      BY <2>1
    <3>2. histories[j].identity \in IdentitiesIn(library) /\ IsFit(Stored, stale, histories[j])
      BY <1>1 DEF PagesExist, Identities, MemoryFits, IsRelaying
    <3>3. PageAt(library', histories[j].identity) = PageAt(Stored, histories[j].identity)
      BY <1>2, <1>3, <3>1, <3>2
    <3> QED
      BY <3>1, <3>2, <3>3, FitMoves
  <2>2. CASE /\ histories'[k].identity = id
             /\ PageAt(library, id).name \in stale' \/ FitsWell(after, histories'[k])
    <3>1. PageAt(library', id).name = PageAt(library, id).name /\ PageAt(library', id).strokes = after
      BY <1>3
    <3> QED
      BY <2>2, <3>1 DEF IsFit
  <2> QED
    BY <2>1, <2>2 DEF id
<1>9. /\ Changed(Stored', Stored) \subseteq {PageAt(library, id).name}
      /\ Changed(Stored, Stored') \subseteq {PageAt(library, id).name}
  <2> DEFINE S == {PageAt(library, id).name}
  <2>1. LibraryOK(Stored) /\ LibraryOK(Stored') /\ IdentitiesIn(Stored') = IdentitiesIn(Stored)
    BY <1>2, <1>3, <1>6
  <2>2. \A j \in IdentitiesIn(Stored) :
          /\ PageAt(Stored', j).name = PageAt(Stored, j).name
          /\ PageAt(Stored, j).name \in S \/ PageAt(Stored', j).strokes = PageAt(Stored, j).strokes
    <3> TAKE j \in IdentitiesIn(Stored)
    <3>1. j \in IdentitiesIn(library)
      BY <1>2
    <3>2. CASE j = id
      BY <1>2, <1>3, <1>6, <3>2
    <3>3. CASE j # id
      BY <1>2, <1>3, <1>6, <3>1, <3>3
    <3> QED
      BY <3>2, <3>3
  <2> HIDE DEF S
  <2>3. Changed(Stored, Stored') \subseteq S /\ Changed(Stored', Stored) \subseteq S
    BY <2>1, <2>2, AlikeFacts
  <2> QED
    BY <2>3 DEF S
<1>10. Identities(histories') \subseteq IdentitiesIn(library')
  BY <1>1, <1>2, <1>3 DEF PagesExist, id
<1>11. NotebookInv'
  <2>1. who \in {"pen", "request", "share", "relay"} /\ who # "share" /\ who # "relay"
    OBVIOUS
  <2>2. IdentitiesIn(library) \subseteq IdentitiesIn(library')
    BY <1>3
  <2> QED
    BY <1>1, <1>3, <1>4, <1>7, <1>8, <1>9, <1>10, <2>1, <2>2, HandlerFacts
<1>12. PagesStep
  BY <1>1, <1>4, <1>9, OneChange DEF id
<1> QED
  BY <1>4, <1>11, <1>12 DEF id

(* Another page is shown, of a library in which no page that was there has *)
(* changed.                                                                *)
LEMMA ShowFacts ==
  ASSUME NotebookInv, writing = Idle, NEW lib, NEW d \in DOMAIN lib, NEW who \in {"pen", "request"},
         Show(d, lib, who), LibraryOK(lib), IdentitiesIn(library) \subseteq IdentitiesIn(lib),
         HistoriesOK(histories'), Identities(histories') \subseteq IdentitiesIn(lib),
         \A k \in DOMAIN histories' : IsFit(lib, stale, histories'[k]),
         Changed(lib, Stored) = {}, Changed(Stored, lib) = {}
  PROVE  NotebookInv' /\ PagesStep
<1> DEFINE id == <<d, lib[d].current>>
<1>1. /\ library' = lib /\ open' = d /\ page' = PageAt(lib, id).strokes /\ writing' = ToWrite(who)
      /\ UNCHANGED <<session, file, agreed, stale, unsaved>>
  BY DEF Show, PageAt
<1>2. d \in Document /\ id \in IdentitiesIn(lib) /\ PageAt(lib, id) \in Leaf
  BY IdentityFacts DEF LibraryOK
<1>3. d # NoDocument /\ page' \in Seq(Stroke) /\ Identity' = id
  BY <1>1, <1>2, NotebookAssumption DEF Leaf, Identity
<1>4. Stored' = lib
  <2>1. Stored' = Store(lib, id, page')
    BY <1>1, <1>3 DEF Stored
  <2> QED
    BY <1>1, <1>2, <2>1, StoreNothing
<1> HIDE DEF id
<1>5. PageIsStored'
  BY <1>1, <1>3 DEF PageIsStored
<1>6. MemoryFits'
  BY <1>1, <1>4 DEF MemoryFits
<1>7. \E n : Changed(Stored', Stored) \subseteq {n}
  BY <1>4
<1>8. NotebookInv'
  <2>1. who \in {"pen", "request", "share", "relay"} /\ who # "share" /\ who # "relay"
    OBVIOUS
  <2>2. LibraryOK(library') /\ IdentitiesIn(library) \subseteq IdentitiesIn(library') /\ open' \in DOMAIN library' \cup {NoDocument}
    BY <1>1
  <2>3. Identities(histories') \subseteq IdentitiesIn(library')
    BY <1>1
  <2> QED
    BY <1>1, <1>3, <1>5, <1>6, <1>7, <2>1, <2>2, <2>3, HandlerFacts
<1> QED
  BY <1>4, <1>8 DEF PagesStep

-----------------------------------------------------------------------------
(* Edits                                                                   *)

(* An edit of the page that is open.                                       *)
LEMMA EditFacts ==
  ASSUME NotebookInv, PageIsOpen, NEW after \in Seq(Stroke), NEW who \in {"pen", "request"},
         EditTo(after, who)
  PROVE  NotebookInv' /\ PagesStep /\ UndoStep
<1> DEFINE id == Identity
           old == HistoryOf(histories, id)
           new == RecordedHistory(old, page, after)
           name == PageAt(library, id).name
<1>1. /\ Types /\ PagesExist /\ MemoryFits /\ writing = Idle /\ open # NoDocument /\ writing.by = "none"
  BY DEF NotebookInv, PageIsOpen, Idle
<1>2. page \in Seq(Stroke) /\ HistoriesOK(histories)
  BY <1>1 DEF Types
<1>3. id \in Document \X Nat /\ id \in IdentitiesIn(library) /\ PageAt(Stored, id) = [name |-> name, strokes |-> page]
  BY <1>1, StoredFacts
<1>4. /\ page' = after /\ library' = Store(library, id, after) /\ writing' = ToWrite(who)
      /\ UNCHANGED <<open, session, file, agreed, unsaved>> /\ stale \subseteq stale'
      /\ histories' = IF IsShared THEN histories ELSE Recorded(histories, id, page, after)
      /\ IsShared /\ id \in Identities(histories) => name \in stale'
  BY DEF EditTo
<1> HIDE DEF name, id
<1>5. ASSUME NEW k \in DOMAIN histories, histories[k].identity = id
      PROVE  name \in stale \/ FitsWell(page, histories[k])
  <2>1. IsFit(Stored, stale, histories[k])
    BY <1>1 DEF MemoryFits, IsRelaying
  <2> QED
    BY <1>3, <1>5, <2>1 DEF IsFit
<1>6. CASE IsShared
  <2>1. ASSUME NEW k \in DOMAIN histories', ~ \E j \in DOMAIN histories : histories'[k] = histories[j] /\ histories[j].identity # id
        PROVE  histories'[k].identity = id /\ name \in stale'
    <3>1. histories' = histories /\ histories[k].identity = id /\ id \in Identities(histories)
      BY <1>4, <1>6, <2>1 DEF Identities
    <3> QED
      BY <1>4, <1>6, <3>1
  <2>2. HistoriesOK(histories') /\ Identities(histories') \subseteq Identities(histories) \cup {id}
    BY <1>2, <1>4, <1>6
  <2>3. NotebookInv' /\ PagesStep
    BY <1>4, <2>1, <2>2, ReplaceFacts DEF id, name
  <2> QED
    BY <1>6, <2>3 DEF UndoStep
<1>7. CASE ~IsShared /\ page = after
  <2>1. histories' = histories
    BY <1>4, <1>7 DEF Recorded
  <2>2. ASSUME NEW k \in DOMAIN histories', ~ \E j \in DOMAIN histories : histories'[k] = histories[j] /\ histories[j].identity # id
        PROVE  histories'[k].identity = id /\ (name \in stale' \/ FitsWell(after, histories'[k]))
    <3>1. histories[k].identity = id
      BY <2>1, <2>2
    <3> QED
      BY <1>4, <1>5, <1>7, <2>1, <3>1
  <2>3. HistoriesOK(histories') /\ Identities(histories') \subseteq Identities(histories) \cup {id}
    BY <1>2, <2>1
  <2>4. NotebookInv' /\ PagesStep
    BY <1>4, <2>2, <2>3, ReplaceFacts DEF id, name
  <2> QED
    BY <1>4, <1>7, <2>4 DEF UndoStep
<1>8. CASE ~IsShared /\ page # after
  <2>1. IsSized(old) /\ old.identity = id
    BY <1>2, <1>3, HistoryOfFacts
  <2>2. /\ IsSized(new) /\ new.identity = id /\ new.undo # << >> /\ Last(new.undo) = Between(page, after)
        /\ FitsWell(page, old) => FitsWell(after, new)
    <3> HIDE DEF old
    <3> QED
      BY <1>2, <2>1, RecordFacts
  <2>3. name \in stale' \/ FitsWell(after, new)
    <3>1. CASE id \in Identities(histories)
      <4>1. PICK k \in DOMAIN histories : histories[k] = old
        BY <1>2, <1>3, <3>1, HistoryOfFacts
      <4> QED
        BY <1>4, <1>5, <2>1, <2>2, <4>1
    <3>2. CASE id \notin Identities(histories)
      <4>1. old = NewHistory(id)
        BY <1>2, <1>3, <3>2, HistoryOfFacts
      <4> QED
        BY <1>2, <2>2, <4>1, NewHistoryFits
    <3> QED
      BY <3>1, <3>2
  <2>4. /\ HistoriesOK(histories') /\ Identities(histories') \subseteq Identities(histories) \cup {id}
        /\ HistoryOf(histories', id) = new
        /\ \A k \in DOMAIN histories' :
             histories'[k] = new \/ \E j \in DOMAIN histories : histories'[k] = histories[j] /\ histories[j].identity # id
    <3>1. histories' = Recorded(histories, id, page, after)
      BY <1>4, <1>8
    <3> QED
      BY <1>2, <1>3, <1>8, <3>1, RecordedFacts
  <2> HIDE DEF new, old
  <2>5. \A k \in DOMAIN histories' :
          \/ \E j \in DOMAIN histories : histories'[k] = histories[j] /\ histories[j].identity # id
          \/ histories'[k].identity = id /\ (name \in stale' \/ FitsWell(after, histories'[k]))
    BY <2>2, <2>3, <2>4
  <2>6. NotebookInv' /\ PagesStep
    BY <1>4, <2>4, <2>5, ReplaceFacts DEF id, name
  <2>7. TakesBack(new, page, after)
    <3>1. Reversible(after, Between(page, after)) /\ Reversed(after, Between(page, after)) = page
      BY <1>2, BetweenFacts
    <3> QED
      BY <2>2, <3>1 DEF TakesBack, CanUndo
  <2> QED
    BY <1>4, <2>4, <2>6, <2>7 DEF UndoStep, id
<1> QED
  BY <1>6, <1>7, <1>8

(* The page that is open gets the strokes and the history of an undo or a  *)
(* redo.                                                                   *)
LEMMA TakenBackFacts ==
  ASSUME NotebookInv, PageIsOpen, ~IsShared, NEW after \in Seq(Stroke), NEW h, IsSized(h),
         h.identity = Identity, Identity \in Identities(histories), ReplacePage(after, h),
         FitsWell(page, HistoryOf(histories, Identity)) => FitsWell(after, h),
         TakesBack(h, page, after)
  PROVE  NotebookInv' /\ PagesStep /\ UndoStep
<1> DEFINE id == Identity
           name == PageAt(library, id).name
<1>1. /\ Types /\ PagesExist /\ MemoryFits /\ writing = Idle /\ open # NoDocument /\ writing.by = "none"
  BY DEF NotebookInv, PageIsOpen, Idle
<1>2. page \in Seq(Stroke) /\ HistoriesOK(histories)
  BY <1>1 DEF Types
<1>3. id \in Document \X Nat /\ id \in IdentitiesIn(library) /\ PageAt(Stored, id) = [name |-> name, strokes |-> page]
  BY <1>1, StoredFacts
<1>4. /\ page' = after /\ library' = Store(library, id, after) /\ writing' = ToWrite("pen")
      /\ UNCHANGED <<open, session, file, agreed, stale, unsaved>>
      /\ histories' = Updated(histories, h)
  BY DEF ReplacePage
<1>5. h.identity = id /\ id \in Identities(histories)
  OBVIOUS
<1> HIDE DEF name, id
<1>6. name \in stale \/ FitsWell(after, h)
  <2>1. PICK k \in DOMAIN histories : histories[k] = HistoryOf(histories, id)
    BY <1>2, <1>3, <1>5, HistoryOfFacts
  <2>2. histories[k].identity = id
    BY <1>2, <1>3, <2>1, HistoryOfFacts
  <2>3. IsFit(Stored, stale, histories[k])
    BY <1>1 DEF MemoryFits, IsRelaying
  <2>4. name \in stale \/ FitsWell(page, histories[k])
    BY <1>3, <2>2, <2>3 DEF IsFit
  <2> QED
    BY <2>1, <2>4 DEF id
<1>7. /\ HistoriesOK(histories') /\ Identities(histories') = Identities(histories)
      /\ HistoryOf(histories', id) = h
      /\ \A k \in DOMAIN histories' :
           histories'[k] = h \/ \E j \in DOMAIN histories : histories'[k] = histories[j] /\ histories[j].identity # id
  BY <1>2, <1>4, <1>5, UpdatedFacts
<1>8. \A k \in DOMAIN histories' :
        \/ \E j \in DOMAIN histories : histories'[k] = histories[j] /\ histories[j].identity # id
        \/ histories'[k].identity = id /\ (name \in stale' \/ FitsWell(after, histories'[k]))
  BY <1>4, <1>5, <1>6, <1>7
<1>9. NotebookInv' /\ PagesStep
  BY <1>4, <1>7, <1>8, ReplaceFacts DEF id, name
<1> QED
  BY <1>4, <1>7, <1>9 DEF UndoStep, id

(* Undo.                                                                   *)
LEMMA UndoFacts ==
  ASSUME NotebookInv, Undo
  PROVE  NotebookInv' /\ PagesStep /\ UndoStep
<1> DEFINE h == HistoryOf(histories, Identity)
           e == Last(h.undo)
           after == Reversed(page, e)
<1>1. /\ PageIsOpen /\ ~IsShared /\ h.undo # << >> /\ Reversible(page, e) /\ ReplacePage(after, AfterUndo(h))
  BY DEF Undo, CanUndo
<1>2. Types /\ open # NoDocument
  BY <1>1 DEF NotebookInv, PageIsOpen
<1>3. page \in Seq(Stroke) /\ HistoriesOK(histories) /\ Identity \in Document \X Nat
  BY <1>2, StoredFacts DEF Types
<1>4. IsSized(h) /\ h.identity = Identity /\ h \in History
  BY <1>3, HistoryOfFacts DEF IsSized
<1>5. Identity \in Identities(histories)
  <2>1. NewHistory(Identity).undo = << >>
    BY DEF NewHistory
  <2> QED
    BY <1>1, <1>3, <2>1, HistoryOfFacts
<1>6. e \in Edit
  <2>1. h.undo \in Seq(Edit)
    BY <1>4 DEF History
  <2> QED
    BY <1>1, <2>1, FrontFacts
<1> HIDE DEF h
<1>7. /\ IsSized(AfterUndo(h)) /\ AfterUndo(h).identity = Identity
      /\ AfterUndo(h).redo # << >> /\ Last(AfterUndo(h).redo) = e
  BY <1>1, <1>4, UndoneFacts
<1>8. after \in Seq(Stroke) /\ Forwardable(after, e) /\ Forwarded(after, e) = page
  BY <1>1, <1>3, <1>6, InvertedFacts
<1>9. FitsWell(page, h) => FitsWell(after, AfterUndo(h))
  BY <1>1, <1>4, UndoFits
<1> HIDE DEF e, after
<1>10. TakesBack(AfterUndo(h), page, after)
  BY <1>7, <1>8 DEF TakesBack, CanRedo
<1> DEFINE g == AfterUndo(h)
<1> HIDE DEF g
<1>11. /\ IsSized(g) /\ g.identity = Identity /\ ReplacePage(after, g) /\ TakesBack(g, page, after)
       /\ FitsWell(page, HistoryOf(histories, Identity)) => FitsWell(after, g)
  BY <1>1, <1>7, <1>9, <1>10 DEF g, h
<1> QED
  BY <1>1, <1>5, <1>8, <1>11, TakenBackFacts

(* Redo.                                                                   *)
LEMMA RedoFacts ==
  ASSUME NotebookInv, Redo
  PROVE  NotebookInv' /\ PagesStep /\ UndoStep
<1> DEFINE h == HistoryOf(histories, Identity)
           e == Last(h.redo)
           after == Forwarded(page, e)
<1>1. /\ PageIsOpen /\ ~IsShared /\ h.redo # << >> /\ Forwardable(page, e) /\ ReplacePage(after, AfterRedo(h))
  BY DEF Redo, CanRedo
<1>2. Types /\ open # NoDocument
  BY <1>1 DEF NotebookInv, PageIsOpen
<1>3. page \in Seq(Stroke) /\ HistoriesOK(histories) /\ Identity \in Document \X Nat
  BY <1>2, StoredFacts DEF Types
<1>4. IsSized(h) /\ h.identity = Identity /\ h \in History
  BY <1>3, HistoryOfFacts DEF IsSized
<1>5. Identity \in Identities(histories)
  <2>1. NewHistory(Identity).redo = << >>
    BY DEF NewHistory
  <2> QED
    BY <1>1, <1>3, <2>1, HistoryOfFacts
<1>6. e \in Edit
  <2>1. h.redo \in Seq(Edit)
    BY <1>4 DEF History
  <2> QED
    BY <1>1, <2>1, FrontFacts
<1> HIDE DEF h
<1>7. /\ IsSized(AfterRedo(h)) /\ AfterRedo(h).identity = Identity
      /\ AfterRedo(h).undo # << >> /\ Last(AfterRedo(h).undo) = e
  BY <1>1, <1>4, UndoneFacts
<1>8. after \in Seq(Stroke) /\ Reversible(after, e) /\ Reversed(after, e) = page
  BY <1>1, <1>3, <1>6, InvertedFacts
<1>9. FitsWell(page, h) => FitsWell(after, AfterRedo(h))
  BY <1>1, <1>4, RedoFits
<1> HIDE DEF e, after
<1>10. TakesBack(AfterRedo(h), page, after)
  BY <1>7, <1>8 DEF TakesBack, CanUndo
<1> DEFINE g == AfterRedo(h)
<1> HIDE DEF g
<1>11. /\ IsSized(g) /\ g.identity = Identity /\ ReplacePage(after, g) /\ TakesBack(g, page, after)
       /\ FitsWell(page, HistoryOf(histories, Identity)) => FitsWell(after, g)
  BY <1>1, <1>7, <1>9, <1>10 DEF g, h
<1> QED
  BY <1>1, <1>5, <1>8, <1>11, TakenBackFacts

(* Drawing is an edit.                                                     *)
LEMMA DrawFacts ==
  ASSUME NotebookInv, NEW s \in Stroke, NEW who \in {"pen", "request"}, Draw(s, who)
  PROVE  NotebookInv' /\ PagesStep /\ UndoStep
<1>1. PageIsOpen /\ EditTo(Append(page, s), who) /\ page \in Seq(Stroke)
  BY DEF Draw, NotebookInv, Types
<1>2. Append(page, s) \in Seq(Stroke)
  BY <1>1
<1> QED
  BY <1>1, <1>2, EditFacts

(* Erasing is an edit.                                                     *)
LEMMA EraseFacts ==
  ASSUME NotebookInv, NEW left \in ErasedStrokes, NEW who \in {"pen", "request"}, Erase(left, who)
  PROVE  NotebookInv' /\ PagesStep /\ UndoStep
<1>1. PageIsOpen /\ EditTo(FlattenSeq(left), who) /\ page \in Seq(Stroke)
  BY DEF Erase, NotebookInv, Types
<1>2. FlattenSeq(left) \in Seq(Stroke)
  <2>1. left \in [1 .. Len(page) -> Seq(Stroke)] /\ Len(page) \in Nat
    <3>1. DOMAIN page = 1 .. Len(page) /\ Len(page) \in Nat
      BY <1>1, LenProperties
    <3> QED
      BY <3>1, NotebookAssumption DEF ErasedStrokes
  <2>2. left \in Seq(Seq(Stroke))
    BY <2>1, SeqDef
  <2> QED
    BY <2>2, FlattenIsASeq
<1> QED
  BY <1>1, <1>2, EditFacts

(* A stroke of a session that has ended stays on the page alone.           *)
LEMMA FinishStrokeOfEndedSessionFacts ==
  ASSUME NotebookInv, NEW s \in Stroke, FinishStrokeOfEndedSession(s)
  PROVE  NotebookInv' /\ PagesStep /\ UndoStep
<1> DEFINE id == Identity
           name == PageAt(library, id).name
           after == Append(page, s)
<1>1. /\ PageIsOpen /\ IsShared /\ session' = NotShared /\ page' = after /\ unsaved' = TRUE
      /\ stale' = (IF id \in Identities(histories) THEN stale \cup {name} ELSE stale)
      /\ UNCHANGED <<library, open, histories, writing, file, agreed>>
  BY DEF FinishStrokeOfEndedSession
<1>2. /\ Types /\ PagesExist /\ InTransit /\ MemoryFits /\ FileFits
      /\ writing = Idle /\ open # NoDocument /\ writing.by = "none" /\ writing.next = "none"
  BY <1>1 DEF NotebookInv, PageIsOpen, Idle
<1>3. page \in Seq(Stroke) /\ after \in Seq(Stroke)
  <2>1. page \in Seq(Stroke)
    BY <1>2 DEF Types
  <2> QED
    BY <2>1, AppendFacts
<1> HIDE DEF after
<1>4. Types'
  <2>1. IsWriting'
    BY <1>1, <1>2 DEF Types, IsWriting
  <2> QED
    BY <1>1, <1>2, <1>3, <2>1 DEF Types, IsRelaying
<1>5. PagesExist' /\ InTransit' /\ FileFits'
  BY <1>1, <1>2 DEF PagesExist, InTransit, FileFits
<1>6. PageIsStored' /\ NothingIsUnsaved' /\ OnePageAhead'
  BY <1>1, <1>2 DEF PageIsStored, NothingIsUnsaved, OnePageAhead
<1>7. /\ id \in IdentitiesIn(library) /\ Identity' = id
      /\ IdentitiesIn(Stored) = IdentitiesIn(library) /\ IdentitiesIn(Stored') = IdentitiesIn(library)
      /\ LibraryOK(Stored) /\ LibraryOK(Stored')
      /\ \A j \in IdentitiesIn(library) : /\ PageAt(Stored, j).name = PageAt(library, j).name
                                         /\ PageAt(Stored', j).name = PageAt(library, j).name
      /\ \A j \in IdentitiesIn(library) : j # id => PageAt(Stored', j) = PageAt(Stored, j)
  <2>1. Identity' = id /\ IdentitiesIn(library)' = IdentitiesIn(library)
    BY <1>1 DEF Identity
  <2>2. /\ LibraryOK(Stored') /\ IdentitiesIn(Stored') = IdentitiesIn(library')
        /\ \A j \in IdentitiesIn(library') : PageAt(Stored', j).name = PageAt(library', j).name
        /\ \A j \in IdentitiesIn(library') :
             open' = NoDocument \/ j # Identity' => PageAt(Stored', j) = PageAt(library', j)
    <3>1. Stored' = StoredIn(library', open', page') /\ Identity' = <<open', library'[open'].current>>
      BY DEF Stored, StoredIn, Identity
    <3>2. LibraryOK(library') /\ open' \in DOMAIN library' \cup {NoDocument} /\ page' \in Seq(Stroke)
      BY <1>4 DEF Types
    <3> QED
      BY <3>1, <3>2, StoredInFacts, ZenonT(60)
  <2>3. /\ LibraryOK(Stored) /\ IdentitiesIn(Stored) = IdentitiesIn(library) /\ id \in IdentitiesIn(library)
        /\ \A j \in IdentitiesIn(library) : PageAt(Stored, j).name = PageAt(library, j).name
        /\ \A j \in IdentitiesIn(library) : j # id => PageAt(Stored, j) = PageAt(library, j)
    BY <1>2, StoredFacts
  <2> QED
    BY <1>1, <1>2, <2>1, <2>2, <2>3
<1> HIDE DEF name, id
<1>8. MemoryFits'
  <2> SUFFICES ASSUME NEW k \in DOMAIN histories  PROVE IsFit(Stored', stale', histories[k])
    BY <1>1 DEF MemoryFits
  <2>1. /\ histories[k].identity \in Identities(histories) /\ histories[k].identity \in IdentitiesIn(library)
        /\ IsFit(Stored, stale, histories[k])
    BY <1>2 DEF PagesExist, Identities, MemoryFits, IsRelaying
  <2>2. CASE histories[k].identity = id
    BY <1>1, <1>7, <2>1, <2>2 DEF IsFit, name
  <2>3. CASE histories[k].identity # id
    BY <1>1, <1>7, <2>1, <2>3, FitMoves
  <2> QED
    BY <2>2, <2>3
<1>9. PagesStep
  <2> DEFINE S == {name}
  <2>1. \A j \in IdentitiesIn(Stored) :
          /\ PageAt(Stored', j).name = PageAt(Stored, j).name
          /\ PageAt(Stored, j).name \in S \/ PageAt(Stored', j).strokes = PageAt(Stored, j).strokes
    BY <1>7 DEF name
  <2> HIDE DEF S
  <2>2. Changed(Stored, Stored') \subseteq S
    BY <1>7, <2>1, AlikeFacts
  <2> QED
    BY <1>1, <1>2, <1>7, <2>2, OneChange DEF S, id
<1>10. UndoStep
  BY <1>1 DEF UndoStep
<1> QED
  BY <1>4, <1>5, <1>6, <1>8, <1>9, <1>10 DEF NotebookInv

-----------------------------------------------------------------------------
(* The library                                                             *)

(* What holds where a handler begins.                                      *)
LEMMA IdleFacts ==
  ASSUME NotebookInv, writing = Idle
  PROVE  /\ Types /\ HistoriesOK(histories) /\ writing.by = "none" /\ writing.next = "none"
         /\ LibraryOK(library) /\ LibraryOK(Stored) /\ IdentitiesIn(Stored) = IdentitiesIn(library)
         /\ DOMAIN Stored = DOMAIN library /\ Identities(histories) \subseteq IdentitiesIn(library)
         /\ open # NoDocument =>
              /\ open \in DOMAIN library /\ Identity \in IdentitiesIn(library)
              /\ PageAt(Stored, Identity).strokes = page
         /\ \A k \in DOMAIN histories :
              /\ histories[k].identity \in IdentitiesIn(library)
              /\ IsFit(Stored, stale, histories[k])
<1>1. Types /\ PagesExist /\ MemoryFits /\ writing.by = "none" /\ writing.next = "none"
  BY DEF NotebookInv, Idle
<1>2. HistoriesOK(histories) /\ LibraryOK(library)
  BY <1>1 DEF Types
<1>3. \A k \in DOMAIN histories : IsFit(Stored, stale, histories[k])
  BY <1>1 DEF MemoryFits, IsRelaying
<1>4. \A k \in DOMAIN histories : histories[k].identity \in IdentitiesIn(library)
  BY <1>1 DEF PagesExist, Identities
<1>5. Identities(histories) \subseteq IdentitiesIn(library)
  BY <1>1 DEF PagesExist
<1> QED
  BY <1>1, <1>2, <1>3, <1>4, <1>5, StoredFacts

(* Another page is shown, and every page is where it was.                  *)
LEMMA ShowSameFacts ==
  ASSUME NotebookInv, writing = Idle, NEW lib, NEW d \in DOMAIN lib, NEW who \in {"pen", "request"},
         Show(d, lib, who), UNCHANGED histories, LibraryOK(lib), IdentitiesIn(lib) = IdentitiesIn(library),
         \A id \in IdentitiesIn(library) : PageAt(lib, id) = PageAt(Stored, id)
  PROVE  NotebookInv' /\ PagesStep /\ UndoStep
<1>1. /\ HistoriesOK(histories) /\ LibraryOK(Stored) /\ IdentitiesIn(Stored) = IdentitiesIn(library)
      /\ Identities(histories) \subseteq IdentitiesIn(library)
      /\ open # NoDocument => Identity \in IdentitiesIn(library) /\ PageAt(Stored, Identity).strokes = page
      /\ \A k \in DOMAIN histories :
              /\ histories[k].identity \in IdentitiesIn(library)
              /\ IsFit(Stored, stale, histories[k])
  BY IdleFacts
<1>2. \A k \in DOMAIN histories' : IsFit(lib, stale, histories'[k])
  BY <1>1 DEF IsFit
<1>3. Changed(lib, Stored) = {} /\ Changed(Stored, lib) = {}
  <2> DEFINE none == {}
  <2> HIDE DEF none
  <2>1. \A id \in IdentitiesIn(Stored) :
          /\ PageAt(lib, id).name = PageAt(Stored, id).name
          /\ PageAt(Stored, id).name \in none \/ PageAt(lib, id).strokes = PageAt(Stored, id).strokes
    BY <1>1
  <2>2. Changed(lib, Stored) \subseteq none /\ Changed(Stored, lib) \subseteq none
    BY <1>1, <2>1, AlikeFacts
  <2> QED
    BY <2>2 DEF none
<1>4. NotebookInv' /\ PagesStep
  BY <1>1, <1>2, <1>3, ShowFacts
<1>5. UndoStep
  <2>1. library' = lib /\ open' = d /\ page' = PageAt(lib, <<d, lib[d].current>>).strokes
    BY DEF Show, PageAt
  <2>2. Identity' = <<d, lib[d].current>>
    BY <2>1 DEF Identity
  <2>3. ASSUME open # NoDocument, Identity' = Identity  PROVE page' = page
    BY <1>1, <2>1, <2>2, <2>3
  <2> QED
    BY <2>3 DEF UndoStep, PageIsOpen
<1> QED
  BY <1>4, <1>5

(* Opening a document.                                                     *)
LEMMA OpenDocumentFacts ==
  ASSUME NotebookInv, NEW d \in Document, NEW who \in {"pen", "request"}, OpenDocument(d, who)
  PROVE  NotebookInv' /\ PagesStep /\ UndoStep
<1>1. writing = Idle /\ d \in DOMAIN library /\ Show(d, Stored, who) /\ UNCHANGED histories
  BY DEF OpenDocument
<1>2. LibraryOK(Stored) /\ IdentitiesIn(Stored) = IdentitiesIn(library) /\ d \in DOMAIN Stored
  BY <1>1, IdleFacts
<1> QED
  BY <1>1, <1>2, ShowSameFacts

(* Turning a page.                                                         *)
LEMMA ChangePageFacts ==
  ASSUME NotebookInv, NEW i, ChangePage(i)
  PROVE  NotebookInv' /\ PagesStep /\ UndoStep
<1> DEFINE lib == [Stored EXCEPT ![open].current = i]
<1>1. /\ writing = Idle /\ open # NoDocument /\ i \in DOMAIN library[open].pages
      /\ Show(open, lib, "pen") /\ UNCHANGED histories
  BY DEF ChangePage, PageIsOpen
<1>2. /\ LibraryOK(Stored) /\ LibraryOK(library) /\ IdentitiesIn(Stored) = IdentitiesIn(library)
      /\ open \in DOMAIN Stored /\ open \in DOMAIN library
  BY <1>1, IdleFacts
<1>3. i \in Nat /\ <<open, i>> \in IdentitiesIn(library)
  BY <1>1, <1>2, IdentityFacts DEF LibraryOK
<1>4. i \in 1 .. Len(Stored[open].pages)
  BY <1>2, <1>3, IdentityFacts DEF LibraryOK
<1>5. /\ LibraryOK(lib) /\ IdentitiesIn(lib) = IdentitiesIn(library) /\ DOMAIN lib = DOMAIN Stored
      /\ \A id \in IdentitiesIn(library) : PageAt(lib, id) = PageAt(Stored, id)
  <2>1. lib = Turned(Stored, open, i)
    BY DEF Turned
  <2> HIDE DEF lib
  <2> QED
    BY <1>2, <1>4, <2>1, TurnFacts
<1> HIDE DEF lib
<1>6. open \in DOMAIN lib /\ "pen" \in {"pen", "request"}
  BY <1>2, <1>5
<1> QED
  BY <1>1, <1>5, <1>6, ShowSameFacts

(* Inserting a blank page.                                                 *)
LEMMA InsertBlankPageFacts ==
  ASSUME NotebookInv, InsertBlankPage
  PROVE  NotebookInv' /\ PagesStep /\ UndoStep
<1> DEFINE at == library[open].current + 1
           n == NextName
           lib == [Stored EXCEPT ![open].current = at, ![open].pages = InsertAt(@, at, BlankPage(n))]
<1>1. /\ writing = Idle /\ open # NoDocument /\ Show(open, lib, "pen")
      /\ histories' = Shifted(histories, open, at)
  BY DEF InsertBlankPage, PageIsOpen
<1>2. /\ HistoriesOK(histories) /\ LibraryOK(Stored) /\ IdentitiesIn(Stored) = IdentitiesIn(library)
      /\ LibraryOK(library) /\ open \in DOMAIN library /\ DOMAIN Stored = DOMAIN library
      /\ \A k \in DOMAIN histories :
              /\ histories[k].identity \in IdentitiesIn(library)
              /\ IsFit(Stored, stale, histories[k])
  BY <1>1, IdleFacts
<1>3. open \in Document /\ library[open].current \in Nat /\ at \in Nat
  <2>1. /\ open \in Document /\ library[open].current \in 1 .. Len(library[open].pages)
        /\ Len(library[open].pages) \in Nat
    BY <1>2, IdentityFacts DEF LibraryOK
  <2> QED
    BY <2>1
<1>4. at \in 1 .. Len(Stored[open].pages) + 1
  <2>1. Stored[open].current = library[open].current
    <3>1. Types
      BY <1>1, IdleFacts
    <3> QED
      BY <1>2, <3>1, StoredFacts
  <2>2. Stored[open].current \in 1 .. Len(Stored[open].pages) /\ Len(Stored[open].pages) \in Nat
    BY <1>2, IdentityFacts DEF LibraryOK
  <2> QED
    BY <2>1, <2>2
<1>5. n = Cardinality(IdentitiesIn(Stored)) + 1
  BY <1>2 DEF NextName
<1> HIDE DEF at, n
<1>6. /\ LibraryOK(lib) /\ DOMAIN lib = DOMAIN Stored /\ lib[open].current = at
      /\ IdentitiesIn(Stored) \subseteq IdentitiesIn(lib)
      /\ <<open, at>> \in IdentitiesIn(lib) /\ PageAt(lib, <<open, at>>) = BlankPage(n)
      /\ \A id \in IdentitiesIn(Stored) :
           Moved(id, open, at) \in IdentitiesIn(lib) /\ PageAt(lib, Moved(id, open, at)) = PageAt(Stored, id)
      /\ \A j \in IdentitiesIn(lib) :
           j = <<open, at>> \/ \E id \in IdentitiesIn(Stored) : j = Moved(id, open, at)
  <2>1. lib = Inserted(Stored, open, at, n)
    BY DEF Inserted
  <2> HIDE DEF lib
  <2>2. open \in DOMAIN Stored
    BY <1>2
  <2> QED
    BY <1>2, <1>4, <1>5, <2>1, <2>2, InsertFacts
<1> HIDE DEF lib
<1>7. HistoriesOK(histories')
  BY <1>1, <1>2, <1>3, ShiftedFacts
<1>8. ASSUME NEW k \in DOMAIN histories'
      PROVE  histories'[k].identity \in IdentitiesIn(lib) /\ IsFit(lib, stale, histories'[k])
  <2>1. PICK h \in History :
          /\ k \in DOMAIN histories /\ h = histories[k]
          /\ histories'[k] = [h EXCEPT !.identity = Moved(h.identity, open, at)]
    BY <1>1, <1>2, <1>3, ShiftedFacts
  <2> DEFINE g == histories'[k]
             id == Moved(h.identity, open, at)
  <2> HIDE DEF id
  <2>2. g.identity = id /\ g.undo = h.undo /\ g.redo = h.redo
    BY <2>1 DEF History, id
  <2>3. h.identity \in IdentitiesIn(Stored) /\ IsFit(Stored, stale, h)
    BY <1>2, <2>1
  <2>4. id \in IdentitiesIn(lib) /\ PageAt(lib, id) = PageAt(Stored, h.identity)
    BY <1>6, <2>3 DEF id
  <2> QED
    BY <2>2, <2>3, <2>4, FitMoves
<1>9. Identities(histories') \subseteq IdentitiesIn(lib)
  BY <1>8 DEF Identities
<1>10. NamesAreOwn(lib) /\ NamesAreOwn(Stored)
  BY <1>2, <1>6 DEF LibraryOK
<1> DEFINE none == {}
<1> HIDE DEF none
<1>11. \A id \in IdentitiesIn(Stored) : \E j \in IdentitiesIn(lib) :
         PageAt(lib, j).name = PageAt(Stored, id).name /\ PageAt(lib, j).strokes = PageAt(Stored, id).strokes
  BY <1>6
<1>12. Changed(Stored, lib) \subseteq none
  BY <1>10, <1>11, ChangedFacts
<1>13. \A id \in IdentitiesIn(lib) :
         \/ \E j \in IdentitiesIn(Stored) :
              PageAt(Stored, j).name = PageAt(lib, id).name /\ PageAt(Stored, j).strokes = PageAt(lib, id).strokes
         \/ /\ PageAt(lib, id).strokes = <<>>
            /\ \A j \in IdentitiesIn(Stored) : PageAt(Stored, j).name # PageAt(lib, id).name
  <2> TAKE id \in IdentitiesIn(lib)
  <2>1. CASE id = <<open, at>>
    <3>1. PageAt(lib, id).strokes = <<>> /\ PageAt(lib, id).name = n
      BY <1>6, <2>1 DEF BlankPage
    <3>2. ASSUME NEW j \in IdentitiesIn(Stored)  PROVE PageAt(Stored, j).name # n
      <4>1. j \in Document \X Nat
        BY <1>2, IdentityFacts DEF LibraryOK
      <4>2. Moved(j, open, at) # <<open, at>>
        BY <1>3, <4>1, MovedFacts
      <4>3. Moved(j, open, at) \in IdentitiesIn(lib) /\ PageAt(lib, Moved(j, open, at)) = PageAt(Stored, j)
        BY <1>6
      <4> QED
        BY <1>10, <2>1, <3>1, <4>2, <4>3 DEF NamesAreOwn
    <3> QED
      BY <3>1, <3>2
  <2>2. CASE id # <<open, at>>
    BY <1>6, <2>2
  <2> QED
    BY <2>1, <2>2
<1>14. Changed(lib, Stored) \subseteq none
  BY <1>10, <1>13, ChangedFacts
<1>15. NotebookInv' /\ PagesStep
  <2>1. "pen" \in {"pen", "request"} /\ open \in DOMAIN lib
    BY <1>2, <1>6
  <2>2. Changed(lib, Stored) = {} /\ Changed(Stored, lib) = {}
    BY <1>12, <1>14 DEF none
  <2>3. IdentitiesIn(library) \subseteq IdentitiesIn(lib)
    BY <1>2, <1>6
  <2> QED
    BY <1>1, <1>6, <1>7, <1>8, <1>9, <2>1, <2>2, <2>3, ShowFacts
<1>16. UndoStep
  <2>1. library' = lib /\ open' = open
    BY <1>1 DEF Show
  <2>2. Identity' = <<open, at>> /\ Identity = <<open, library[open].current>>
    BY <1>6, <2>1 DEF Identity
  <2>3. library[open].current # at
    BY <1>3 DEF at
  <2> QED
    BY <2>2, <2>3 DEF UndoStep
<1> QED
  BY <1>15, <1>16

(* A document of blank pages changes no page.                              *)
LEMMA AddedFacts ==
  ASSUME NotebookInv, writing = Idle, NEW d \in Document, d \notin DOMAIN library, NEW n \in Nat \ {0}
  PROVE  LET lib == WithDocument(Stored, d, n)
         IN  /\ LibraryOK(lib) /\ DOMAIN lib = DOMAIN library \cup {d}
             /\ IdentitiesIn(library) \subseteq IdentitiesIn(lib)
             /\ \A e \in DOMAIN library : lib[e] = Stored[e]
             /\ \A id \in IdentitiesIn(library) : PageAt(lib, id) = PageAt(Stored, id)
             /\ \A k \in DOMAIN histories : IsFit(lib, stale, histories[k])
             /\ Identities(histories) \subseteq IdentitiesIn(lib)
             /\ Changed(lib, Stored) = {} /\ Changed(Stored, lib) = {}
<1> DEFINE lib == WithDocument(Stored, d, n)
           none == {}
<1>1. /\ LibraryOK(Stored) /\ IdentitiesIn(Stored) = IdentitiesIn(library)
      /\ DOMAIN Stored = DOMAIN library /\ Identities(histories) \subseteq IdentitiesIn(library)
      /\ \A k \in DOMAIN histories :
              /\ histories[k].identity \in IdentitiesIn(library)
              /\ IsFit(Stored, stale, histories[k])
  BY IdleFacts
<1>2. /\ LibraryOK(lib) /\ DOMAIN lib = DOMAIN Stored \cup {d}
      /\ IdentitiesIn(Stored) \subseteq IdentitiesIn(lib)
      /\ \A e \in DOMAIN Stored : lib[e] = Stored[e]
      /\ \A id \in IdentitiesIn(Stored) : PageAt(lib, id) = PageAt(Stored, id)
      /\ \A id \in IdentitiesIn(lib) \ IdentitiesIn(Stored) :
           /\ PageAt(lib, id).strokes = <<>>
           /\ \A j \in IdentitiesIn(Stored) : PageAt(Stored, j).name # PageAt(lib, id).name
  <2>1. LibraryOK(Stored) /\ IdentitiesIn(Stored) = IdentitiesIn(library) /\ d \notin DOMAIN Stored
    BY <1>1
  <2> QED
    BY <2>1, WithDocumentFacts, SMTT(30)
<1> HIDE DEF lib, none
<1>3. \A k \in DOMAIN histories : IsFit(lib, stale, histories[k])
  BY <1>1, <1>2 DEF IsFit
<1>4. NamesAreOwn(lib) /\ NamesAreOwn(Stored)
  BY <1>1, <1>2 DEF LibraryOK
<1>5. \A id \in IdentitiesIn(Stored) : \E j \in IdentitiesIn(lib) :
        PageAt(lib, j).name = PageAt(Stored, id).name /\ PageAt(lib, j).strokes = PageAt(Stored, id).strokes
  BY <1>2
<1>6. Changed(Stored, lib) \subseteq none
  BY <1>4, <1>5, ChangedFacts
<1>7. \A id \in IdentitiesIn(lib) :
         \/ \E j \in IdentitiesIn(Stored) :
              PageAt(Stored, j).name = PageAt(lib, id).name /\ PageAt(Stored, j).strokes = PageAt(lib, id).strokes
         \/ /\ PageAt(lib, id).strokes = <<>>
            /\ \A j \in IdentitiesIn(Stored) : PageAt(Stored, j).name # PageAt(lib, id).name
  BY <1>2
<1>8. Changed(lib, Stored) \subseteq none
  BY <1>4, <1>7, ChangedFacts
<1>9. Changed(lib, Stored) = {} /\ Changed(Stored, lib) = {}
  BY <1>6, <1>8 DEF none
<1> QED
  BY <1>1, <1>2, <1>3, <1>9 DEF lib

(* A document is added and shown.                                          *)
LEMMA AddDocumentFacts ==
  ASSUME NotebookInv, NEW d \in Document, NEW n \in 1 .. MaxPages, NEW who \in {"pen", "request"},
         AddDocument(d, n, who)
  PROVE  NotebookInv' /\ PagesStep /\ UndoStep
<1> DEFINE lib == WithDocument(Stored, d, n)
<1>1. writing = Idle /\ d \notin DOMAIN library /\ Show(d, lib, who) /\ UNCHANGED histories
  BY DEF AddDocument
<1>2. n \in Nat \ {0}
  BY NotebookAssumption
<1>3. /\ LibraryOK(lib) /\ DOMAIN lib = DOMAIN library \cup {d}
      /\ IdentitiesIn(library) \subseteq IdentitiesIn(lib)
      /\ \A k \in DOMAIN histories : IsFit(lib, stale, histories[k])
      /\ Identities(histories) \subseteq IdentitiesIn(lib)
      /\ Changed(lib, Stored) = {} /\ Changed(Stored, lib) = {}
  BY <1>1, <1>2, AddedFacts
<1>4. HistoriesOK(histories) /\ (open # NoDocument => open \in DOMAIN library)
  BY <1>1, IdleFacts
<1> HIDE DEF lib
<1>5. NotebookInv' /\ PagesStep
  BY <1>1, <1>3, <1>4, ShowFacts
<1>6. UndoStep
  <2>1. open' = d
    BY <1>1 DEF Show
  <2> QED
    BY <1>1, <1>4, <2>1 DEF UndoStep, PageIsOpen
<1> QED
  BY <1>5, <1>6

(* A document is added and not shown: what is open stays so.               *)
LEMMA ImportUnrenderableFacts ==
  ASSUME NotebookInv, NEW d \in Document, NEW n \in 1 .. MaxPages, ImportUnrenderable(d, n)
  PROVE  NotebookInv' /\ PagesStep /\ UndoStep
<1> DEFINE lib == WithDocument(Stored, d, n)
<1>1. /\ writing = Idle /\ d \notin DOMAIN library /\ library' = lib /\ unsaved' = TRUE
      /\ UNCHANGED <<open, page, histories, session, writing, file, agreed, stale>>
  BY DEF ImportUnrenderable
<1>2. n \in Nat \ {0}
  BY NotebookAssumption
<1>3. /\ LibraryOK(lib) /\ DOMAIN lib = DOMAIN library \cup {d}
      /\ IdentitiesIn(library) \subseteq IdentitiesIn(lib)
      /\ \A e \in DOMAIN library : lib[e] = Stored[e]
      /\ \A id \in IdentitiesIn(library) : PageAt(lib, id) = PageAt(Stored, id)
      /\ \A k \in DOMAIN histories : IsFit(lib, stale, histories[k])
      /\ Identities(histories) \subseteq IdentitiesIn(lib)
      /\ Changed(lib, Stored) = {} /\ Changed(Stored, lib) = {}
  BY <1>1, <1>2, AddedFacts
<1>4. /\ Types /\ writing.next = "none" /\ writing.by = "none"
      /\ open # NoDocument => /\ open \in DOMAIN library /\ Identity \in IdentitiesIn(library)
                              /\ PageAt(Stored, Identity).strokes = page
  BY <1>1, IdleFacts
<1>5. PagesExist /\ FileFits
  BY DEF NotebookInv
<1> HIDE DEF lib
<1>6. open # NoDocument => Identity' = Identity /\ PageAt(lib, Identity).strokes = page
  <2>1. ASSUME open # NoDocument  PROVE Stored[open].current = library[open].current
    BY <1>4, <2>1, StoredFacts
  <2> QED
    BY <1>1, <1>3, <1>4, <2>1 DEF Identity
<1>7. Stored' = lib
  <2>1. CASE open = NoDocument
    BY <1>1, <2>1 DEF Stored
  <2>2. CASE open # NoDocument
    <3>1. Stored' = Store(lib, Identity, page) /\ Identity \in IdentitiesIn(lib)
      BY <1>1, <1>3, <1>4, <1>6, <2>2 DEF Stored
    <3> QED
      BY <1>3, <1>6, <2>2, <3>1, StoreNothing
  <2> QED
    BY <2>1, <2>2
<1>8. Types'
  <2>1. writing' = writing /\ IsWriting'
    BY <1>1, <1>4 DEF Types, IsWriting
  <2> QED
    BY <1>1, <1>3, <1>4, <2>1 DEF Types, IsRelaying
<1>9. PagesExist'
  BY <1>1, <1>3, <1>5 DEF PagesExist
<1>10. InTransit' /\ NothingIsUnsaved' /\ OnePageAhead'
  <2>1. unsaved' = TRUE /\ writing'.next # "histories"
    BY <1>1, <1>4
  <2> QED
    BY <2>1 DEF InTransit, NothingIsUnsaved, OnePageAhead
<1>11. PageIsStored'
  BY <1>1, <1>6 DEF PageIsStored
<1>12. MemoryFits'
  <2>1. \A k \in DOMAIN histories' : IsFit(Stored', stale', histories'[k])
    BY <1>1, <1>3, <1>7
  <2> QED
    BY <2>1 DEF MemoryFits
<1>13. FileFits'
  BY <1>1, <1>5 DEF FileFits
<1>14. PagesStep
  BY <1>3, <1>7 DEF PagesStep
<1>15. UndoStep
  BY <1>1 DEF UndoStep
<1> QED
  BY <1>8, <1>9, <1>10, <1>11, <1>12, <1>13, <1>14, <1>15 DEF NotebookInv

-----------------------------------------------------------------------------
(* Saving and sharing                                                      *)

(* What there is is saved, and the page stays or is closed.                *)
LEMMA SaveFacts ==
  ASSUME NotebookInv, writing = Idle, NEW who \in {"pen", "request", "share"}, writing' = ToWrite(who),
         library' = Stored, UNCHANGED <<histories, session, file, agreed, stale, unsaved>>,
         who = "share" => open' # NoDocument,
         UNCHANGED <<open, page>> \/ (open' = NoDocument /\ page' = <<>>)
  PROVE  NotebookInv' /\ PagesStep /\ UndoStep
<1>1. /\ Types /\ HistoriesOK(histories) /\ LibraryOK(Stored) /\ IdentitiesIn(Stored) = IdentitiesIn(library)
      /\ DOMAIN Stored = DOMAIN library /\ Identities(histories) \subseteq IdentitiesIn(library)
      /\ open # NoDocument =>
           /\ open \in DOMAIN library /\ Identity \in IdentitiesIn(library)
           /\ PageAt(Stored, Identity).strokes = page
      /\ \A k \in DOMAIN histories : IsFit(Stored, stale, histories[k])
  BY IdleFacts
<1>2. open \in DOMAIN library \cup {NoDocument} /\ page \in Seq(Stroke)
  BY <1>1 DEF Types
<1>3. open' \in DOMAIN library' \cup {NoDocument} /\ page' \in Seq(Stroke)
  BY <1>1, <1>2, EmptySeq
<1>4. open' # NoDocument => Identity' = Identity /\ page' = PageAt(Stored, Identity).strokes /\ open' = open
  <2>1. ASSUME open # NoDocument  PROVE Stored[open].current = library[open].current
    BY <1>1, <2>1, StoredFacts
  <2> QED
    BY <1>1, <2>1 DEF Identity
<1>5. Stored' = Stored
  <2>1. CASE open' = NoDocument
    BY <2>1 DEF Stored
  <2>2. CASE open' # NoDocument
    <3>1. Stored' = Store(library', Identity', page')
      BY <2>2 DEF Stored
    <3>2. Stored' = Store(Stored, Identity, page') /\ Identity \in IdentitiesIn(Stored)
      BY <1>1, <1>4, <2>2, <3>1
    <3> QED
      BY <1>1, <1>4, <2>2, <3>2, StoreNothing
  <2> QED
    BY <2>1, <2>2
<1>6. PageIsStored'
  BY <1>4 DEF PageIsStored
<1>7. MemoryFits'
  <2>1. \A k \in DOMAIN histories' : IsFit(Stored', stale', histories'[k])
    BY <1>1, <1>5
  <2> QED
    BY <2>1 DEF MemoryFits
<1>8. Changed(Stored, Stored) = {}
  BY DEF Changed
<1>9. NotebookInv'
  <2>1. who \in {"pen", "request", "share", "relay"} /\ who # "relay"
    OBVIOUS
  <2>2. LibraryOK(library') /\ IdentitiesIn(library) \subseteq IdentitiesIn(library')
    BY <1>1
  <2>3. HistoriesOK(histories') /\ Identities(histories') \subseteq IdentitiesIn(library')
    BY <1>1
  <2>4. \E n : Changed(Stored', Stored) \subseteq {n}
    BY <1>5, <1>8
  <2> QED
    BY <1>3, <1>6, <1>7, <2>1, <2>2, <2>3, <2>4, HandlerFacts
<1>10. PagesStep
  BY <1>5, <1>8 DEF PagesStep
<1>11. UndoStep
  BY DEF UndoStep, PageIsOpen
<1> QED
  BY <1>9, <1>10, <1>11

(* The three handlers that save.                                           *)
LEMMA SaveStateFacts ==
  ASSUME NotebookInv, NEW who \in {"pen", "request"}, SaveState(who)
  PROVE  NotebookInv' /\ PagesStep /\ UndoStep
<1>1. /\ writing = Idle /\ library' = Stored /\ writing' = ToWrite(who)
      /\ UNCHANGED <<open, page, histories, session, file, agreed, stale, unsaved>>
  BY DEF SaveState
<1>2. who \in {"pen", "request", "share"} /\ who # "share"
  OBVIOUS
<1> QED
  BY <1>1, <1>2, SaveFacts

(* Closing the page.                                                       *)
LEMMA ShowLibraryFacts ==
  ASSUME NotebookInv, ShowLibrary
  PROVE  NotebookInv' /\ PagesStep /\ UndoStep
<1>1. /\ writing = Idle /\ library' = Stored /\ writing' = ToWrite("pen") /\ open' = NoDocument /\ page' = <<>>
      /\ UNCHANGED <<histories, session, file, agreed, stale, unsaved>>
  BY DEF ShowLibrary, PageIsOpen
<1>2. "pen" \in {"pen", "request", "share"} /\ "pen" # "share"
  OBVIOUS
<1> QED
  BY <1>1, <1>2, SaveFacts

(* Sharing the page.                                                       *)
LEMMA PreparePageShareFacts ==
  ASSUME NotebookInv, PreparePageShare
  PROVE  NotebookInv' /\ PagesStep /\ UndoStep
<1>1. /\ writing = Idle /\ library' = Stored /\ writing' = ToWrite("share") /\ open # NoDocument
      /\ UNCHANGED <<open, page, histories, session, file, agreed, stale, unsaved>>
  BY DEF PreparePageShare, PageIsOpen
<1>2. "share" \in {"pen", "request", "share"}
  OBVIOUS
<1> QED
  BY <1>1, <1>2, SaveFacts

(* The session ends.                                                       *)
LEMMA DisconnectFacts ==
  ASSUME NotebookInv, DisconnectPageShare
  PROVE  NotebookInv' /\ PagesStep /\ UndoStep
<1>1. /\ writing = Idle /\ session # NotShared /\ session' = NotShared
      /\ UNCHANGED <<library, open, page, histories, writing, file, agreed, stale, unsaved>>
  BY DEF DisconnectPageShare
<1>2. writing.by = "none" /\ writing.next = "none" /\ writing.by # "share"
  BY <1>1 DEF Idle
<1>3. Stored' = Stored /\ Identity' = Identity
  BY <1>1 DEF Stored, Identity
<1>4. Types'
  <2>1. IsWriting'
    BY <1>1 DEF NotebookInv, Types, IsWriting
  <2> QED
    BY <1>1, <1>2, <2>1 DEF NotebookInv, Types, IsRelaying
<1>5. PagesExist' /\ InTransit' /\ FileFits'
  BY <1>1, <1>2 DEF NotebookInv, PagesExist, InTransit, FileFits
<1>6. PageIsStored'
  BY <1>1, <1>2, <1>3 DEF NotebookInv, PageIsStored, IsRelaying
<1>7. NothingIsUnsaved' /\ OnePageAhead'
  BY <1>1, <1>3 DEF NotebookInv, NothingIsUnsaved, OnePageAhead
<1>8. MemoryFits'
  BY <1>1, <1>2, <1>3 DEF NotebookInv, MemoryFits, IsRelaying
<1>9. PagesStep
  BY <1>3 DEF PagesStep, Changed
<1>10. UndoStep
  BY <1>1 DEF UndoStep
<1> QED
  BY <1>4, <1>5, <1>6, <1>7, <1>8, <1>9, <1>10 DEF NotebookInv

(* The relay's page arrives.                                               *)
LEMMA ReceivePageFacts ==
  ASSUME NotebookInv, NEW s \in RelayPage, ReceivePage(s)
  PROVE  NotebookInv' /\ PagesStep /\ UndoStep
<1>1. /\ writing = Idle /\ session # NotShared /\ library' = Store(library, session, s)
      /\ writing' = ToWrite("relay")
      /\ UNCHANGED <<open, page, histories, session, file, agreed, stale, unsaved>>
  BY DEF ReceivePage
<1>2. /\ Types /\ HistoriesOK(histories) /\ LibraryOK(library) /\ LibraryOK(Stored)
      /\ IdentitiesIn(Stored) = IdentitiesIn(library)
      /\ DOMAIN Stored = DOMAIN library /\ Identities(histories) \subseteq IdentitiesIn(library)
      /\ open # NoDocument => open \in DOMAIN library /\ Identity \in IdentitiesIn(library)
      /\ \A k \in DOMAIN histories :
           histories[k].identity \in IdentitiesIn(library) /\ IsFit(Stored, stale, histories[k])
  BY <1>1, IdleFacts
<1>3. s \in Seq(Stroke) /\ session \in IdentitiesIn(library) /\ page \in Seq(Stroke) /\ open \in DOMAIN library \cup {NoDocument}
  BY <1>1, <1>2, NotebookAssumption DEF Types
<1>4. /\ LibraryOK(library') /\ DOMAIN library' = DOMAIN library
      /\ IdentitiesIn(library') = IdentitiesIn(library)
      /\ \A d \in DOMAIN library : library'[d].current = library[d].current
      /\ PageAt(library', session) = [name |-> PageAt(library, session).name, strokes |-> s]
      /\ \A j \in IdentitiesIn(library) : j # session => PageAt(library', j) = PageAt(library, j)
  BY <1>1, <1>2, <1>3, StoreFacts
<1>5. open # NoDocument => Identity' = Identity
  BY <1>1, <1>2, <1>4 DEF Identity
<1>6. /\ \A j \in IdentitiesIn(library) :
           PageAt(Stored, j).name = PageAt(library, j).name
      /\ \A j \in IdentitiesIn(library) :
           open = NoDocument \/ j # Identity => PageAt(Stored, j) = PageAt(library, j)
      /\ open # NoDocument => PageAt(Stored, Identity).strokes = page
  BY <1>2, StoredFacts
<1>7. /\ LibraryOK(Stored') /\ IdentitiesIn(Stored') = IdentitiesIn(library)
      /\ \A j \in IdentitiesIn(library) : PageAt(Stored', j).name = PageAt(library', j).name
      /\ \A j \in IdentitiesIn(library) :
           open = NoDocument \/ j # Identity => PageAt(Stored', j) = PageAt(library', j)
      /\ open # NoDocument => PageAt(Stored', Identity).strokes = page
  <2> DEFINE new == StoredIn(library', open, page)
  <2>1. Stored' = new
    BY <1>1 DEF Stored, StoredIn, Identity
  <2>2. open # NoDocument => Identity = <<open, library'[open].current>>
    BY <1>1, <1>5 DEF Identity
  <2>3. /\ LibraryOK(new) /\ IdentitiesIn(new) = IdentitiesIn(library')
        /\ \A j \in IdentitiesIn(library') : PageAt(new, j).name = PageAt(library', j).name
        /\ \A j \in IdentitiesIn(library') :
             open = NoDocument \/ j # <<open, library'[open].current>> => PageAt(new, j) = PageAt(library', j)
        /\ open # NoDocument => PageAt(new, <<open, library'[open].current>>).strokes = page
    <3> DEFINE lib == library'
               id  == <<open, lib[open].current>>
    <3>1. LibraryOK(lib) /\ open \in DOMAIN lib \cup {NoDocument} /\ page \in Seq(Stroke)
      BY <1>3, <1>4
    <3> HIDE DEF lib
    <3>2. /\ LibraryOK(StoredIn(lib, open, page)) /\ IdentitiesIn(StoredIn(lib, open, page)) = IdentitiesIn(lib)
          /\ \A j \in IdentitiesIn(lib) : PageAt(StoredIn(lib, open, page), j).name = PageAt(lib, j).name
          /\ \A j \in IdentitiesIn(lib) :
               open = NoDocument \/ j # id => PageAt(StoredIn(lib, open, page), j) = PageAt(lib, j)
          /\ open # NoDocument => PageAt(StoredIn(lib, open, page), id) = [name |-> PageAt(lib, id).name, strokes |-> page]
      BY <3>1, StoredInFacts
    <3> QED
      BY <3>2 DEF lib
  <2> HIDE DEF new
  <2> QED
    BY <1>4, <2>1, <2>2, <2>3
<1>8. ASSUME NEW j \in IdentitiesIn(library)
      PROVE  /\ PageAt(Stored', j).name = PageAt(Stored, j).name
             /\ j = session \/ PageAt(Stored', j).strokes = PageAt(Stored, j).strokes
  <2>1. PageAt(library', j).name = PageAt(library, j).name
    BY <1>4
  <2>2. PageAt(Stored', j).name = PageAt(Stored, j).name
    BY <1>6, <1>7, <2>1
  <2>3. CASE open # NoDocument /\ j = Identity
    BY <1>6, <1>7, <2>2, <2>3
  <2>4. CASE open = NoDocument \/ j # Identity
    BY <1>4, <1>6, <1>7, <2>2, <2>4
  <2> QED
    BY <2>3, <2>4
<1>9. writing'.by = "relay"
  BY <1>1 DEF ToWrite
<1>10. PageIsStored'
  <2>1. CASE open = NoDocument
    BY <1>1, <2>1 DEF PageIsStored
  <2>2. CASE open # NoDocument /\ session = Identity
    BY <1>1, <1>5, <1>9, <2>2 DEF PageIsStored, IsRelaying, IsShared
  <2>3. CASE open # NoDocument /\ session # Identity
    <3>1. page = PageAt(library, Identity).strokes
      BY <1>1, <2>3 DEF NotebookInv, PageIsStored, IsRelaying, Idle
    <3>2. PageAt(library', Identity) = PageAt(library, Identity)
      BY <1>2, <1>4, <2>3
    <3> QED
      BY <1>1, <1>5, <2>3, <3>1, <3>2 DEF PageIsStored
  <2> QED
    BY <2>1, <2>2, <2>3
<1>11. MemoryFits'
  <2> SUFFICES ASSUME NEW k \in DOMAIN histories, histories[k].identity # session
               PROVE  IsFit(Stored', stale, histories[k])
    BY <1>1, <1>9 DEF MemoryFits, IsRelaying
  <2>1. histories[k].identity \in IdentitiesIn(library) /\ IsFit(Stored, stale, histories[k])
    BY <1>2
  <2> QED
    BY <1>8, <2>1, FitMoves
<1>12. Changed(Stored, Stored') \subseteq {PageAt(library, session).name} /\ Changed(Stored', Stored) \subseteq {PageAt(library, session).name}
  <2> DEFINE S == {PageAt(library, session).name}
  <2>1. \A j \in IdentitiesIn(Stored) :
          /\ PageAt(Stored', j).name = PageAt(Stored, j).name
          /\ PageAt(Stored, j).name \in S \/ PageAt(Stored', j).strokes = PageAt(Stored, j).strokes
    BY <1>2, <1>3, <1>6, <1>8
  <2>2. LibraryOK(Stored) /\ LibraryOK(Stored') /\ IdentitiesIn(Stored') = IdentitiesIn(Stored)
    BY <1>2, <1>7
  <2> HIDE DEF S
  <2>3. Changed(Stored, Stored') \subseteq S /\ Changed(Stored', Stored) \subseteq S
    BY <2>1, <2>2, AlikeFacts
  <2> QED
    BY <2>3 DEF S
<1>13. NotebookInv'
  <2>1. "relay" \in {"pen", "request", "share", "relay"} /\ "relay" # "share"
    OBVIOUS
  <2>2. /\ IdentitiesIn(library) \subseteq IdentitiesIn(library') /\ open' \in DOMAIN library' \cup {NoDocument}
        /\ page' \in Seq(Stroke)
    BY <1>1, <1>3, <1>4
  <2>3. HistoriesOK(histories') /\ Identities(histories') \subseteq IdentitiesIn(library')
    BY <1>1, <1>2, <1>4
  <2>4. \E n : Changed(Stored', Stored) \subseteq {n}
    BY <1>12
  <2> QED
    BY <1>1, <1>4, <1>10, <1>11, <2>1, <2>2, <2>3, <2>4, HandlerFacts
<1>14. PagesStep
  BY <1>1, <1>12, OneChange
<1>15. UndoStep
  BY <1>1 DEF UndoStep
<1> QED
  BY <1>13, <1>14, <1>15

-----------------------------------------------------------------------------
(* The writes and the faults                                               *)

(* Between the two writes: the library in memory is that of the file, but  *)
(* for the page that the relay's replaces.                                 *)
LEMMA TransitFacts ==
  ASSUME NotebookInv, writing.next = "histories"
  PROVE  /\ file.library = library
         /\ Stored = library \/ (IsRelaying /\ open # NoDocument /\ IsShared)
         /\ open # NoDocument => Changed(Stored, library) \subseteq {PageAt(library, Identity).name}
         /\ \A k \in DOMAIN histories : IsFit(library, stale, histories[k])
<1>1. Types /\ PagesExist /\ InTransit /\ PageIsStored /\ MemoryFits /\ writing # Idle
  BY DEF NotebookInv, Idle
<1>2. /\ LibraryOK(Stored) /\ LibraryOK(library) /\ IdentitiesIn(Stored) = IdentitiesIn(library)
      /\ \A j \in IdentitiesIn(library) : PageAt(Stored, j).name = PageAt(library, j).name
      /\ \A j \in IdentitiesIn(library) :
           open = NoDocument \/ j # Identity => PageAt(Stored, j) = PageAt(library, j)
      /\ open = NoDocument \/ PageAt(library, Identity).strokes = page => Stored = library
  BY <1>1, StoredFacts DEF Types
<1>3. file.library = library /\ (IsRelaying => session \notin Identities(histories))
  BY <1>1 DEF InTransit
<1>4. Stored = library \/ (IsRelaying /\ open # NoDocument /\ IsShared)
  BY <1>1, <1>2 DEF PageIsStored
<1>5. ASSUME open # NoDocument  PROVE Changed(Stored, library) \subseteq {PageAt(library, Identity).name}
  <2> DEFINE S == {PageAt(library, Identity).name}
  <2>1. \A j \in IdentitiesIn(Stored) :
          /\ PageAt(library, j).name = PageAt(Stored, j).name
          /\ PageAt(Stored, j).name \in S \/ PageAt(library, j).strokes = PageAt(Stored, j).strokes
    BY <1>2
  <2> HIDE DEF S
  <2>2. Changed(Stored, library) \subseteq S
    BY <1>2, <2>1, AlikeFacts
  <2> QED
    BY <2>2 DEF S
<1>6. ASSUME NEW k \in DOMAIN histories  PROVE IsFit(library, stale, histories[k])
  <2>1. histories[k].identity \in Identities(histories) /\ histories[k].identity \in IdentitiesIn(library)
    BY <1>1 DEF Identities, PagesExist
  <2>2. ~(IsRelaying /\ histories[k].identity = session)
    BY <1>3, <2>1
  <2>3. IsFit(Stored, stale, histories[k])
    BY <1>1, <2>2 DEF MemoryFits
  <2>4. Stored = library \/ PageAt(Stored, histories[k].identity) = PageAt(library, histories[k].identity)
    BY <1>2, <1>4, <2>1, <2>2 DEF IsShared
  <2> QED
    BY <2>3, <2>4, FitMoves
<1> QED
  BY <1>3, <1>4, <1>5, <1>6

(* The library is written.                                                 *)
LEMMA WriteLibraryFacts ==
  ASSUME NotebookInv, WriteLibrary
  PROVE  NotebookInv' /\ PagesStep /\ UndoStep
<1>1. /\ Types /\ PagesExist /\ PageIsStored /\ MemoryFits /\ FileFits
      /\ LibraryOK(library) /\ HistoriesOK(histories) /\ IsWriting
  BY DEF NotebookInv, Types
<1>2. /\ writing.next = "library" /\ writing # Idle
      /\ file' = [file EXCEPT !.library = library]
      /\ writing' = [writing EXCEPT !.next = "histories"]
      /\ histories' = (IF IsRelaying THEN Cleared(histories, session) ELSE histories)
      /\ stale' = (IF IsRelaying THEN stale \ {PageAt(library, session).name} ELSE stale)
      /\ UNCHANGED <<library, open, page, session, agreed, unsaved>>
  BY DEF WriteLibrary, SaveDocumentLibrary, IsRelaying, Idle
<1>3. file' = [library |-> library, histories |-> file.histories] /\ file'.library = library /\ file'.histories = file.histories
  <2>1. file = [library |-> file.library, histories |-> file.histories]
    BY <1>1 DEF Types
  <2> QED
    BY <1>2, <2>1
<1>4. writing' = [by |-> writing.by, next |-> "histories"] /\ writing'.by = writing.by /\ writing'.next = "histories"
  BY <1>1, <1>2 DEF IsWriting
<1>5. Stored' = Stored /\ Identity' = Identity /\ (IsRelaying' <=> IsRelaying) /\ (IsShared' <=> IsShared)
  BY <1>2, <1>4 DEF Stored, Identity, IsRelaying, IsShared
<1>6. /\ HistoriesOK(histories') /\ (IsRelaying => session \notin Identities(histories'))
      /\ \A k \in DOMAIN histories' : \E j \in DOMAIN histories : histories'[k] = histories[j]
      /\ Identities(histories') \subseteq Identities(histories)
  <2>1. HistoriesOK(histories') /\ (IsRelaying => session \notin Identities(histories'))
    BY <1>1, <1>2, ClearedFacts
  <2>2. \A k \in DOMAIN histories' : \E j \in DOMAIN histories : histories'[k] = histories[j]
    BY <1>1, <1>2, ClearedFacts
  <2> QED
    BY <2>1, <2>2 DEF Identities
<1>7. Types'
  <2>1. IsWriting'
    BY <1>1, <1>2, <1>4 DEF IsWriting
  <2> QED
    BY <1>1, <1>2, <1>3, <1>4, <1>5, <1>6, <2>1 DEF Types
<1>8. PagesExist'
  BY <1>1, <1>2, <1>3, <1>6 DEF PagesExist
<1>9. InTransit'
  BY <1>2, <1>3, <1>5, <1>6 DEF InTransit
<1>10. PageIsStored'
  BY <1>1, <1>2, <1>5 DEF PageIsStored
<1>11. NothingIsUnsaved'
  <2>1. writing' # Idle
    BY <1>4 DEF Idle
  <2> QED
    BY <2>1 DEF NothingIsUnsaved
<1>12. MemoryFits'
  <2> SUFFICES ASSUME NEW k \in DOMAIN histories'
               PROVE  (IsRelaying /\ histories'[k].identity = session) \/ IsFit(Stored, stale', histories'[k])
    BY <1>2, <1>5 DEF MemoryFits
  <2>1. PICK j \in DOMAIN histories : histories'[k] = histories[j]
    BY <1>6
  <2>2. (IsRelaying /\ histories[j].identity = session) \/ IsFit(Stored, stale, histories[j])
    BY <1>1 DEF MemoryFits
  <2>3. CASE ~IsRelaying
    BY <1>2, <2>1, <2>2, <2>3
  <2>4. CASE IsRelaying
    <3>1. histories'[k].identity # session
      BY <1>6, <2>4 DEF Identities
    <3>2. histories[j].identity \in IdentitiesIn(library) /\ session \in IdentitiesIn(library)
      BY <1>1, <2>4 DEF PagesExist, Identities, Types
    <3>3. PageAt(library, histories[j].identity).name # PageAt(library, session).name
      BY <1>1, <2>1, <3>1, <3>2 DEF LibraryOK, NamesAreOwn
    <3>4. PageAt(Stored, histories[j].identity).name = PageAt(library, histories[j].identity).name
      BY <1>1, <3>2, StoredFacts
    <3> QED
      BY <1>2, <2>1, <2>2, <2>4, <3>1, <3>3, <3>4 DEF IsFit
  <2> QED
    BY <2>3, <2>4
<1>13. FileFits'
  BY <1>1, <1>2, <1>3 DEF FileFits
<1>14. OnePageAhead'
  <2>1. CASE open = NoDocument
    <3>1. Stored = library /\ Changed(library, library) = {}
      BY <2>1 DEF Stored, Changed
    <3> QED
      BY <1>3, <1>5, <3>1 DEF OnePageAhead
  <2>2. CASE open # NoDocument
    <3>1. /\ LibraryOK(Stored) /\ IdentitiesIn(Stored) = IdentitiesIn(library)
          /\ \A j \in IdentitiesIn(library) : PageAt(Stored, j).name = PageAt(library, j).name
          /\ \A j \in IdentitiesIn(library) : j # Identity => PageAt(Stored, j) = PageAt(library, j)
      BY <1>1, <2>2, StoredFacts
    <3> DEFINE S == {PageAt(library, Identity).name}
    <3>2. \A j \in IdentitiesIn(Stored) :
          /\ PageAt(library, j).name = PageAt(Stored, j).name
          /\ PageAt(Stored, j).name \in S \/ PageAt(library, j).strokes = PageAt(Stored, j).strokes
      BY <3>1
    <3> HIDE DEF S
    <3>3. Changed(Stored, library) \subseteq S
      BY <1>1, <3>1, <3>2, AlikeFacts
    <3> QED
      BY <1>3, <1>5, <3>3 DEF OnePageAhead, S
  <2> QED
    BY <2>1, <2>2
<1>15. PagesStep
  BY <1>5 DEF PagesStep, Changed
<1>16. UndoStep
  BY <1>2 DEF UndoStep
<1> QED
  BY <1>7, <1>8, <1>9, <1>10, <1>11, <1>12, <1>13, <1>14, <1>15, <1>16 DEF NotebookInv

(* The histories are written.                                              *)
LEMMA WriteHistoriesFacts ==
  ASSUME NotebookInv, WriteHistories
  PROVE  NotebookInv' /\ PagesStep /\ UndoStep
<1>1. Types /\ PagesExist /\ LibraryOK(library) /\ HistoriesOK(histories) /\ IsWriting
  BY DEF NotebookInv, Types
<1>2. /\ writing.next = "histories" /\ writing # Idle /\ writing' = Idle
      /\ file' = [file EXCEPT !.histories = histories]
      /\ page' = IF IsRelaying /\ open # NoDocument /\ IsShared
                 THEN PageAt(library, session).strokes ELSE page
      /\ session' = IF writing.by = "share" THEN Identity ELSE session
      /\ agreed' = [library |-> file.library, stale |-> stale] /\ unsaved' = FALSE
      /\ UNCHANGED <<library, open, histories, stale>>
  BY DEF WriteHistories, SavePageEditHistories, IsRelaying, Idle
<1>3. /\ file.library = library
      /\ Stored = library \/ (IsRelaying /\ open # NoDocument /\ IsShared)
      /\ open # NoDocument => Changed(Stored, library) \subseteq {PageAt(library, Identity).name}
      /\ \A k \in DOMAIN histories : IsFit(library, stale, histories[k])
  BY <1>2, TransitFacts
<1>4. file' = [library |-> library, histories |-> histories] /\ file'.library = library /\ file'.histories = histories
  <2>1. file = [library |-> file.library, histories |-> file.histories]
    BY <1>1 DEF Types
  <2> QED
    BY <1>2, <1>3, <2>1
<1>5. open # NoDocument => /\ open \in DOMAIN library /\ Identity \in IdentitiesIn(library)
                           /\ PageAt(library, Identity) \in Leaf
                           /\ PageAt(Stored, Identity).strokes = page
  <2>1. open # NoDocument => /\ open \in DOMAIN library /\ Identity \in IdentitiesIn(library)
                             /\ PageAt(Stored, Identity).strokes = page
    BY <1>1, StoredFacts
  <2> QED
    BY <1>1, <2>1, IdentityFacts DEF LibraryOK
<1>6. Identity' = Identity
  BY <1>2 DEF Identity
<1>7. open # NoDocument => page' = PageAt(library, Identity).strokes
  BY <1>2, <1>3, <1>5 DEF IsShared
<1>8. Stored' = library
  <2>1. CASE open = NoDocument
    BY <1>2, <2>1 DEF Stored
  <2>2. CASE open # NoDocument
    <3>1. Stored' = Store(library, Identity, page')
      BY <1>2, <1>6, <2>2 DEF Stored
    <3> QED
      BY <1>1, <1>5, <1>7, <2>2, <3>1, StoreNothing
  <2> QED
    BY <2>1, <2>2
<1>9. Types'
  <2>1. IsWriting' /\ writing'.by = "none"
    BY <1>2 DEF IsWriting, Idle
  <2>2. page' \in Seq(Stroke)
    <3>1. CASE open = NoDocument
      BY <1>1, <1>2, <3>1 DEF Types
    <3>2. CASE open # NoDocument
      BY <1>5, <1>7, <3>2 DEF Leaf
    <3> QED
      BY <3>1, <3>2
  <2>3. session' \in IdentitiesIn(library) \cup {NotShared}
    BY <1>1, <1>2, <1>5 DEF Types
  <2>4. agreed'.library = library
    BY <1>2, <1>3
  <2> QED
    BY <1>1, <1>2, <1>4, <2>1, <2>2, <2>3, <2>4 DEF Types, IsRelaying
<1>10. PagesExist' /\ InTransit'
  BY <1>1, <1>2, <1>4 DEF PagesExist, InTransit, Idle
<1>11. PageIsStored'
  BY <1>2, <1>6, <1>7 DEF PageIsStored
<1>12. NothingIsUnsaved'
  BY <1>2, <1>4, <1>8 DEF NothingIsUnsaved
<1>13. MemoryFits'
  <2>1. \A k \in DOMAIN histories' : IsFit(Stored', stale', histories'[k])
    BY <1>2, <1>3, <1>8
  <2> QED
    BY <2>1 DEF MemoryFits
<1>14. FileFits'
  <2>1. agreed'.library = library /\ agreed'.stale = stale
    BY <1>2, <1>3
  <2>2. \A k \in DOMAIN file'.histories : IsFit(agreed'.library, agreed'.stale, file'.histories[k])
    BY <1>3, <1>4, <2>1
  <2> QED
    BY <2>2 DEF FileFits
<1>15. OnePageAhead'
  <2>1. Changed(library, library) = {}
    BY DEF Changed
  <2> QED
    BY <1>4, <1>8, <2>1 DEF OnePageAhead
<1>16. PagesStep
  <2>1. CASE Stored = library
    BY <1>8, <2>1 DEF PagesStep, Changed
  <2>2. CASE IsRelaying /\ open # NoDocument /\ IsShared
    <3>1. Changed(Stored, Stored') \subseteq {PageAt(library, session).name} /\ session # NotShared
      BY <1>1, <1>3, <1>8, <2>2 DEF IsShared, Types
    <3> QED
      BY <3>1, OneChange
  <2> QED
    BY <1>3, <2>1, <2>2
<1>17. UndoStep
  BY <1>2 DEF UndoStep, PageIsOpen
<1> QED
  BY <1>9, <1>10, <1>11, <1>12, <1>13, <1>14, <1>15, <1>16, <1>17 DEF NotebookInv

(* A notebook without any history.                                         *)
LEMMA NoHistories == HistoriesOK(<<>>) /\ Identities(<<>>) = {} /\ DOMAIN <<>> = {}
<1>1. <<>> \in Seq(History) /\ Len(<<>>) = 0 /\ DOMAIN <<>> = {}
  BY EmptySeq
<1>2. 0 <= MaxHistories
  BY HistoryAssumption
<1> QED
  BY <1>1, <1>2 DEF HistoriesOK, Identities

(* The process starts again from its files, perhaps without the histories. *)
LEMMA RestartFacts ==
  ASSUME NotebookInv, Restart
  PROVE  NotebookInv' /\ PagesStep /\ UndoStep
<1>1. Types /\ PagesExist /\ FileFits /\ OnePageAhead
  BY DEF NotebookInv
<1>2. /\ library' = file.library /\ open' = NoDocument /\ page' = <<>>
      /\ session' = NotShared /\ writing' = Idle /\ unsaved' = (histories' # file.histories)
      /\ \/ /\ histories' = file.histories
            /\ stale' = agreed.stale \cup NotAgreeing(file.library, file.histories)
         \/ histories' = <<>>
      /\ file' = file /\ agreed' = agreed
  BY DEF Restart, RestoreDocumentLibrary, RestorePageEditHistories
<1>12. HistoriesOK(<<>>) /\ Identities(<<>>) = {} /\ DOMAIN <<>> = {}
  BY NoHistories
<1>3. Stored' = file.library
  BY <1>2 DEF Stored
<1>4. Types'
  <2>1. IsWriting' /\ writing'.by = "none"
    BY <1>2 DEF IsWriting, Idle
  <2>2. page' \in Seq(Stroke)
    BY <1>2, EmptySeq
  <2>3. HistoriesOK(histories')
    BY <1>1, <1>2, <1>12 DEF Types
  <2> QED
    BY <1>1, <1>2, <2>1, <2>2, <2>3 DEF Types, IsRelaying
<1>5. PagesExist' /\ InTransit' /\ PageIsStored'
  <2>1. Identities(histories') \subseteq IdentitiesIn(library')
    BY <1>1, <1>2, <1>12 DEF PagesExist
  <2> QED
    BY <1>1, <1>2, <2>1 DEF PagesExist, InTransit, PageIsStored, Idle
<1>6. NothingIsUnsaved'
  BY <1>1, <1>2, <1>3 DEF Types, NothingIsUnsaved
<1>7. MemoryFits'
  <2> SUFFICES ASSUME NEW k \in DOMAIN file.histories, histories' = file.histories,
                      stale' = agreed.stale \cup NotAgreeing(file.library, file.histories)
               PROVE  IsFit(file.library, stale', file.histories[k])
    BY <1>2, <1>3, <1>12 DEF MemoryFits
  <2> DEFINE id == file.histories[k].identity
  <2>1. id \in Identities(file.histories) /\ id \in IdentitiesIn(file.library)
    BY <1>1 DEF PagesExist, Identities
  <2>2. CASE id \notin IdentitiesIn(agreed.library) \/ PageAt(file.library, id) # PageAt(agreed.library, id)
    <3>1. PageAt(file.library, id).name \in NotAgreeing(file.library, file.histories)
      BY <2>1, <2>2 DEF NotAgreeing
    <3> QED
      BY <3>1 DEF IsFit
  <2>3. CASE id \in IdentitiesIn(agreed.library) /\ PageAt(file.library, id) = PageAt(agreed.library, id)
    <3>1. IsFit(agreed.library, agreed.stale, file.histories[k])
      BY <1>1, <2>3 DEF FileFits
    <3> QED
      BY <2>3, <3>1 DEF IsFit
  <2> QED
    BY <2>2, <2>3
<1>8. FileFits'
  BY <1>1, <1>2 DEF FileFits
<1>9. OnePageAhead'
  BY <1>2, <1>3 DEF OnePageAhead, Changed
<1>10. PagesStep
  <2>1. CASE unsaved
    BY <2>1 DEF PagesStep
  <2>2. CASE \E n : Changed(Stored, file.library) \subseteq {n}
    BY <1>2, <1>3, <2>2, OneChange
  <2> QED
    BY <1>1, <2>1, <2>2 DEF OnePageAhead
<1>11. UndoStep
  BY <1>2 DEF UndoStep, PageIsOpen
<1> QED
  BY <1>4, <1>5, <1>6, <1>7, <1>8, <1>9, <1>10, <1>11 DEF NotebookInv

(* A write fails.                                                          *)
LEMMA FailWriteFacts ==
  ASSUME NotebookInv, FailWrite
  PROVE  NotebookInv' /\ PagesStep /\ UndoStep
<1>1. /\ Types /\ PagesExist /\ PageIsStored /\ MemoryFits /\ FileFits /\ IsWriting
      /\ LibraryOK(library) /\ LibraryOK(file.library) /\ LibraryOK(agreed.library)
      /\ HistoriesOK(histories) /\ HistoriesOK(file.histories)
      /\ file = [library |-> file.library, histories |-> file.histories]
  BY DEF NotebookInv, Types
<1>2. /\ writing.by \in {"request", "share", "relay"} /\ writing' = Idle
      /\ session' = (IF IsRelaying THEN NotShared ELSE session) /\ unsaved' = TRUE
      /\ stale \subseteq stale'
      /\ writing = ToWrite("relay") /\ session \in Identities(histories) => PageAt(library, session).name \in stale'
      /\ UNCHANGED <<library, open, page, histories>>
  BY DEF FailWrite, Fail, IsRelaying
<1>3. writing # Idle /\ writing.next \in {"library", "histories"}
  BY <1>1, <1>2 DEF IsWriting, Idle
<1>4. \/ file' = file /\ agreed' = agreed
      \/ writing.next = "library" /\ file' = [file EXCEPT !.library = library] /\ agreed' = agreed
      \/ /\ writing.next = "histories" /\ file' = [file EXCEPT !.histories = histories]
         /\ agreed' = [library |-> file.library, stale |-> stale]
  BY DEF FailWrite, Fail, SaveDocumentLibrary, SavePageEditHistories
<1>5. \/ file' = file /\ agreed' = agreed
      \/ file' = [library |-> library, histories |-> file.histories] /\ agreed' = agreed
      \/ /\ writing.next = "histories" /\ file.library = library
         /\ file' = [library |-> library, histories |-> histories]
         /\ agreed' = [library |-> library, stale |-> stale]
  <2>1. writing.next = "histories" => file.library = library
    BY TransitFacts
  <2>2. [file EXCEPT !.library = library] = [library |-> library, histories |-> file.histories]
    BY <1>1
  <2>3. [file EXCEPT !.histories = histories] = [library |-> file.library, histories |-> histories]
    BY <1>1
  <2> QED
    BY <1>4, <2>1, <2>2, <2>3
<1>6. Stored' = Stored /\ Identity' = Identity
  BY <1>2 DEF Stored, Identity
<1>7. Types'
  <2>1. IsWriting' /\ writing'.by = "none"
    BY <1>2 DEF IsWriting, Idle
  <2>2. /\ LibraryOK(file'.library) /\ LibraryOK(agreed'.library) /\ HistoriesOK(file'.histories)
        /\ file' = [library |-> file'.library, histories |-> file'.histories]
    BY <1>1, <1>5
  <2>3. session' \in IdentitiesIn(library) \cup {NotShared}
    BY <1>1, <1>2 DEF Types
  <2> QED
    BY <1>1, <1>2, <2>1, <2>2, <2>3 DEF Types, IsRelaying
<1>8. PagesExist'
  BY <1>1, <1>2, <1>5 DEF PagesExist
<1>9. InTransit' /\ NothingIsUnsaved' /\ OnePageAhead'
  BY <1>2 DEF InTransit, NothingIsUnsaved, OnePageAhead, Idle
<1>10. PageIsStored'
  BY <1>1, <1>2, <1>3, <1>6 DEF PageIsStored
<1>11. MemoryFits'
  <2> SUFFICES ASSUME NEW k \in DOMAIN histories  PROVE IsFit(Stored, stale', histories[k])
    BY <1>2, <1>6 DEF MemoryFits
  <2>1. histories[k].identity \in Identities(histories) /\ histories[k].identity \in IdentitiesIn(library)
    BY <1>1 DEF Identities, PagesExist
  <2>2. CASE IsFit(Stored, stale, histories[k])
    BY <1>2, <2>2, FitMoves
  <2>3. CASE IsRelaying /\ histories[k].identity = session
    <3>1. writing.next = "library"
      BY <1>3, <2>1, <2>3 DEF NotebookInv, InTransit
    <3>2. writing = ToWrite("relay")
      BY <1>1, <2>3, <3>1 DEF IsWriting, IsRelaying, ToWrite
    <3>3. PageAt(library, session).name \in stale'
      BY <1>2, <2>1, <2>3, <3>2
    <3>4. PageAt(Stored, session).name = PageAt(library, session).name
      BY <1>1, <2>1, <2>3, StoredFacts
    <3> QED
      BY <2>3, <3>3, <3>4 DEF IsFit
  <2> QED
    BY <1>1, <2>2, <2>3 DEF MemoryFits
<1>12. FileFits'
  <2>1. CASE agreed' = agreed /\ file'.histories = file.histories
    BY <1>1, <2>1 DEF FileFits
  <2>2. CASE /\ writing.next = "histories" /\ file' = [library |-> library, histories |-> histories]
             /\ agreed' = [library |-> library, stale |-> stale]
    <3>1. \A k \in DOMAIN histories : IsFit(library, stale, histories[k])
      BY <2>2, TransitFacts
    <3>2. file'.histories = histories /\ agreed'.library = library /\ agreed'.stale = stale
      BY <2>2
    <3> QED
      BY <3>1, <3>2 DEF FileFits
  <2> QED
    BY <1>5, <2>1, <2>2
<1>13. PagesStep
  BY <1>6 DEF PagesStep, Changed
<1>14. UndoStep
  BY <1>2 DEF UndoStep
<1> QED
  BY <1>7, <1>8, <1>9, <1>10, <1>11, <1>12, <1>13, <1>14 DEF NotebookInv

-----------------------------------------------------------------------------
(* The theorems                                                            *)

(* One document, with one page.                                            *)
LEMMA NotebookInvInit == NotebookInit => NotebookInv
<1> SUFFICES ASSUME NotebookInit  PROVE NotebookInv
  OBVIOUS
<1> DEFINE lib == [d \in {First} |-> [current |-> 1, pages |-> <<BlankPage(1)>>]]
           book == [current |-> 1, pages |-> <<BlankPage(1)>>]
           blank == BlankPage(1)
<1>1. /\ library = lib /\ open = NoDocument /\ page = <<>> /\ histories = <<>> /\ session = NotShared
      /\ writing = Idle /\ file = [library |-> lib, histories |-> <<>>]
      /\ agreed = [library |-> lib, stale |-> {}] /\ stale = {} /\ unsaved = FALSE
  BY DEF NotebookInit
<1>2. blank \in Leaf /\ blank.name = 1
  BY EmptySeq DEF BlankPage, Leaf
<1>3. <<blank>> \in Seq(Leaf) /\ DOMAIN <<blank>> = {1} /\ <<blank>>[1] = blank
  BY <1>2
<1>4. book \in Book /\ book.current = 1 /\ book.pages = <<blank>>
  BY <1>3 DEF Book
<1>5. DOMAIN lib = {First} /\ lib[First] = book /\ lib = [d \in {First} |-> book]
  OBVIOUS
<1> HIDE DEF lib, book, blank
<1>6. LibraryTypeOK(lib)
  <2>1. lib \in [DOMAIN lib -> Book] /\ DOMAIN lib # {}
    BY <1>4, <1>5
  <2> QED
    BY <1>3, <1>4, <1>5, <2>1, NotebookAssumption DEF LibraryTypeOK
<1>7. IdentitiesIn(lib) = {<<First, 1>>}
  BY <1>3, <1>4, <1>5 DEF IdentitiesIn
<1>8. PageAt(lib, <<First, 1>>) = blank
  BY <1>3, <1>4, <1>5 DEF PageAt
<1>9. IsFiniteSet({<<First, 1>>}) /\ Cardinality({<<First, 1>>}) = 1
  BY FS_Singleton
<1>10. LibraryOK(lib)
  BY <1>2, <1>6, <1>7, <1>8, <1>9 DEF LibraryOK, NamesAreOwn
<1>11. HistoriesOK(<<>>) /\ Identities(<<>>) = {} /\ DOMAIN <<>> = {}
  BY NoHistories
<1>12. Stored = lib
  BY <1>1 DEF Stored
<1>13. Types
  <2>1. IsWriting /\ writing.by = "none"
    BY <1>1 DEF IsWriting, Idle
  <2>2. page \in Seq(Stroke)
    BY <1>1, EmptySeq
  <2> QED
    BY <1>1, <1>10, <1>11, <2>1, <2>2 DEF Types, IsRelaying
<1>14. PagesExist /\ InTransit /\ PageIsStored
  BY <1>1, <1>11 DEF PagesExist, InTransit, PageIsStored, Idle
<1>15. NothingIsUnsaved
  BY <1>1, <1>12 DEF NothingIsUnsaved
<1>16. MemoryFits /\ FileFits
  BY <1>1, <1>11 DEF MemoryFits, FileFits
<1>17. OnePageAhead
  BY <1>1, <1>12 DEF OnePageAhead, Changed
<1> QED
  BY <1>13, <1>14, <1>15, <1>16, <1>17 DEF NotebookInv

(* Every step keeps the invariant, and has the two properties of steps.    *)
LEMMA NotebookInvNext ==
  ASSUME NotebookInv, Next
  PROVE  NotebookInv' /\ PagesStep /\ UndoStep
<1>1. ASSUME Handler  PROVE NotebookInv' /\ PagesStep /\ UndoStep
  <2>1. ASSUME NEW s \in Stroke, NEW who \in {"pen", "request"}, Draw(s, who)
        PROVE  NotebookInv' /\ PagesStep /\ UndoStep
    BY <2>1, DrawFacts
  <2>2. ASSUME NEW left \in ErasedStrokes, NEW who \in {"pen", "request"}, Erase(left, who)
        PROVE  NotebookInv' /\ PagesStep /\ UndoStep
    BY <2>2, EraseFacts
  <2>3. ASSUME NEW i \in 1 .. MaxPages, ChangePage(i)  PROVE NotebookInv' /\ PagesStep /\ UndoStep
    BY <2>3, ChangePageFacts
  <2>4. ASSUME NEW d \in Document, NEW who \in {"pen", "request"}, OpenDocument(d, who)
        PROVE  NotebookInv' /\ PagesStep /\ UndoStep
    BY <2>4, OpenDocumentFacts
  <2>5. ASSUME NEW d \in Document, NEW who \in {"pen", "request"}, NEW n \in 1 .. MaxPages, AddDocument(d, n, who)
        PROVE  NotebookInv' /\ PagesStep /\ UndoStep
    BY <2>5, AddDocumentFacts
  <2>6. ASSUME NEW d \in Document, NEW n \in 1 .. MaxPages, ImportUnrenderable(d, n)
        PROVE  NotebookInv' /\ PagesStep /\ UndoStep
    BY <2>6, ImportUnrenderableFacts
  <2>7. ASSUME NEW who \in {"pen", "request"}, SaveState(who)  PROVE NotebookInv' /\ PagesStep /\ UndoStep
    BY <2>7, SaveStateFacts
  <2>8. ASSUME NEW s \in RelayPage, ReceivePage(s)  PROVE NotebookInv' /\ PagesStep /\ UndoStep
    BY <2>8, ReceivePageFacts
  <2>9. ASSUME NEW s \in Stroke, FinishStrokeOfEndedSession(s)  PROVE NotebookInv' /\ PagesStep /\ UndoStep
    BY <2>9, FinishStrokeOfEndedSessionFacts
  <2> QED
    BY <1>1, <2>1, <2>2, <2>3, <2>4, <2>5, <2>6, <2>7, <2>8, <2>9, UndoFacts, RedoFacts, InsertBlankPageFacts,
       ShowLibraryFacts, PreparePageShareFacts, DisconnectFacts DEF Handler
<1>2. UndoIsRefused => Restart
  BY DEF UndoIsRefused
<1> QED
  BY <1>1, <1>2, WriteLibraryFacts, WriteHistoriesFacts, RestartFacts, FailWriteFacts DEF Next, Fault

(* Stuttering.                                                             *)
LEMMA NotebookInvStutters ==
  ASSUME NotebookInv, UNCHANGED vars
  PROVE  NotebookInv'
<1>1. Stored' = Stored /\ Identity' = Identity
  BY DEF Stored, Identity, vars
<1>2. Types' /\ PagesExist' /\ InTransit' /\ PageIsStored'
  BY <1>1 DEF NotebookInv, Types, PagesExist, InTransit, PageIsStored, IsWriting, IsRelaying, IsShared, vars
<1>3. NothingIsUnsaved' /\ FileFits' /\ OnePageAhead'
  BY <1>1 DEF NotebookInv, NothingIsUnsaved, FileFits, OnePageAhead, vars
<1>4. MemoryFits'
  BY <1>1 DEF NotebookInv, MemoryFits, IsRelaying, vars
<1> QED
  BY <1>2, <1>3, <1>4 DEF NotebookInv

(* The invariant holds, whatever the documents, strokes, pages and limits. *)
THEOREM NotebookInvHolds == Spec => []NotebookInv
<1>1. NotebookInv /\ [Next]_vars => NotebookInv'
  BY NotebookInvNext, NotebookInvStutters
<1> QED
  BY <1>1, NotebookInvInit, PTL DEF Spec

(* The state is typed, and what the relay writes is written for a session. *)
THEOREM NotebookIsWellTyped == Spec => []NotebookTypeOK
<1>1. ASSUME NEW lib, LibraryOK(lib)  PROVE IsLibrary(lib)
  <2>1. LibraryTypeOK(lib)
    BY <1>1 DEF LibraryOK
  <2>2. ASSUME NEW d \in DOMAIN lib, NEW i \in DOMAIN lib[d].pages  PROVE lib[d].pages[i].strokes \in Seq(Stroke)
    <3>1. lib[d].pages \in Seq(Leaf)
      BY <2>1, IdentityFacts DEF Book
    <3>2. lib[d].pages[i] \in Leaf
      BY <2>2, <3>1, LenProperties, ElementOfSeq
    <3> QED
      BY <3>2 DEF Leaf
  <2> QED
    BY <2>1, <2>2 DEF IsLibrary, LibraryTypeOK
<1>2. ASSUME NEW hs, HistoriesOK(hs), NEW k \in DOMAIN hs, NEW r \in Range(hs[k].undo) \cup Range(hs[k].redo)
      PROVE  IsReplacement(r)
  <2>1. hs[k].undo \in Seq(Edit) /\ hs[k].redo \in Seq(Edit)
    BY <1>2 DEF HistoriesOK, IsSized, History
  <2>2. \A s \in Seq(Edit) : \A e \in Range(s) : e \in Edit
    BY LenProperties, ElementOfSeq DEF Range
  <2>3. r \in Edit
    BY <2>1, <2>2
  <2> QED
    BY <2>3 DEF Edit, IsReplacement
<1>3. NotebookInv => NotebookTypeOK
  <2> SUFFICES ASSUME NotebookInv  PROVE NotebookTypeOK
    OBVIOUS
  <2>1. Types
    BY DEF NotebookInv
  <2>2. IsLibrary(library) /\ IsLibrary(file.library)
    BY <1>1, <2>1 DEF Types
  <2>3. \A k \in DOMAIN histories : \A r \in Range(histories[k].undo) \cup Range(histories[k].redo) : IsReplacement(r)
    BY <1>2, <2>1 DEF Types
  <2> QED
    BY <2>1, <2>2, <2>3 DEF Types, NotebookTypeOK, IsRelaying
<1> QED
  BY <1>3, NotebookInvHolds, PTL

(* Undo and redo find on the page what they expect there.                  *)
THEOREM UndoFindsItsPage == Spec => []HistoriesFitTheirPages
<1>1. NotebookInv => HistoriesFitTheirPages
  <2> SUFFICES ASSUME NotebookInv, writing = Idle, NEW k \in DOMAIN histories,
                      PageAt(Stored, histories[k].identity).name \notin stale
               PROVE  Fits(PageAt(Stored, histories[k].identity).strokes, histories[k])
    BY DEF HistoriesFitTheirPages
  <2>1. /\ HistoriesOK(histories) /\ LibraryOK(Stored) /\ IdentitiesIn(Stored) = IdentitiesIn(library)
        /\ histories[k].identity \in IdentitiesIn(library) /\ IsFit(Stored, stale, histories[k])
    BY IdleFacts
  <2>2. histories[k] \in History
    BY <2>1 DEF HistoriesOK, IsSized
  <2>3. PageAt(Stored, histories[k].identity) \in Leaf
    BY <2>1, IdentityFacts DEF LibraryOK
  <2>4. PageAt(Stored, histories[k].identity).strokes \in Seq(Stroke)
    BY <2>3 DEF Leaf
  <2> QED
    BY <2>1, <2>2, <2>4, FitsWellIsFits DEF IsFit
<1> QED
  BY <1>1, NotebookInvHolds, PTL

(* Histories pass the validation of save and restore, in memory and in the *)
(* file, and belong to pages that are in the library of the same place.    *)
THEOREM HistoriesBelongToPages == Spec => []HistoriesArePages
<1>1. ASSUME NEW hs, HistoriesOK(hs)  PROVE HistoriesAreValid(hs)
  <2>1. ASSUME NEW k \in DOMAIN hs  PROVE Len(hs[k].undo) <= MaxActions /\ Len(hs[k].redo) <= MaxActions
    <3>1. IsSized(hs[k])
      BY <1>1 DEF HistoriesOK
    <3>2. Len(hs[k].undo) \in Nat /\ Len(hs[k].redo) \in Nat /\ Len(hs[k].undo) + Len(hs[k].redo) <= MaxActions
      BY <3>1, LenProperties DEF IsSized, History
    <3>3. \A a, b \in Nat : a + b <= MaxActions => a <= MaxActions /\ b <= MaxActions
      BY HistoryAssumption
    <3> QED
      BY <3>2, <3>3
  <2> QED
    BY <1>1, <2>1 DEF HistoriesOK, HistoriesAreValid
<1>2. NotebookInv => HistoriesArePages
  BY <1>1 DEF NotebookInv, Types, PagesExist, HistoriesArePages
<1> QED
  BY <1>2, NotebookInvHolds, PTL

(* Between two handlers the files are what is in memory.                   *)
THEOREM HandlersSaveEverything == Spec => []NothingIsUnsaved
<1>1. NotebookInv => NothingIsUnsaved
  BY DEF NotebookInv
<1> QED
  BY <1>1, NotebookInvHolds, PTL

(* A step of undo or redo gives back exactly what was there, also where an *)
(* eraser cut one stroke into several.                                     *)
THEOREM EditsAreTakenBack == Spec => EditsCanBeTakenBack
<1>1. NotebookInv /\ [Next]_vars => [UndoStep]_vars
  BY NotebookInvNext
<1>2. Spec => [][UndoStep]_vars
  BY <1>1, NotebookInvHolds, PTL DEF Spec
<1> QED
  BY <1>2 DEF EditsCanBeTakenBack, UndoStep

(* A step changes the strokes of one page at most: the one that is open,   *)
(* the shared one, or the one that a process that stops had changed.       *)
THEOREM OnePageChangesAtATime == Spec => PagesChangeOneAtATime
<1>1. NotebookInv /\ [Next]_vars => [PagesStep]_vars
  BY NotebookInvNext
<1>2. Spec => [][PagesStep]_vars
  BY <1>1, NotebookInvHolds, PTL DEF Spec
<1> QED
  BY <1>2 DEF PagesChangeOneAtATime, PagesStep
=============================================================================
