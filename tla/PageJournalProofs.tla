-------------------------- MODULE PageJournalProofs --------------------------
(* Theorems of PageJournal. What is proved here holds for every number of  *)
(* participants, strokes and commands and for every value of the limits.   *)
(*                                                                         *)
(*  1. the history: HistoryInv, which no rendering is needed for;          *)
(*  2. the revisions of the commands;                                      *)
(*  3. points: what PointTotal counts, by induction over the strokes;      *)
(*  4. rendering: what is left of one stroke, and the page that the parts  *)
(*     make up, with an id for every stroke;                               *)
(*  5. the page: PageInv, of which its sizes and its reloading follow;     *)
(*  6. guests: what rendering leaves of the strokes of the others.         *)
EXTENDS PageJournal, SequenceTheorems, FiniteSetTheorems, WellFoundedInduction, TLAPS

-----------------------------------------------------------------------------
(* Sequences                                                               *)

(* Append keeps what is there and puts the element at the end.             *)
LEMMA AppendFacts ==
  ASSUME NEW S, NEW s \in Seq(S), NEW e \in S
  PROVE  /\ Append(s, e) \in Seq(S)
         /\ Len(Append(s, e)) = Len(s) + 1
         /\ DOMAIN Append(s, e) = 1 .. Len(s) + 1
         /\ \A i \in DOMAIN s : i \in DOMAIN Append(s, e) /\ Append(s, e)[i] = s[i]
         /\ Append(s, e)[Len(s) + 1] = e
  BY AppendProperties, LenProperties

(* Front drops the last element and Last is that element.                  *)
LEMMA FrontFacts ==
  ASSUME NEW S, NEW s \in Seq(S), s # <<>>
  PROVE  /\ Front(s) \in Seq(S)
         /\ DOMAIN Front(s) = 1 .. Len(s) - 1
         /\ \A i \in DOMAIN Front(s) : i \in DOMAIN s /\ Front(s)[i] = s[i]
         /\ Len(s) \in DOMAIN s /\ Last(s) = s[Len(s)] /\ Last(s) \in S
<1>1. Len(s) \in Nat \ {0} /\ DOMAIN s = 1 .. Len(s) /\ \A i \in 1 .. Len(s) : s[i] \in S
  BY EmptySeq, LenProperties, ElementOfSeq
<1>2. /\ Front(s) \in Seq(S)
      /\ Len(Front(s)) = Len(s) - 1
      /\ \A i \in 1 .. Len(s) - 1 : Front(s)[i] = s[i]
  BY <1>1, SubSeqProperties DEF Front
<1> QED
  BY <1>1, <1>2, LenProperties DEF Last

(* RemoveAt drops one element; the ones behind it move up by one.          *)
LEMMA RemoveAtFacts ==
  ASSUME NEW S, NEW s \in Seq(S), NEW i \in DOMAIN s
  PROVE  /\ RemoveAt(s, i) \in Seq(S)
         /\ DOMAIN RemoveAt(s, i) = 1 .. Len(s) - 1
         /\ \A j \in 1 .. Len(s) - 1 :
              RemoveAt(s, i)[j] = IF j < i THEN s[j] ELSE s[j + 1]
<1> DEFINE front == SubSeq(s, 1, i - 1)
           back  == SubSeq(s, i + 1, Len(s))
<1>1. Len(s) \in Nat /\ i \in 1 .. Len(s) /\ \A j \in 1 .. Len(s) : s[j] \in S
  BY LenProperties, ElementOfSeq
<1>2. front \in Seq(S) /\ Len(front) = i - 1 /\ \A j \in 1 .. i - 1 : front[j] = s[j]
  BY <1>1, SubSeqProperties
<1>3. back \in Seq(S) /\ Len(back) = Len(s) - i
      /\ \A j \in 1 .. Len(s) - i : back[j] = s[i + j]
  BY <1>1, SubSeqProperties
<1>4. RemoveAt(s, i) = front \o back
  BY DEF RemoveAt
<1> HIDE DEF front, back
<1>5. /\ front \o back \in Seq(S)
      /\ Len(front \o back) = Len(front) + Len(back)
      /\ \A j \in 1 .. Len(front) + Len(back) : (front \o back)[j] =
           IF j <= Len(front) THEN front[j] ELSE back[j - Len(front)]
  BY <1>2, <1>3, ConcatProperties
<1>6. Len(front) + Len(back) = Len(s) - 1
  BY <1>1, <1>2, <1>3
<1>7. ASSUME NEW j \in 1 .. Len(s) - 1
      PROVE  (front \o back)[j] = IF j < i THEN s[j] ELSE s[j + 1]
  <2>1. CASE j < i
    <3>1. (front \o back)[j] = front[j]
      BY <1>1, <1>2, <1>5, <1>6, <2>1
    <3> QED
      BY <1>1, <1>2, <2>1, <3>1
  <2>2. CASE ~(j < i)
    <3>1. (front \o back)[j] = back[j - (i - 1)]
      BY <1>1, <1>2, <1>5, <1>6, <2>2
    <3>2. j - (i - 1) \in 1 .. Len(s) - i /\ i + (j - (i - 1)) = j + 1
      BY <1>1, <2>2
    <3> QED
      BY <1>3, <2>2, <3>1, <3>2
  <2> QED
    BY <2>1, <2>2
<1>8. DOMAIN (front \o back) = 1 .. Len(s) - 1
  BY <1>5, <1>6, LenProperties
<1> QED
  BY <1>4, <1>5, <1>7, <1>8

(* What is left by RemoveAt was there before, at another place if two      *)
(* places are.                                                             *)
LEMMA RemoveAtPlaces ==
  ASSUME NEW S, NEW s \in Seq(S), NEW i \in DOMAIN s
  PROVE  \A j \in DOMAIN RemoveAt(s, i) :
           LET at == IF j < i THEN j ELSE j + 1
           IN  at \in DOMAIN s \ {i} /\ RemoveAt(s, i)[j] = s[at]
<1>1. Len(s) \in Nat /\ DOMAIN s = 1 .. Len(s)
  BY LenProperties
<1> QED
  BY <1>1, RemoveAtFacts

(* The elements of what the operators return.                              *)
LEMMA AppendRange ==
  ASSUME NEW S, NEW s \in Seq(S), NEW e \in S
  PROVE  Append(s, e) \in Seq(S) /\ Range(Append(s, e)) = Range(s) \cup {e}
<1>1. Len(s) \in Nat /\ DOMAIN s = 1 .. Len(s)
  BY LenProperties
<1> QED
  BY <1>1, AppendFacts DEF Range

(* Induction: a set of numbers that holds 0 and every successor is Nat.     *)
LEMMA LeastNumber ==
  ASSUME NEW S \in SUBSET Nat, S # {}  PROVE \E m \in S : \A k \in S : m <= k
<1> DEFINE upTo(x) == {y \in S : y <= x}
           segments == {upTo(x) : x \in S}
<1>1. \A x \in S : upTo(x) \in SUBSET Nat /\ IsFiniteSet(upTo(x))
  <2> TAKE x \in S
  <2>1. x \in Nat /\ upTo(x) \in SUBSET Nat /\ \A y \in upTo(x) : y <= x
    OBVIOUS
  <2> QED
    BY <2>1, FS_BoundedSetOfNaturals
<1>2. segments \subseteq FiniteSubsetsOf(Nat) /\ segments # {}
  BY <1>1 DEF FiniteSubsetsOf
<1>3. \E s \in segments : \A r \in segments : <<r, s>> \notin StrictSubsetOrdering(Nat)
  BY <1>2, FS_StrictSubsetOrderingWellFounded, WFMin
<1>4. PICK x \in S : \A y \in S : <<upTo(y), upTo(x)>> \notin StrictSubsetOrdering(Nat)
  BY <1>3
<1>5. ASSUME NEW y \in S, y < x  PROVE FALSE
  <2>1. upTo(y) \subseteq upTo(x) /\ x \in upTo(x) /\ x \notin upTo(y)
    <3>1. x \in Nat /\ y \in Nat
      OBVIOUS
    <3>2. ASSUME NEW z \in upTo(y)  PROVE z \in upTo(x)
      BY <1>5, <3>1
    <3>3. x \in upTo(x) /\ x \notin upTo(y)
      BY <1>5, <3>1
    <3> HIDE DEF upTo
    <3> QED
      BY <3>2, <3>3
  <2>2. upTo(y) \in SUBSET Nat /\ upTo(x) \in SUBSET Nat
    BY <1>1
  <2>3. <<upTo(y), upTo(x)>> \in StrictSubsetOrdering(Nat)
    BY <1>1, <2>1, <2>2 DEF StrictSubsetOrdering, FiniteSubsetsOf
  <2> QED
    BY <1>4, <2>3
<1> QED
  BY <1>5

(* Induction over the natural numbers, for a set of them.                  *)
LEMMA InductionOnSets ==
  ASSUME NEW S \in SUBSET Nat, 0 \in S, \A n \in S : n + 1 \in S
  PROVE  S = Nat
<1>1. CASE Nat \ S # {}
  <2>1. PICK m \in Nat \ S : \A k \in Nat \ S : m <= k
    BY <1>1, LeastNumber
  <2>2. m - 1 \in S
    BY <2>1
  <2> QED
    BY <2>1, <2>2
<1> QED
  BY <1>1

(* The recursive definition that FlattenSeq is computed by.                *)
LEMMA FlattenDef ==
  ASSUME NEW S, NEW ss \in Seq(Seq(S)), ss # <<>>
  PROVE  \E f : /\ f = [i \in 1 .. Len(ss) |-> IF i = 1 THEN ss[i] ELSE f[i - 1] \o ss[i]]
                /\ FlattenSeq(ss) = f[Len(ss)]
<1> DEFINE step(f, n) == [i \in 1 .. n |-> IF i = 1 THEN ss[i] ELSE f[i - 1] \o ss[i]]
           ok == {n \in Nat : \E f : f = step(f, n)}
<1>1. 0 \in ok
  <2>1. [i \in 1 .. 0 |-> {}] = step([i \in 1 .. 0 |-> {}], 0)
    OBVIOUS
  <2> QED
    BY <2>1
<1>2. ASSUME NEW n \in ok PROVE n + 1 \in ok
  <2>1. PICK f : f = step(f, n)
    OBVIOUS
  <2> DEFINE g == [i \in 1 .. n + 1 |-> IF i = n + 1 THEN (IF i = 1 THEN ss[i] ELSE f[i - 1] \o ss[i])
                                                     ELSE f[i]]
  <2>0. n \in Nat
    OBVIOUS
  <2>2. g = step(g, n + 1)
    <3> SUFFICES ASSUME NEW i \in 1 .. n + 1  PROVE g[i] = step(g, n + 1)[i]
      OBVIOUS
    <3>1. CASE i = n + 1
      BY <3>1
    <3>2. CASE i \in 1 .. n
      <4>1. g[i] = f[i] /\ f[i] = step(f, n)[i]
        BY <2>1, <3>2
      <4>2. i # 1 => g[i - 1] = f[i - 1]
        BY <3>2
      <4> QED
        BY <3>2, <4>1, <4>2
    <3> QED
      BY <3>1, <3>2
  <2>3. \E h : h = step(h, n + 1)
    BY <2>2
  <2> HIDE DEF step
  <2> QED
    BY <2>0, <2>3
<1>3. ok = Nat
  <2> HIDE DEF ok
  <2> QED
  BY <1>1, <1>2, InductionOnSets DEF ok
<1>4. Len(ss) \in Nat \ {0}
  BY EmptySeq, LenProperties
<1>5. \E f : f = step(f, Len(ss))
  BY <1>3, <1>4
<1> DEFINE flatten == CHOOSE f : f = step(f, Len(ss))
<1>6. flatten = step(flatten, Len(ss))
  BY <1>5
<1>7. FlattenSeq(ss) = flatten[Len(ss)]
  BY <1>4 DEF FlattenSeq
<1> QED
  BY <1>6, <1>7

(* Induction over sequences: a set of sequences that holds the empty one   *)
(* and what appending to a member gives holds every sequence.              *)
LEMMA InductionOnSequences ==
  ASSUME NEW S, NEW good, <<>> \in good,
         \A s \in Seq(S), e \in S : s \in good => Append(s, e) \in good
  PROVE  Seq(S) \subseteq good
<1> DEFINE ok == {n \in Nat : \A s \in Seq(S) : Len(s) = n => s \in good}
<1>1. 0 \in ok
  <2>1. \A s \in Seq(S) : Len(s) = 0 => s = <<>>
    BY EmptySeq
  <2> QED
    BY <2>1
<1>2. ASSUME NEW n \in ok  PROVE n + 1 \in ok
  <2>1. n \in Nat /\ \A s \in Seq(S) : Len(s) = n => s \in good
    OBVIOUS
  <2>2. ASSUME NEW s \in Seq(S), Len(s) = n + 1  PROVE s \in good
    <3>1. s # <<>>
      BY <2>1, <2>2, EmptySeq
    <3>2. PICK t \in Seq(S), e \in S : s = Append(t, e)
      BY <3>1, SequenceEmptyOrAppend
    <3>3. Len(s) = Len(t) + 1 /\ Len(t) \in Nat
      BY <3>2, AppendProperties, LenProperties
    <3>4. t \in good
      BY <2>1, <2>2, <3>3
    <3> QED
      BY <3>2, <3>4
  <2> QED
    BY <2>1, <2>2
<1> HIDE DEF ok
<1>3. ok = Nat
  BY <1>1, <1>2, InductionOnSets DEF ok
<1>4. ASSUME NEW s \in Seq(S)  PROVE s \in good
  <2>1. Len(s) \in ok
    BY <1>3, LenProperties
  <2> QED
    BY <2>1 DEF ok
<1> QED
  BY <1>4

(* Appending to the second of two sequences.                               *)
LEMMA ConcatAppend ==
  ASSUME NEW S, NEW s \in Seq(S), NEW t \in Seq(S), NEW e \in S
  PROVE  s \o Append(t, e) = Append(s \o t, e)
<1>1. <<e>> \in Seq(S) /\ s \o t \in Seq(S)
  BY ConcatProperties
<1>2. Append(t, e) = t \o <<e>> /\ Append(s \o t, e) = (s \o t) \o <<e>>
  BY <1>1, AppendIsConcat
<1> QED
  BY <1>1, <1>2, ConcatAssociative

(* What FlattenSeq makes of the empty sequence, and of one that grows.     *)
LEMMA FlattenEmpty == FlattenSeq(<<>>) = <<>>
  BY EmptySeq DEF FlattenSeq

(* One more sequence is put at the end of the flat one.                    *)
LEMMA FlattenAppend ==
  ASSUME NEW S, NEW ss \in Seq(Seq(S)), FlattenSeq(ss) \in Seq(S), NEW s \in Seq(S)
  PROVE  FlattenSeq(Append(ss, s)) = FlattenSeq(ss) \o s
<1> DEFINE tt == Append(ss, s)
<1>1. /\ tt \in Seq(Seq(S)) /\ tt # <<>> /\ Len(tt) = Len(ss) + 1
      /\ \A i \in 1 .. Len(ss) : tt[i] = ss[i]
      /\ tt[Len(ss) + 1] = s /\ Len(ss) \in Nat
  BY AppendProperties, LenProperties
<1> HIDE DEF tt
<1>2. PICK g : /\ g = [i \in 1 .. Len(tt) |-> IF i = 1 THEN tt[i] ELSE g[i - 1] \o tt[i]]
               /\ FlattenSeq(tt) = g[Len(tt)]
  BY <1>1, FlattenDef
<1>3. CASE ss = <<>>
  <2>1. Len(ss) = 0
    BY <1>3, EmptySeq
  <2>2. Len(tt) = 1
    BY <1>1, <2>1
  <2>3. g[1] = tt[1]
    BY <1>2, <2>2
  <2>4. FlattenSeq(tt) = s
    BY <1>1, <1>2, <2>1, <2>2, <2>3
  <2> QED
    BY <1>3, <2>4, FlattenEmpty, ConcatEmptySeq DEF tt
<1>4. CASE ss # <<>>
  <2>1. PICK f : /\ f = [i \in 1 .. Len(ss) |-> IF i = 1 THEN ss[i] ELSE f[i - 1] \o ss[i]]
                 /\ FlattenSeq(ss) = f[Len(ss)]
    BY <1>4, FlattenDef
  <2>2. \A i \in 1 .. Len(ss) : f[i] = IF i = 1 THEN ss[i] ELSE f[i - 1] \o ss[i]
    BY <2>1
  <2>3. \A i \in 1 .. Len(ss) + 1 : g[i] = IF i = 1 THEN tt[i] ELSE g[i - 1] \o tt[i]
    BY <1>1, <1>2
  <2> DEFINE ok == {n \in Nat : n \in 1 .. Len(ss) => g[n] = f[n]}
  <2>4. 0 \in ok
    OBVIOUS
  <2>5. ASSUME NEW n \in ok  PROVE n + 1 \in ok
    <3>1. n \in Nat /\ (n \in 1 .. Len(ss) => g[n] = f[n])
      OBVIOUS
    <3>2. ASSUME n + 1 \in 1 .. Len(ss)  PROVE g[n + 1] = f[n + 1]
      <4>1. g[n + 1] = IF n + 1 = 1 THEN tt[n + 1] ELSE g[n] \o tt[n + 1]
        BY <1>1, <2>3, <3>1, <3>2
      <4>2. f[n + 1] = IF n + 1 = 1 THEN ss[n + 1] ELSE f[n] \o ss[n + 1]
        BY <1>1, <2>2, <3>1, <3>2
      <4>3. tt[n + 1] = ss[n + 1] /\ (n + 1 # 1 => g[n] = f[n])
        BY <1>1, <3>1, <3>2
      <4> QED
        BY <4>1, <4>2, <4>3
    <3> QED
      BY <3>1, <3>2
  <2> HIDE DEF ok
  <2>6. ok = Nat
    BY <2>4, <2>5, InductionOnSets DEF ok
  <2>7. Len(ss) \in 1 .. Len(ss)
    BY <1>4, EmptySeq
  <2>8. g[Len(ss)] = f[Len(ss)]
    BY <1>1, <2>6, <2>7 DEF ok
  <2>9. g[Len(ss) + 1] = g[Len(ss)] \o s
    <3>1. Len(ss) + 1 \in 1 .. Len(ss) + 1 /\ Len(ss) + 1 # 1 /\ (Len(ss) + 1) - 1 = Len(ss)
      BY <1>1, <2>7
    <3>2. g[Len(ss) + 1] = g[(Len(ss) + 1) - 1] \o tt[Len(ss) + 1]
      BY <2>3, <3>1
    <3> QED
      BY <1>1, <3>1, <3>2
  <2> QED
    BY <1>1, <1>2, <2>1, <2>8, <2>9 DEF tt
<1> QED
  BY <1>3, <1>4

(* Every element of a flattened sequence comes from a place of its own in  *)
(* one of the sequences it is made of.                                     *)
Origins(ss, at) ==
  /\ DOMAIN at = DOMAIN FlattenSeq(ss)
  /\ \A j, k \in DOMAIN at : at[j] = at[k] => j = k
  /\ \A j \in DOMAIN at :
       \E i \in DOMAIN ss : \E k \in DOMAIN ss[i] :
         at[j] = <<i, k>> /\ FlattenSeq(ss)[j] = ss[i][k]

(* Every element of a flat sequence comes from a place of its own in one   *)
(* of the sequences.                                                       *)
LEMMA FlattenFacts ==
  ASSUME NEW S
  PROVE  \A ss \in Seq(Seq(S)) : FlattenSeq(ss) \in Seq(S) /\ \E at : Origins(ss, at)
<1> DEFINE good == {ss \in Seq(Seq(S)) : FlattenSeq(ss) \in Seq(S) /\ \E at : Origins(ss, at)}
<1>1. <<>> \in good
  <2>0. <<>> \in Seq(S) /\ <<>> \in Seq(Seq(S)) /\ DOMAIN <<>> = {}
    BY EmptySeq
  <2>1. <<>> \in Seq(Seq(S)) /\ FlattenSeq(<<>>) \in Seq(S) /\ DOMAIN FlattenSeq(<<>>) = {}
    BY <2>0, FlattenEmpty
  <2>2. Origins(<<>>, <<>>)
    BY <2>1, FlattenEmpty DEF Origins
  <2> QED
    BY <2>1, <2>2
<1>2. ASSUME NEW ss \in Seq(Seq(S)), NEW s \in Seq(S), ss \in good
      PROVE  Append(ss, s) \in good
  <2> DEFINE tt == Append(ss, s)
             flat == FlattenSeq(ss)
  <2>1. flat \in Seq(S) /\ \E at : Origins(ss, at)
    BY <1>2
  <2>2. PICK at : Origins(ss, at)
    BY <2>1
  <2>3. FlattenSeq(tt) = flat \o s /\ tt \in Seq(Seq(S))
    BY <2>1, FlattenAppend, AppendProperties
  <2>4. /\ DOMAIN tt = 1 .. Len(ss) + 1 /\ Len(ss) \in Nat /\ DOMAIN ss = 1 .. Len(ss)
        /\ \A i \in DOMAIN ss : tt[i] = ss[i] /\ i \in DOMAIN tt
        /\ tt[Len(ss) + 1] = s
    BY AppendFacts, LenProperties
  <2>5. /\ Len(flat) \in Nat /\ Len(s) \in Nat /\ DOMAIN flat = 1 .. Len(flat)
        /\ DOMAIN s = 1 .. Len(s) /\ flat \o s \in Seq(S)
        /\ DOMAIN (flat \o s) = 1 .. Len(flat) + Len(s)
        /\ \A j \in 1 .. Len(flat) + Len(s) :
             (flat \o s)[j] = IF j <= Len(flat) THEN flat[j] ELSE s[j - Len(flat)]
    BY <2>1, ConcatProperties, LenProperties
  <2> DEFINE new == [j \in 1 .. Len(flat) + Len(s) |->
                       IF j <= Len(flat) THEN at[j] ELSE <<Len(ss) + 1, j - Len(flat)>>]
  <2>6. /\ DOMAIN at = 1 .. Len(flat)
        /\ \A j, k \in 1 .. Len(flat) : at[j] = at[k] => j = k
        /\ \A j \in 1 .. Len(flat) :
             \E i \in DOMAIN ss : \E k \in DOMAIN ss[i] : at[j] = <<i, k>> /\ flat[j] = ss[i][k]
    BY <2>2, <2>5 DEF Origins
  <2>7. /\ DOMAIN new = 1 .. Len(flat) + Len(s)
        /\ \A j \in DOMAIN new : j <= Len(flat) => j \in 1 .. Len(flat) /\ new[j] = at[j]
        /\ \A j \in DOMAIN new : ~(j <= Len(flat)) => new[j] = <<Len(ss) + 1, j - Len(flat)>>
    BY <2>5
  <2> HIDE DEF new, flat, tt
  <2>8. ASSUME NEW j \in DOMAIN new, NEW k \in DOMAIN new, new[j] = new[k]  PROVE j = k
    <3>1. CASE j <= Len(flat) /\ k <= Len(flat)
      BY <2>6, <2>7, <2>8, <3>1
    <3>2. CASE ~(j <= Len(flat)) /\ ~(k <= Len(flat))
      <4>1. j - Len(flat) = k - Len(flat)
        BY <2>7, <2>8, <3>2
      <4> QED
        BY <2>5, <2>7, <4>1
    <3>3. ASSUME NEW x \in DOMAIN new, NEW y \in DOMAIN new,
                 x <= Len(flat), ~(y <= Len(flat)), new[x] = new[y]  PROVE FALSE
      <4>1. PICK i \in DOMAIN ss : \E l \in DOMAIN ss[i] : at[x] = <<i, l>>
        BY <2>6, <2>7, <3>3
      <4>2. new[y][1] = Len(ss) + 1 /\ new[x][1] = i
        BY <2>7, <3>3, <4>1
      <4> QED
        BY <2>4, <3>3, <4>2
    <3> QED
      BY <2>8, <3>1, <3>2, <3>3
  <2>9. ASSUME NEW j \in DOMAIN new
        PROVE  \E i \in DOMAIN tt : \E k \in DOMAIN tt[i] :
                 new[j] = <<i, k>> /\ (flat \o s)[j] = tt[i][k]
    <3>1. CASE j <= Len(flat)
      <4>1. PICK i \in DOMAIN ss : \E l \in DOMAIN ss[i] : at[j] = <<i, l>> /\ flat[j] = ss[i][l]
        BY <2>6, <2>7, <3>1
      <4>2. (flat \o s)[j] = flat[j] /\ tt[i] = ss[i] /\ i \in DOMAIN tt
        BY <2>4, <2>5, <2>7, <3>1
      <4> QED
        BY <2>7, <3>1, <4>1, <4>2
    <3>2. CASE ~(j <= Len(flat))
      <4>1. j - Len(flat) \in DOMAIN s /\ (flat \o s)[j] = s[j - Len(flat)]
        BY <2>5, <2>7, <3>2
      <4>2. Len(ss) + 1 \in DOMAIN tt
        BY <2>4
      <4> QED
        BY <2>4, <2>7, <3>2, <4>1, <4>2
    <3> QED
      BY <3>1, <3>2
  <2>10. Origins(tt, new)
    BY <2>3, <2>5, <2>7, <2>8, <2>9 DEF Origins
  <2> QED
    BY <2>3, <2>5, <2>10 DEF tt
<1> HIDE DEF good
<1>3. Seq(Seq(S)) \subseteq good
  BY <1>1, <1>2, InductionOnSequences
<1> QED
  BY <1>3 DEF good

(* Flattening two sequences of sequences put together.                     *)
LEMMA FlattenConcat ==
  ASSUME NEW S, NEW ss \in Seq(Seq(S)), NEW tt \in Seq(Seq(S))
  PROVE  FlattenSeq(ss \o tt) = FlattenSeq(ss) \o FlattenSeq(tt)
<1> DEFINE good == {uu \in Seq(Seq(S)) : FlattenSeq(ss \o uu) = FlattenSeq(ss) \o FlattenSeq(uu)}
<1>0. FlattenSeq(ss) \in Seq(S)
  BY FlattenFacts
<1>1. <<>> \in good
  BY <1>0, EmptySeq, FlattenEmpty, ConcatEmptySeq
<1>2. ASSUME NEW uu \in Seq(Seq(S)), NEW s \in Seq(S), uu \in good
      PROVE  Append(uu, s) \in good
  <2>1. /\ FlattenSeq(uu) \in Seq(S) /\ ss \o uu \in Seq(Seq(S))
        /\ FlattenSeq(ss \o uu) = FlattenSeq(ss) \o FlattenSeq(uu)
    BY <1>2, FlattenFacts, ConcatProperties
  <2>2. FlattenSeq(ss \o uu) \in Seq(S)
    BY <2>1, FlattenFacts
  <2>3. FlattenSeq(ss \o Append(uu, s)) = FlattenSeq(ss \o uu) \o s
    <3>1. ss \o Append(uu, s) = Append(ss \o uu, s)
      BY ConcatAppend
    <3> QED
      BY <2>1, <2>2, <3>1, FlattenAppend
  <2>4. FlattenSeq(Append(uu, s)) = FlattenSeq(uu) \o s
    BY <2>1, FlattenAppend
  <2>5. FlattenSeq(ss \o Append(uu, s)) = FlattenSeq(ss) \o FlattenSeq(Append(uu, s))
    BY <1>0, <2>1, <2>3, <2>4, ConcatAssociative
  <2> QED
    BY <2>5, AppendProperties
<1> HIDE DEF good
<1>3. Seq(Seq(S)) \subseteq good
  BY <1>1, <1>2, InductionOnSequences
<1> QED
  BY <1>3 DEF good

(* Flattening a single sequence.                                           *)
LEMMA FlattenSingle ==
  ASSUME NEW S, NEW s \in Seq(S)  PROVE FlattenSeq(<<s>>) = s
<1>1. <<>> \in Seq(S) /\ <<>> \in Seq(Seq(S))
  BY EmptySeq
<1>2. Append(<<>>, s) = <<s>>
  BY <1>1, AppendIsConcat, ConcatEmptySeq
<1>3. FlattenSeq(Append(<<>>, s)) = FlattenSeq(<<>>) \o s
  BY <1>1, FlattenEmpty, FlattenAppend
<1> QED
  BY <1>2, <1>3, FlattenEmpty, ConcatEmptySeq

(* A sequence is what comes before a place, what is there, and the rest.   *)
LEMMA SplitAt ==
  ASSUME NEW S, NEW s \in Seq(S), NEW i \in DOMAIN s
  PROVE  /\ SubSeq(s, 1, i - 1) \in Seq(S) /\ SubSeq(s, i + 1, Len(s)) \in Seq(S)
         /\ <<s[i]>> \in Seq(S)
         /\ s = (SubSeq(s, 1, i - 1) \o <<s[i]>>) \o SubSeq(s, i + 1, Len(s))
<1>1. Len(s) \in Nat /\ DOMAIN s = 1 .. Len(s) /\ i \in 1 .. Len(s)
      /\ \A j \in 1 .. Len(s) : s[j] \in S
  BY LenProperties, ElementOfSeq
<1>2. SubSeq(s, 1, i - 1) \in Seq(S) /\ SubSeq(s, i + 1, Len(s)) \in Seq(S)
  BY <1>1, SubSeqProperties
<1>3. SubSeq(s, 1, i) = SubSeq(s, 1, i - 1) \o <<s[i]>>
  <2>1. 1 \in 1 .. Len(s) /\ i \in 1 .. Len(s)
    BY <1>1
  <2> QED
    BY <2>1, SubSeqRecursiveSecond
<1>4. SubSeq(s, 1, i) \o SubSeq(s, i + 1, Len(s)) = SubSeq(s, 1, Len(s))
  <2>1. 1 \in 1 .. Len(s) + 1 /\ i \in 1 - 1 .. Len(s) /\ Len(s) \in i .. Len(s)
    BY <1>1
  <2> QED
    BY <2>1, ConcatAdjacentSubSeq
<1>5. <<s[i]>> \in Seq(S)
  BY <1>1
<1>6. s = (SubSeq(s, 1, i - 1) \o <<s[i]>>) \o SubSeq(s, i + 1, Len(s))
  BY <1>3, <1>4, SubSeqFull
<1> QED
  BY <1>2, <1>5, <1>6

(* The same of a sequence with one element replaced.                        *)
LEMMA SplitReplaced ==
  ASSUME NEW S, NEW s \in Seq(S), NEW i \in DOMAIN s, NEW e \in S
  PROVE  [s EXCEPT ![i] = e] = (SubSeq(s, 1, i - 1) \o <<e>>) \o SubSeq(s, i + 1, Len(s))
<1> DEFINE t == [s EXCEPT ![i] = e]
<1>1. Len(s) \in Nat /\ DOMAIN s = 1 .. Len(s) /\ i \in 1 .. Len(s)
      /\ \A j \in 1 .. Len(s) : s[j] \in S
  BY LenProperties, ElementOfSeq
<1>2. /\ t \in Seq(S) /\ Len(t) = Len(s)
      /\ \A j \in 1 .. Len(s) : t[j] = IF j = i THEN e ELSE s[j]
  BY <1>1, ExceptSeq
<1> HIDE DEF t
<1>3. i \in DOMAIN t
  BY <1>1, <1>2, LenProperties
<1>4. t = (SubSeq(t, 1, i - 1) \o <<t[i]>>) \o SubSeq(t, i + 1, Len(t))
  BY <1>2, <1>3, SplitAt
<1>5. SubSeq(t, 1, i - 1) = SubSeq(s, 1, i - 1)
  <2>1. /\ SubSeq(t, 1, i - 1) \in Seq(S) /\ SubSeq(s, 1, i - 1) \in Seq(S)
        /\ Len(SubSeq(t, 1, i - 1)) = Len(SubSeq(s, 1, i - 1))
        /\ Len(SubSeq(s, 1, i - 1)) = i - 1
        /\ \A j \in 1 .. i - 1 : /\ SubSeq(t, 1, i - 1)[j] = t[j]
                                 /\ SubSeq(s, 1, i - 1)[j] = s[j]
    <3>1. (\A j \in 1 .. i - 1 : s[j] \in S) /\ (\A j \in 1 .. i - 1 : t[j] \in S)
      BY <1>1, <1>2
    <3>2. /\ SubSeq(t, 1, i - 1) \in Seq(S)
          /\ Len(SubSeq(t, 1, i - 1)) = i - 1
          /\ \A j \in 1 .. i - 1 : SubSeq(t, 1, i - 1)[j] = t[j]
      BY <1>1, <3>1, SubSeqProperties
    <3>3. /\ SubSeq(s, 1, i - 1) \in Seq(S)
          /\ Len(SubSeq(s, 1, i - 1)) = i - 1
          /\ \A j \in 1 .. i - 1 : SubSeq(s, 1, i - 1)[j] = s[j]
      BY <1>1, <3>1, SubSeqProperties
    <3> QED
      BY <3>2, <3>3
  <2>2. \A j \in 1 .. i - 1 : t[j] = s[j]
    BY <1>1, <1>2
  <2> QED
    BY <2>1, <2>2, SeqEqual
<1>6. SubSeq(t, i + 1, Len(t)) = SubSeq(s, i + 1, Len(s))
  <2>1. (\A j \in i + 1 .. Len(s) : s[j] \in S) /\ (\A j \in i + 1 .. Len(s) : t[j] \in S)
    BY <1>1, <1>2
  <2>2. /\ SubSeq(t, i + 1, Len(s)) \in Seq(S)
        /\ Len(SubSeq(t, i + 1, Len(s))) = Len(s) - i
        /\ \A j \in 1 .. Len(s) - i : SubSeq(t, i + 1, Len(s))[j] = t[i + j]
    BY <1>1, <2>1, SubSeqProperties
  <2>3. /\ SubSeq(s, i + 1, Len(s)) \in Seq(S)
        /\ Len(SubSeq(s, i + 1, Len(s))) = Len(s) - i
        /\ \A j \in 1 .. Len(s) - i : SubSeq(s, i + 1, Len(s))[j] = s[i + j]
    BY <1>1, <2>1, SubSeqProperties
  <2>4. \A j \in 1 .. Len(s) - i : t[i + j] = s[i + j]
    BY <1>1, <1>2
  <2>5. \A j \in 1 .. Len(s) - i : SubSeq(t, i + 1, Len(s))[j] = SubSeq(s, i + 1, Len(s))[j]
    BY <2>2, <2>3, <2>4
  <2>6. SubSeq(t, i + 1, Len(s)) = SubSeq(s, i + 1, Len(s))
    BY <2>2, <2>3, <2>5, SeqEqual
  <2> QED
    BY <1>2, <2>6
<1>7. t[i] = e
  BY <1>1, <1>2
<1> QED
  BY <1>4, <1>5, <1>6, <1>7 DEF t

(* Intervals from 1 that are equal end alike.                              *)
LEMMA SameLength ==
  ASSUME NEW m \in Nat, NEW n \in Nat, 1 .. m = 1 .. n  PROVE m = n
<1>1. ~(m < n)
  <2>1. m < n => n \in 1 .. n /\ n \notin 1 .. m
    OBVIOUS
  <2> QED
    BY <2>1
<1>2. ~(n < m)
  <2>1. n < m => m \in 1 .. m /\ m \notin 1 .. n
    OBVIOUS
  <2> QED
    BY <2>1
<1> QED
  BY <1>1, <1>2

(* Sequences of one element each flatten to the sequence of the elements.  *)
LEMMA FlattenSingles ==
  ASSUME NEW S
  PROVE  \A s \in Seq(S) : FlattenSeq([i \in DOMAIN s |-> <<s[i]>>]) = s
<1> DEFINE singles(s) == [i \in DOMAIN s |-> <<s[i]>>]
           good == {s \in Seq(S) : FlattenSeq(singles(s)) = s}
<1>1. <<>> \in good
  <2>1. singles(<<>>) = <<>> /\ <<>> \in Seq(S)
    BY EmptySeq
  <2> QED
    BY <2>1, FlattenEmpty
<1>2. ASSUME NEW s \in Seq(S), NEW e \in S, s \in good  PROVE Append(s, e) \in good
  <2> DEFINE t == Append(s, e)
  <2>1. /\ t \in Seq(S) /\ DOMAIN t = 1 .. Len(s) + 1 /\ Len(s) \in Nat
        /\ DOMAIN s = 1 .. Len(s) /\ \A i \in DOMAIN s : t[i] = s[i]
        /\ t[Len(s) + 1] = e
    BY AppendFacts, LenProperties
  <2>2. \A u \in Seq(S) : singles(u) \in Seq(Seq(S)) /\ Len(singles(u)) = Len(u)
    <3> TAKE u \in Seq(S)
    <3>1. Len(u) \in Nat /\ DOMAIN u = 1 .. Len(u) /\ \A i \in 1 .. Len(u) : <<u[i]>> \in Seq(S)
      BY LenProperties, ElementOfSeq
    <3>2. singles(u) \in [1 .. Len(u) -> Seq(S)]
      BY <3>1
    <3> QED
      BY <3>1, <3>2
  <2>3. <<e>> \in Seq(S) /\ FlattenSeq(singles(s)) = s
    BY <1>2
  <2>4. /\ \A i \in 1 .. Len(s) : singles(t)[i] = singles(s)[i]
        /\ singles(t)[Len(s) + 1] = <<e>>
    BY <2>1
  <2> HIDE DEF t, singles
  <2>5. singles(t) = Append(singles(s), <<e>>)
    <3>1. /\ singles(s) \in Seq(Seq(S)) /\ Len(singles(s)) = Len(s)
          /\ singles(t) \in Seq(Seq(S)) /\ Len(singles(t)) = Len(s) + 1
      BY <2>1, <2>2, AppendProperties DEF t
    <3>2. /\ Append(singles(s), <<e>>) \in Seq(Seq(S))
          /\ Len(Append(singles(s), <<e>>)) = Len(s) + 1
          /\ \A i \in 1 .. Len(s) : Append(singles(s), <<e>>)[i] = singles(s)[i]
          /\ Append(singles(s), <<e>>)[Len(s) + 1] = <<e>>
      BY <2>3, <3>1, AppendProperties
    <3>3. \A i \in 1 .. Len(s) + 1 : singles(t)[i] = Append(singles(s), <<e>>)[i]
      <4> TAKE i \in 1 .. Len(s) + 1
      <4>1. i \in 1 .. Len(s) \/ i = Len(s) + 1
        BY <2>1
      <4> QED
        BY <2>4, <3>2, <4>1
    <3> QED
      BY <3>1, <3>2, <3>3, SeqEqual
  <2>6. FlattenSeq(singles(t)) = s \o <<e>>
    BY <2>2, <2>3, <2>5, FlattenAppend
  <2>7. s \o <<e>> = t
    BY AppendIsConcat DEF t
  <2> QED
    BY <2>1, <2>6, <2>7 DEF t
<1> HIDE DEF good
<1>3. Seq(S) \subseteq good
  BY <1>1, <1>2, InductionOnSequences
<1> QED
  BY <1>3 DEF good

-----------------------------------------------------------------------------

HistoryInv == HistoryTypeOK /\ IdsAreFresh /\ HistoryIsValid

Action == Draw \cup Erasure

-----------------------------------------------------------------------------
(* Facts about single steps.                                               *)

(* A recorded command gets an entry of its own.                            *)
CommandRecorded(c) ==
  /\ c \notin DOMAIN commands /\ DOMAIN commands' = DOMAIN commands \cup {c}
  /\ DOMAIN commands' \subseteq CommandId
  /\ \A x \in DOMAIN commands' : commands'[x] \in Applied
  /\ revision' \in Nat

(* The recorded command, the next revision and the table are well typed.   *)
LEMMA RecordFacts ==
  ASSUME HistoryTypeOK, NEW p \in Participant, NEW c \in CommandId,
         NEW kind \in {"begin", "append", "commit", "cancel", "set", "none"},
         NEW about \in SUBSET StrokeId, Record(p, c, kind, about)
  PROVE  CommandRecorded(c)
<1>1. revision + 1 \in Nat
  BY DEF HistoryTypeOK
<1>2. [kind |-> kind, actor |-> p, revision |-> revision + 1, about |-> about] \in Applied
  BY <1>1 DEF Applied
<1> QED
  BY <1>1, <1>2 DEF Record, HistoryTypeOK, CommandRecorded

(* SetActive changes the flag of one action and nothing else.              *)
LEMMA SetActiveFacts ==
  ASSUME NEW acts \in Seq(Action), NEW id, NEW flag \in BOOLEAN
  PROVE  LET new == SetActive(acts, id, flag)
         IN  /\ new \in Seq(Action) /\ DOMAIN new = DOMAIN acts
             /\ \A i \in DOMAIN acts :
                  /\ new[i].id = acts[i].id /\ new[i].actor = acts[i].actor
                  /\ new[i].active = IF acts[i].id = id THEN flag ELSE acts[i].active
                  /\ IsDraw(new[i]) = IsDraw(acts[i]) /\ IsErase(new[i]) = IsErase(acts[i])
                  /\ IsDraw(acts[i]) => new[i].stroke = acts[i].stroke
                  /\ IsErase(acts[i]) => /\ new[i].targets = acts[i].targets
                                         /\ new[i].region = acts[i].region
<1> DEFINE new == SetActive(acts, id, flag)
<1>1. Len(acts) \in Nat /\ DOMAIN acts = 1 .. Len(acts)
      /\ \A i \in DOMAIN acts : acts[i] \in Action
  BY LenProperties, ElementOfSeq
<1>2. ASSUME NEW a \in Action
      PROVE  LET x == [a EXCEPT !.active = flag]
             IN  /\ x \in Action /\ x.id = a.id /\ x.actor = a.actor /\ x.active = flag
                 /\ IsDraw(x) = IsDraw(a) /\ IsErase(x) = IsErase(a)
                 /\ IsDraw(a) => x.stroke = a.stroke
                 /\ IsErase(a) => x.targets = a.targets /\ x.region = a.region
  <2>1. CASE a \in Draw
    BY <2>1 DEF Action, Draw, IsDraw, IsErase
  <2>2. CASE a \in Erasure
    BY <2>2 DEF Action, Erasure, IsDraw, IsErase
  <2> QED
    BY <2>1, <2>2 DEF Action
<1>3. DOMAIN new = DOMAIN acts
  BY DEF SetActive
<1>4. \A i \in DOMAIN acts :
        new[i] = IF acts[i].id = id THEN [acts[i] EXCEPT !.active = flag] ELSE acts[i]
  BY DEF SetActive
<1>5. new \in [1 .. Len(acts) -> Action]
  BY <1>1, <1>2 DEF SetActive
<1>6. new \in Seq(Action)
  BY <1>1, <1>5
<1> HIDE DEF new
<1>7. ASSUME NEW i \in DOMAIN acts
      PROVE  /\ new[i].id = acts[i].id /\ new[i].actor = acts[i].actor
             /\ new[i].active = IF acts[i].id = id THEN flag ELSE acts[i].active
             /\ IsDraw(new[i]) = IsDraw(acts[i]) /\ IsErase(new[i]) = IsErase(acts[i])
             /\ IsDraw(acts[i]) => new[i].stroke = acts[i].stroke
             /\ IsErase(acts[i]) => /\ new[i].targets = acts[i].targets
                                    /\ new[i].region = acts[i].region
  <2>1. CASE acts[i].id = id
    BY <1>1, <1>2, <1>4, <2>1
  <2>2. CASE acts[i].id # id
    BY <1>4, <2>2
  <2> QED
    BY <2>1, <2>2
<1> QED
  BY <1>3, <1>6, <1>7 DEF new

(* A stack that grows by an action on no stack stays free of repetitions.  *)
LEMMA PushKeepsDistinct ==
  ASSUME NEW S, NEW s \in Seq(S), NEW e \in S,
         \A i, j \in DOMAIN s : s[i] = s[j] => i = j,
         \A i \in DOMAIN s : s[i] # e
  PROVE  \A i, j \in DOMAIN Append(s, e) : Append(s, e)[i] = Append(s, e)[j] => i = j
<1> DEFINE t == Append(s, e)
<1>1. Len(s) \in Nat /\ DOMAIN s = 1 .. Len(s)
  BY LenProperties
<1>2. /\ DOMAIN t = 1 .. Len(s) + 1 /\ t[Len(s) + 1] = e
      /\ \A i \in DOMAIN s : t[i] = s[i]
  BY AppendFacts
<1> HIDE DEF t
<1>3. ASSUME NEW i \in DOMAIN t, NEW j \in DOMAIN t, t[i] = t[j]
      PROVE  i = j
  <2>1. CASE i \in DOMAIN s /\ j \in DOMAIN s
    BY <1>2, <1>3, <2>1
  <2>2. CASE i \notin DOMAIN s /\ j \notin DOMAIN s
    BY <1>1, <1>2, <2>2
  <2>3. CASE (i \in DOMAIN s) # (j \in DOMAIN s)
    BY <1>1, <1>2, <1>3, <2>3
  <2> QED
    BY <2>1, <2>2, <2>3
<1>4. \A i, j \in DOMAIN t : t[i] = t[j] => i = j
  BY <1>3
<1> QED
  BY <1>4 DEF t

(* A stack without its top stays free of repetitions, the top included.    *)
LEMMA PopKeepsDistinct ==
  ASSUME NEW S, NEW s \in Seq(S), s # <<>>,
         \A i, j \in DOMAIN s : s[i] = s[j] => i = j
  PROVE  /\ \A i, j \in DOMAIN Front(s) : Front(s)[i] = Front(s)[j] => i = j
         /\ \A i \in DOMAIN Front(s) : Front(s)[i] # Last(s)
<1>1. Len(s) \in Nat /\ DOMAIN s = 1 .. Len(s)
  BY LenProperties
<1> QED
  BY <1>1, FrontFacts

-----------------------------------------------------------------------------
(* A new action keeps the history valid, if it has a fresh id, draws a     *)
(* fresh root or targets roots, and is its actor's.                        *)
LEMMA RecordActionIsValid ==
  ASSUME HistoryInv, NEW p \in Participant, NEW a \in Action,
         a.id \notin DOMAIN commands, a.id \in CommandId, a.actor = p, a.active = TRUE,
         IsDraw(a) => /\ a.stroke.author = p /\ a.stroke.points # <<>>
                      /\ a.stroke.id \notin IdsOf(Baseline) \cup DrawnIds,
         IsErase(a) => /\ a.targets # {}
                       /\ a.targets \subseteq IdsOf(Baseline) \cup DrawnIds,
         RecordAction(p, a)
  PROVE  /\ actions' \in Seq(Draw \cup Erasure)
         /\ undo' \in [Participant -> Seq(CommandId)]
         /\ redo' \in [Participant -> Seq(CommandId)]
         /\ HistoryIsValid'
         /\ DrawnIds' = IF IsDraw(a) THEN DrawnIds \cup {a.stroke.id} ELSE DrawnIds
         /\ \A i \in DOMAIN actions' : actions'[i].id \in DOMAIN commands \cup {a.id}
<1> DEFINE n == Len(actions) + 1
<1>1. /\ actions \in Seq(Action) /\ Len(actions) \in Nat /\ DOMAIN actions = 1 .. Len(actions)
      /\ undo \in [Participant -> Seq(CommandId)] /\ redo \in [Participant -> Seq(CommandId)]
  BY LenProperties DEF HistoryInv, HistoryTypeOK, Action
<1>2. /\ actions' \in Seq(Action) /\ DOMAIN actions' = DOMAIN actions \cup {n}
      /\ n \notin DOMAIN actions /\ actions'[n] = a
      /\ \A i \in DOMAIN actions : actions'[i] = actions[i]
  BY <1>1, AppendFacts DEF RecordAction
<1>3. /\ undo' \in [Participant -> Seq(CommandId)]
      /\ undo'[p] = Append(undo[p], a.id)
      /\ \A q \in Participant \ {p} : undo'[q] = undo[q]
  BY <1>1, AppendFacts DEF RecordAction
<1>4. /\ redo' \in [Participant -> Seq(CommandId)]
      /\ redo'[p] = <<>>
      /\ \A q \in Participant \ {p} : redo'[q] = redo[q]
  BY <1>1, EmptySeq DEF RecordAction
<1>5. \A i \in DOMAIN actions : actions[i].id # a.id
  BY DEF HistoryInv, IdsAreFresh
<1>6. DrawnIds' = IF IsDraw(a) THEN DrawnIds \cup {a.stroke.id} ELSE DrawnIds
  BY <1>2 DEF DrawnIds
<1>7. ActionIdsAreDistinct'
  BY <1>2, <1>5 DEF HistoryInv, HistoryIsValid, ActionIdsAreDistinct, Distinct
<1>8. DrawsAreWhole'
  BY <1>2 DEF HistoryInv, HistoryIsValid, DrawsAreWhole
<1>9. RootIdsAreDistinct'
  BY <1>2 DEF HistoryInv, HistoryIsValid, RootIdsAreDistinct, DrawnIds
<1>10. TargetsAreRoots'
  <2>1. ASSUME NEW id \in IdsOf(Baseline) \cup DrawnIds
        PROVE  \/ id \in IdsOf(Baseline)
               \/ \E j \in DOMAIN actions' : IsDraw(actions'[j]) /\ actions'[j].stroke.id = id
    BY <1>2 DEF DrawnIds
  <2>2. ASSUME NEW i \in DOMAIN actions, IsErase(actions[i])
        PROVE  actions[i].targets # {} /\ actions[i].targets \subseteq IdsOf(Baseline) \cup DrawnIds
    BY <2>2 DEF HistoryInv, HistoryIsValid, TargetsAreRoots, DrawnIds
  <2> QED
    BY <1>2, <2>1, <2>2 DEF TargetsAreRoots
<1>11. StacksMatchActions'
  <2>1. ASSUME NEW q \in Participant, NEW id, NEW flag \in BOOLEAN, ActionWith(actions, q, id, flag)
        PROVE  ActionWith(actions', q, id, flag)
    BY <1>2, <2>1 DEF ActionWith
  <2>2. ActionWith(actions', p, a.id, TRUE)
    BY <1>2 DEF ActionWith
  <2>3. ASSUME NEW q \in Participant, NEW i \in DOMAIN undo'[q]
        PROVE  ActionWith(actions', q, undo'[q][i], TRUE)
    <3>1. CASE i \in DOMAIN undo[q] /\ undo'[q][i] = undo[q][i]
      BY <2>1, <3>1 DEF HistoryInv, HistoryIsValid, StacksMatchActions
    <3>2. CASE q = p /\ undo'[q][i] = a.id
      BY <2>2, <3>2
    <3>3. CASE q # p
      BY <1>3, <2>3, <3>1, <3>3
    <3>4. \/ i \in DOMAIN undo[p] /\ undo'[p][i] = undo[p][i]
          \/ undo'[p][i] = a.id
          \/ q # p
      <4>1. undo[p] \in Seq(CommandId) /\ Len(undo[p]) \in Nat /\ DOMAIN undo[p] = 1 .. Len(undo[p])
        BY <1>1, LenProperties
      <4>2. /\ DOMAIN undo'[p] = 1 .. Len(undo[p]) + 1 /\ undo'[p][Len(undo[p]) + 1] = a.id
            /\ \A j \in DOMAIN undo[p] : undo'[p][j] = undo[p][j]
        BY <1>3, <4>1, AppendFacts
      <4> QED
        BY <2>3, <4>1, <4>2
    <3> QED
      BY <3>1, <3>2, <3>3, <3>4
  <2>4. ASSUME NEW q \in Participant, NEW i \in DOMAIN redo'[q]
        PROVE  ActionWith(actions', q, redo'[q][i], FALSE)
    <3>1. q # p
      BY <1>4, <2>4, EmptySeq, LenProperties
    <3> QED
      BY <1>4, <2>1, <3>1 DEF HistoryInv, HistoryIsValid, StacksMatchActions
  <2> QED
    BY <2>3, <2>4 DEF StacksMatchActions
<1>12. NoActionIsStackedTwice'
  <2>1. \A i \in DOMAIN undo[p] : undo[p][i] # a.id
    BY <1>5 DEF HistoryInv, HistoryIsValid, StacksMatchActions, ActionWith
  <2>2. IsInjective(undo'[p])
    <3>1. undo[p] \in Seq(CommandId) /\ IsInjective(undo[p])
      BY <1>1 DEF HistoryInv, HistoryIsValid, NoActionIsStackedTwice
    <3>2. IsInjective(Append(undo[p], a.id))
      BY <2>1, <3>1, PushKeepsDistinct DEF IsInjective
    <3> QED
      BY <1>3, <3>2
  <2>3. IsInjective(redo'[p])
    BY <1>4 DEF IsInjective
  <2> QED
    BY <1>3, <1>4, <2>2, <2>3 DEF HistoryInv, HistoryIsValid, NoActionIsStackedTwice
<1>13. ActiveActionsAreStacked'
  <2> SUFFICES ASSUME NEW i \in DOMAIN actions', actions'[i].active
               PROVE  \E j \in DOMAIN undo'[actions'[i].actor] :
                        undo'[actions'[i].actor][j] = actions'[i].id
    BY DEF ActiveActionsAreStacked
  <2>1. /\ Len(undo[p]) + 1 \in DOMAIN undo'[p] /\ undo'[p][Len(undo[p]) + 1] = a.id
        /\ \A j \in DOMAIN undo[p] : j \in DOMAIN undo'[p] /\ undo'[p][j] = undo[p][j]
    <3>1. undo[p] \in Seq(CommandId) /\ Len(undo[p]) \in Nat /\ DOMAIN undo[p] = 1 .. Len(undo[p])
      BY <1>1, LenProperties
    <3> QED
      BY <1>3, <3>1, AppendFacts
  <2>2. CASE i = n
    BY <1>2, <2>1, <2>2
  <2>3. CASE i # n
    <3>1. i \in DOMAIN actions /\ actions'[i] = actions[i]
      BY <1>2, <2>3
    <3>2. actions[i].actor \in Participant
      BY <1>1, <3>1, ElementOfSeq DEF Action, Draw, Erasure
    <3>3. PICK j \in DOMAIN undo[actions[i].actor] : undo[actions[i].actor][j] = actions[i].id
      BY <3>1 DEF HistoryInv, HistoryIsValid, ActiveActionsAreStacked
    <3>4. CASE actions[i].actor = p
      BY <2>1, <3>1, <3>3, <3>4
    <3>5. CASE actions[i].actor # p
      BY <1>3, <3>1, <3>2, <3>3, <3>5
    <3> QED
      BY <3>4, <3>5
  <2> QED
    BY <2>2, <2>3
<1>14. \A i \in DOMAIN actions' : actions'[i].id \in DOMAIN commands \cup {a.id}
  BY <1>2 DEF HistoryInv, IdsAreFresh
<1> QED
  BY <1>2, <1>3, <1>4, <1>6, <1>7, <1>8, <1>9, <1>10, <1>11, <1>12, <1>13, <1>14
     DEF HistoryIsValid, Action

-----------------------------------------------------------------------------
(* Switching an action on or off keeps everything that does not depend on  *)
(* which actions are active.                                               *)
LEMMA SetActiveKeeps ==
  ASSUME HistoryInv, NEW id, NEW flag \in BOOLEAN, actions' = SetActive(actions, id, flag)
  PROVE  /\ actions' \in Seq(Action) /\ DOMAIN actions' = DOMAIN actions
         /\ DrawnIds' = DrawnIds
         /\ \A i \in DOMAIN actions :
              /\ actions'[i].id = actions[i].id /\ actions'[i].actor = actions[i].actor
              /\ actions[i].id # id => actions'[i].active = actions[i].active
              /\ actions[i].id = id => actions'[i].active = flag
         /\ \A i \in DOMAIN actions' : actions'[i].id \in DOMAIN commands
         /\ ActionIdsAreDistinct' /\ DrawsAreWhole' /\ RootIdsAreDistinct' /\ TargetsAreRoots'
         /\ \A q, x, f : x # id => (ActionWith(actions, q, x, f) <=> ActionWith(actions', q, x, f))
         /\ \A q, f : ActionWith(actions, q, id, f) => ActionWith(actions', q, id, flag)
<1>1. actions \in Seq(Action)
  BY DEF HistoryInv, HistoryTypeOK, Action
<1>2. actions' \in Seq(Action) /\ DOMAIN actions' = DOMAIN actions
  BY <1>1, SetActiveFacts
<1>3. \A i \in DOMAIN actions :
        /\ actions'[i].id = actions[i].id /\ actions'[i].actor = actions[i].actor
        /\ actions'[i].active = IF actions[i].id = id THEN flag ELSE actions[i].active
        /\ IsDraw(actions'[i]) = IsDraw(actions[i]) /\ IsErase(actions'[i]) = IsErase(actions[i])
        /\ IsDraw(actions[i]) => actions'[i].stroke = actions[i].stroke
        /\ IsErase(actions[i]) => /\ actions'[i].targets = actions[i].targets
                                  /\ actions'[i].region = actions[i].region
  BY <1>1, SetActiveFacts
<1>4. DrawnIds' = DrawnIds
  BY <1>2, <1>3 DEF DrawnIds
<1>5. \A i \in DOMAIN actions' : actions'[i].id \in DOMAIN commands
  BY <1>2, <1>3 DEF HistoryInv, IdsAreFresh
<1>6. ActionIdsAreDistinct'
  BY <1>2, <1>3 DEF HistoryInv, HistoryIsValid, ActionIdsAreDistinct, Distinct
<1>7. DrawsAreWhole'
  BY <1>2, <1>3 DEF HistoryInv, HistoryIsValid, DrawsAreWhole
<1>8. RootIdsAreDistinct'
  BY <1>2, <1>3 DEF HistoryInv, HistoryIsValid, RootIdsAreDistinct
<1>9. TargetsAreRoots'
  BY <1>2, <1>3 DEF HistoryInv, HistoryIsValid, TargetsAreRoots
<1>10. \A q, x, f : x # id => (ActionWith(actions, q, x, f) <=> ActionWith(actions', q, x, f))
  BY <1>2, <1>3 DEF ActionWith
<1>11. \A q, f : ActionWith(actions, q, id, f) => ActionWith(actions', q, id, flag)
  BY <1>2, <1>3 DEF ActionWith
<1> QED
  BY <1>2, <1>3, <1>4, <1>5, <1>6, <1>7, <1>8, <1>9, <1>10, <1>11

(* An action moves from the top of one of its actor's stacks to the other  *)
(* stack while it is switched: every stack entry still names an action of  *)
(* its participant in the right state.                                     *)
LEMMA MovedEntries ==
  ASSUME HistoryInv, NEW p \in Participant, NEW flag \in BOOLEAN, NEW id,
         ActionWith(actions, p, id, ~flag), actions' = SetActive(actions, id, flag)
  PROVE  /\ ActionWith(actions', p, id, flag)
         /\ \A q \in Participant : \A x : ActionWith(actions, q, x, flag) =>
              x # id /\ ActionWith(actions', q, x, flag)
         /\ \A q \in Participant : \A x : ActionWith(actions, q, x, ~flag) =>
              \/ x # id /\ ActionWith(actions', q, x, ~flag)
              \/ x = id /\ q = p
<1>1. /\ ActionWith(actions', p, id, flag)
      /\ \A q, x, f : x # id => (ActionWith(actions, q, x, f) <=> ActionWith(actions', q, x, f))
  BY SetActiveKeeps
<1>2. ASSUME NEW q, NEW f, ActionWith(actions, q, id, f)
      PROVE  q = p /\ f = ~flag
  BY <1>2 DEF ActionWith, HistoryInv, HistoryIsValid, ActionIdsAreDistinct, Distinct
<1>3. flag # ~flag
  OBVIOUS
<1>4. \A q \in Participant : \A x : ActionWith(actions, q, x, flag) => x # id
  BY <1>2, <1>3
<1> QED
  BY <1>1, <1>2, <1>4

(* What a step owes the invariant about actions and stacks when it draws   *)
(* no new stroke.                                                          *)
HistoryStays ==
  /\ actions' \in Seq(Draw \cup Erasure)
  /\ undo' \in [Participant -> Seq(CommandId)]
  /\ redo' \in [Participant -> Seq(CommandId)]
  /\ HistoryIsValid'
  /\ DrawnIds' = DrawnIds
  /\ \A i \in DOMAIN actions' : actions'[i].id \in DOMAIN commands

(* Undo: the action on top of p's undo stack is switched off and put on    *)
(* top of the redo stack.                                                  *)
LEMMA UndoIsValid ==
  ASSUME HistoryInv, NEW p \in Participant, NEW c \in CommandId, Undo(p, c)
  PROVE  HistoryStays
<1> DEFINE id == Last(undo[p])
<1>a. ActionWith(actions, p, id, ~FALSE) /\ actions' = SetActive(actions, id, FALSE)
  BY DEF Undo
<1>b. /\ undo[p] # <<>>
      /\ undo' = [undo EXCEPT ![p] = Front(undo[p])]
      /\ redo' = [redo EXCEPT ![p] = Append(redo[p], id)]
  BY DEF Undo
<1>1. /\ undo \in [Participant -> Seq(CommandId)] /\ redo \in [Participant -> Seq(CommandId)]
      /\ undo[p] \in Seq(CommandId) /\ redo[p] \in Seq(CommandId)
  BY DEF HistoryInv, HistoryTypeOK
<1>2. /\ id \in CommandId /\ Front(undo[p]) \in Seq(CommandId)
      /\ \A i \in DOMAIN Front(undo[p]) :
           i \in DOMAIN undo[p] /\ Front(undo[p])[i] = undo[p][i]
  BY <1>1, <1>b, FrontFacts
<1>3. \A i \in DOMAIN undo[p] : undo[p][i] # id => i \in DOMAIN Front(undo[p])
  <2>1. Len(undo[p]) \in Nat /\ DOMAIN undo[p] = 1 .. Len(undo[p])
    BY <1>1, LenProperties
  <2>2. DOMAIN Front(undo[p]) = 1 .. Len(undo[p]) - 1 /\ id = undo[p][Len(undo[p])]
    BY <1>1, <1>b, FrontFacts
  <2> QED
    BY <2>1, <2>2
<1>4. /\ Append(redo[p], id) \in Seq(CommandId)
      /\ \A i \in DOMAIN redo[p] : /\ i \in DOMAIN Append(redo[p], id)
                                   /\ Append(redo[p], id)[i] = redo[p][i]
      /\ Len(redo[p]) + 1 \in DOMAIN Append(redo[p], id)
      /\ Append(redo[p], id)[Len(redo[p]) + 1] = id
      /\ \A i \in DOMAIN Append(redo[p], id) : i \in DOMAIN redo[p] \/ Append(redo[p], id)[i] = id
  <2>1. Len(redo[p]) \in Nat /\ DOMAIN redo[p] = 1 .. Len(redo[p])
    BY <1>1, LenProperties
  <2> QED
    BY <1>1, <1>2, <2>1, AppendFacts
<1>5. /\ undo' \in [Participant -> Seq(CommandId)] /\ undo'[p] = Front(undo[p])
      /\ redo' \in [Participant -> Seq(CommandId)] /\ redo'[p] = Append(redo[p], id)
      /\ \A q \in Participant \ {p} : undo'[q] = undo[q] /\ redo'[q] = redo[q]
  BY <1>1, <1>2, <1>4, <1>b
<1>6. \A i \in DOMAIN Front(undo[p]) : Front(undo[p])[i] # id
  <2>1. \A i, j \in DOMAIN undo[p] : undo[p][i] = undo[p][j] => i = j
    BY DEF HistoryInv, HistoryIsValid, NoActionIsStackedTwice, IsInjective
  <2> QED
    BY <1>1, <1>b, <2>1, PopKeepsDistinct
<1> HIDE DEF id
<1> DEFINE Had(q, x)  == ActionWith(actions, q, x, TRUE)
           Got(q, x)  == ActionWith(actions, q, x, FALSE)
           Has(q, x)  == ActionWith(actions', q, x, TRUE)
           Gets(q, x) == ActionWith(actions', q, x, FALSE)
<1>7. /\ \A q \in Participant : \A i \in DOMAIN undo[q] : Had(q, undo[q][i])
      /\ \A q \in Participant : \A i \in DOMAIN redo[q] : Got(q, redo[q][i])
  BY DEF HistoryInv, HistoryIsValid, StacksMatchActions
<1>8. /\ Gets(p, id)
      /\ \A q \in Participant : \A x : Got(q, x) => x # id /\ Gets(q, x)
      /\ \A q \in Participant : \A x : Had(q, x) => (x # id /\ Has(q, x)) \/ (x = id /\ q = p)
  <2>1. FALSE \in BOOLEAN
    OBVIOUS
  <2>2. /\ ActionWith(actions', p, id, FALSE)
        /\ \A q \in Participant : \A x : ActionWith(actions, q, x, FALSE) =>
             x # id /\ ActionWith(actions', q, x, FALSE)
        /\ \A q \in Participant : \A x : ActionWith(actions, q, x, ~FALSE) =>
             \/ x # id /\ ActionWith(actions', q, x, ~FALSE)
             \/ x = id /\ q = p
    BY <1>a, <2>1, MovedEntries
  <2> QED
    BY <2>2
<1> HIDE DEF Had, Got, Has, Gets
<1>9. /\ \A q \in Participant : \A i \in DOMAIN undo'[q] : Has(q, undo'[q][i])
      /\ \A q \in Participant : \A i \in DOMAIN redo'[q] : Gets(q, redo'[q][i])
  <2>1. ASSUME NEW i \in DOMAIN undo'[p]
        PROVE  Has(p, undo'[p][i])
    BY <1>2, <1>5, <1>6, <1>7, <1>8
  <2>2. ASSUME NEW i \in DOMAIN redo'[p]
        PROVE  Gets(p, redo'[p][i])
    BY <1>4, <1>5, <1>7, <1>8
  <2>3. ASSUME NEW q \in Participant \ {p}
        PROVE  /\ \A i \in DOMAIN undo'[q] : Has(q, undo'[q][i])
               /\ \A i \in DOMAIN redo'[q] : Gets(q, redo'[q][i])
    BY <1>5, <1>7, <1>8
  <2> QED
    BY <2>1, <2>2, <2>3
<1>10. StacksMatchActions'
  <2>1. ASSUME NEW q \in Participant, NEW i \in DOMAIN undo'[q]
        PROVE  ActionWith(actions', q, undo'[q][i], TRUE)
    <3>1. Has(q, undo'[q][i])
      BY <1>9
    <3> QED
      BY <3>1 DEF Has
  <2>2. ASSUME NEW q \in Participant, NEW i \in DOMAIN redo'[q]
        PROVE  ActionWith(actions', q, redo'[q][i], FALSE)
    <3>1. Gets(q, redo'[q][i])
      BY <1>9
    <3> QED
      BY <3>1 DEF Gets
  <2> QED
    BY <2>1, <2>2 DEF StacksMatchActions
<1>11. NoActionIsStackedTwice'
  <2>1. IsInjective(undo'[p])
    <3>1. \A i, j \in DOMAIN undo[p] : undo[p][i] = undo[p][j] => i = j
      BY DEF HistoryInv, HistoryIsValid, NoActionIsStackedTwice, IsInjective
    <3>2. \A i, j \in DOMAIN Front(undo[p]) : Front(undo[p])[i] = Front(undo[p])[j] => i = j
      BY <1>1, <1>b, <3>1, PopKeepsDistinct
    <3> QED
      BY <1>5, <3>2 DEF IsInjective
  <2>2. \A i \in DOMAIN redo[p] : redo[p][i] # id
    BY <1>7, <1>8
  <2>3. \A i, j \in DOMAIN redo[p] : redo[p][i] = redo[p][j] => i = j
    BY DEF HistoryInv, HistoryIsValid, NoActionIsStackedTwice, IsInjective
  <2>4. \A i, j \in DOMAIN Append(redo[p], id) :
           Append(redo[p], id)[i] = Append(redo[p], id)[j] => i = j
    <3>1. id \in CommandId
      BY <1>2 DEF id
    <3> QED
      BY <1>1, <2>2, <2>3, <3>1, PushKeepsDistinct
  <2>5. IsInjective(redo'[p])
    BY <1>5, <2>4 DEF IsInjective, id
  <2>6. \A q \in Participant \ {p} : IsInjective(undo'[q]) /\ IsInjective(redo'[q])
    BY <1>5 DEF HistoryInv, HistoryIsValid, NoActionIsStackedTwice, IsInjective
  <2> QED
    BY <2>1, <2>5, <2>6 DEF NoActionIsStackedTwice
<1>12. ActiveActionsAreStacked'
  <2> SUFFICES ASSUME NEW i \in DOMAIN actions', actions'[i].active
               PROVE  \E j \in DOMAIN undo'[actions'[i].actor] :
                        undo'[actions'[i].actor][j] = actions'[i].id
    BY DEF ActiveActionsAreStacked
  <2>1. /\ actions \in Seq(Action) /\ DOMAIN actions' = DOMAIN actions
        /\ \A k \in DOMAIN actions :
             actions'[k].id = actions[k].id /\ actions'[k].actor = actions[k].actor
    <3>1. FALSE \in BOOLEAN
      OBVIOUS
    <3>2. actions \in Seq(Action)
      BY DEF HistoryInv, HistoryTypeOK, Action
    <3> QED
      BY <1>a, <3>1, <3>2, SetActiveKeeps
  <2>2. /\ i \in DOMAIN actions /\ actions'[i].id = actions[i].id
        /\ actions'[i].actor = actions[i].actor /\ actions[i].actor \in Participant
    <3>1. i \in DOMAIN actions
      BY <2>1
    <3>2. actions[i] \in Action
      BY <2>1, <3>1, LenProperties, ElementOfSeq
    <3> QED
      BY <2>1, <3>1, <3>2 DEF Action, Draw, Erasure
  <2>3. /\ actions[i].id # id => actions'[i].active = actions[i].active
        /\ actions[i].id = id => actions'[i].active = FALSE
    <3>1. FALSE \in BOOLEAN
      OBVIOUS
    <3> QED
      BY <1>a, <2>2, <3>1, SetActiveKeeps
  <2>4. actions[i].id # id /\ actions[i].active
    BY <2>3
  <2>5. PICK j \in DOMAIN undo[actions[i].actor] : undo[actions[i].actor][j] = actions[i].id
    BY <2>2, <2>4 DEF HistoryInv, HistoryIsValid, ActiveActionsAreStacked
  <2>6. CASE actions[i].actor = p
    BY <1>2, <1>3, <1>5, <2>2, <2>4, <2>5, <2>6
  <2>7. CASE actions[i].actor # p
    BY <1>5, <2>2, <2>5, <2>7
  <2> QED
    BY <2>6, <2>7
<1>13. /\ actions' \in Seq(Action) /\ DrawnIds' = DrawnIds
       /\ \A i \in DOMAIN actions' : actions'[i].id \in DOMAIN commands
       /\ ActionIdsAreDistinct' /\ DrawsAreWhole' /\ RootIdsAreDistinct' /\ TargetsAreRoots'
  <2>1. FALSE \in BOOLEAN
    OBVIOUS
  <2> QED
    BY <1>a, <2>1, SetActiveKeeps
<1> QED
  BY <1>5, <1>10, <1>11, <1>12, <1>13 DEF HistoryStays, HistoryIsValid, Action

(* Redo: the same the other way round.                                     *)
LEMMA RedoIsValid ==
  ASSUME HistoryInv, NEW p \in Participant, NEW c \in CommandId, Redo(p, c)
  PROVE  HistoryStays
<1> DEFINE id == Last(redo[p])
<1>a. ActionWith(actions, p, id, ~TRUE) /\ actions' = SetActive(actions, id, TRUE)
  BY DEF Redo
<1>b. /\ redo[p] # <<>>
      /\ redo' = [redo EXCEPT ![p] = Front(redo[p])]
      /\ undo' = [undo EXCEPT ![p] = Append(undo[p], id)]
  BY DEF Redo
<1>1. /\ redo \in [Participant -> Seq(CommandId)] /\ undo \in [Participant -> Seq(CommandId)]
      /\ redo[p] \in Seq(CommandId) /\ undo[p] \in Seq(CommandId)
  BY DEF HistoryInv, HistoryTypeOK
<1>2. /\ id \in CommandId /\ Front(redo[p]) \in Seq(CommandId)
      /\ \A i \in DOMAIN Front(redo[p]) :
           i \in DOMAIN redo[p] /\ Front(redo[p])[i] = redo[p][i]
  BY <1>1, <1>b, FrontFacts
<1>3. \A i \in DOMAIN redo[p] : redo[p][i] # id => i \in DOMAIN Front(redo[p])
  <2>1. Len(redo[p]) \in Nat /\ DOMAIN redo[p] = 1 .. Len(redo[p])
    BY <1>1, LenProperties
  <2>2. DOMAIN Front(redo[p]) = 1 .. Len(redo[p]) - 1 /\ id = redo[p][Len(redo[p])]
    BY <1>1, <1>b, FrontFacts
  <2> QED
    BY <2>1, <2>2
<1>4. /\ Append(undo[p], id) \in Seq(CommandId)
      /\ \A i \in DOMAIN undo[p] : /\ i \in DOMAIN Append(undo[p], id)
                                   /\ Append(undo[p], id)[i] = undo[p][i]
      /\ Len(undo[p]) + 1 \in DOMAIN Append(undo[p], id)
      /\ Append(undo[p], id)[Len(undo[p]) + 1] = id
      /\ \A i \in DOMAIN Append(undo[p], id) : i \in DOMAIN undo[p] \/ Append(undo[p], id)[i] = id
  <2>1. Len(undo[p]) \in Nat /\ DOMAIN undo[p] = 1 .. Len(undo[p])
    BY <1>1, LenProperties
  <2> QED
    BY <1>1, <1>2, <2>1, AppendFacts
<1>5. /\ redo' \in [Participant -> Seq(CommandId)] /\ redo'[p] = Front(redo[p])
      /\ undo' \in [Participant -> Seq(CommandId)] /\ undo'[p] = Append(undo[p], id)
      /\ \A q \in Participant \ {p} : redo'[q] = redo[q] /\ undo'[q] = undo[q]
  BY <1>1, <1>2, <1>4, <1>b
<1>6. \A i \in DOMAIN Front(redo[p]) : Front(redo[p])[i] # id
  <2>1. \A i, j \in DOMAIN redo[p] : redo[p][i] = redo[p][j] => i = j
    BY DEF HistoryInv, HistoryIsValid, NoActionIsStackedTwice, IsInjective
  <2> QED
    BY <1>1, <1>b, <2>1, PopKeepsDistinct
<1> HIDE DEF id
<1> DEFINE Had(q, x)  == ActionWith(actions, q, x, FALSE)
           Got(q, x)  == ActionWith(actions, q, x, TRUE)
           Has(q, x)  == ActionWith(actions', q, x, FALSE)
           Gets(q, x) == ActionWith(actions', q, x, TRUE)
<1>7. /\ \A q \in Participant : \A i \in DOMAIN redo[q] : Had(q, redo[q][i])
      /\ \A q \in Participant : \A i \in DOMAIN undo[q] : Got(q, undo[q][i])
  BY DEF HistoryInv, HistoryIsValid, StacksMatchActions
<1>8. /\ Gets(p, id)
      /\ \A q \in Participant : \A x : Got(q, x) => x # id /\ Gets(q, x)
      /\ \A q \in Participant : \A x : Had(q, x) => (x # id /\ Has(q, x)) \/ (x = id /\ q = p)
  <2>1. TRUE \in BOOLEAN
    OBVIOUS
  <2>2. /\ ActionWith(actions', p, id, TRUE)
        /\ \A q \in Participant : \A x : ActionWith(actions, q, x, TRUE) =>
             x # id /\ ActionWith(actions', q, x, TRUE)
        /\ \A q \in Participant : \A x : ActionWith(actions, q, x, ~TRUE) =>
             \/ x # id /\ ActionWith(actions', q, x, ~TRUE)
             \/ x = id /\ q = p
    BY <1>a, <2>1, MovedEntries
  <2> QED
    BY <2>2
<1> HIDE DEF Had, Got, Has, Gets
<1>9. /\ \A q \in Participant : \A i \in DOMAIN redo'[q] : Has(q, redo'[q][i])
      /\ \A q \in Participant : \A i \in DOMAIN undo'[q] : Gets(q, undo'[q][i])
  <2>1. ASSUME NEW i \in DOMAIN redo'[p]
        PROVE  Has(p, redo'[p][i])
    BY <1>2, <1>5, <1>6, <1>7, <1>8
  <2>2. ASSUME NEW i \in DOMAIN undo'[p]
        PROVE  Gets(p, undo'[p][i])
    BY <1>4, <1>5, <1>7, <1>8
  <2>3. ASSUME NEW q \in Participant \ {p}
        PROVE  /\ \A i \in DOMAIN redo'[q] : Has(q, redo'[q][i])
               /\ \A i \in DOMAIN undo'[q] : Gets(q, undo'[q][i])
    BY <1>5, <1>7, <1>8
  <2> QED
    BY <2>1, <2>2, <2>3
<1>10. StacksMatchActions'
  <2>1. ASSUME NEW q \in Participant, NEW i \in DOMAIN redo'[q]
        PROVE  ActionWith(actions', q, redo'[q][i], FALSE)
    <3>1. Has(q, redo'[q][i])
      BY <1>9
    <3> QED
      BY <3>1 DEF Has
  <2>2. ASSUME NEW q \in Participant, NEW i \in DOMAIN undo'[q]
        PROVE  ActionWith(actions', q, undo'[q][i], TRUE)
    <3>1. Gets(q, undo'[q][i])
      BY <1>9
    <3> QED
      BY <3>1 DEF Gets
  <2> QED
    BY <2>1, <2>2 DEF StacksMatchActions
<1>11. NoActionIsStackedTwice'
  <2>1. IsInjective(redo'[p])
    <3>1. \A i, j \in DOMAIN redo[p] : redo[p][i] = redo[p][j] => i = j
      BY DEF HistoryInv, HistoryIsValid, NoActionIsStackedTwice, IsInjective
    <3>2. \A i, j \in DOMAIN Front(redo[p]) : Front(redo[p])[i] = Front(redo[p])[j] => i = j
      BY <1>1, <1>b, <3>1, PopKeepsDistinct
    <3> QED
      BY <1>5, <3>2 DEF IsInjective
  <2>2. \A i \in DOMAIN undo[p] : undo[p][i] # id
    BY <1>7, <1>8
  <2>3. \A i, j \in DOMAIN undo[p] : undo[p][i] = undo[p][j] => i = j
    BY DEF HistoryInv, HistoryIsValid, NoActionIsStackedTwice, IsInjective
  <2>4. \A i, j \in DOMAIN Append(undo[p], id) :
           Append(undo[p], id)[i] = Append(undo[p], id)[j] => i = j
    <3>1. id \in CommandId
      BY <1>2 DEF id
    <3> QED
      BY <1>1, <2>2, <2>3, <3>1, PushKeepsDistinct
  <2>5. IsInjective(undo'[p])
    BY <1>5, <2>4 DEF IsInjective, id
  <2>6. \A q \in Participant \ {p} : IsInjective(redo'[q]) /\ IsInjective(undo'[q])
    BY <1>5 DEF HistoryInv, HistoryIsValid, NoActionIsStackedTwice, IsInjective
  <2> QED
    BY <2>1, <2>5, <2>6 DEF NoActionIsStackedTwice
<1>12. ActiveActionsAreStacked'
  <2> SUFFICES ASSUME NEW i \in DOMAIN actions', actions'[i].active
               PROVE  \E j \in DOMAIN undo'[actions'[i].actor] :
                        undo'[actions'[i].actor][j] = actions'[i].id
    BY DEF ActiveActionsAreStacked
  <2>1. /\ actions \in Seq(Action) /\ DOMAIN actions' = DOMAIN actions
        /\ \A k \in DOMAIN actions :
             actions'[k].id = actions[k].id /\ actions'[k].actor = actions[k].actor
    <3>1. TRUE \in BOOLEAN
      OBVIOUS
    <3>2. actions \in Seq(Action)
      BY DEF HistoryInv, HistoryTypeOK, Action
    <3> QED
      BY <1>a, <3>1, <3>2, SetActiveKeeps
  <2>2. /\ i \in DOMAIN actions /\ actions'[i].id = actions[i].id
        /\ actions'[i].actor = actions[i].actor /\ actions[i].actor \in Participant
    <3>1. i \in DOMAIN actions
      BY <2>1
    <3>2. actions[i] \in Action
      BY <2>1, <3>1, LenProperties, ElementOfSeq
    <3> QED
      BY <2>1, <3>1, <3>2 DEF Action, Draw, Erasure
  <2>3. /\ actions[i].id # id => actions'[i].active = actions[i].active
        /\ actions[i].id = id => actions'[i].active = TRUE
    <3>1. TRUE \in BOOLEAN
      OBVIOUS
    <3> QED
      BY <1>a, <2>2, <3>1, SetActiveKeeps
  <2>4. CASE actions[i].id = id
    <3>1. ActionWith(actions, p, id, FALSE)
      BY <1>a
    <3>2. actions[i].actor = p
      BY <2>2, <2>4, <3>1
         DEF ActionWith, HistoryInv, HistoryIsValid, ActionIdsAreDistinct, Distinct
    <3>3. Len(undo[p]) + 1 \in DOMAIN undo'[p] /\ undo'[p][Len(undo[p]) + 1] = actions'[i].id
      BY <1>4, <1>5, <2>2, <2>4
    <3> QED
      BY <2>2, <3>2, <3>3
  <2>5. CASE actions[i].id # id
    <3>1. actions[i].active
      BY <2>3, <2>5
    <3>2. PICK j \in DOMAIN undo[actions[i].actor] : undo[actions[i].actor][j] = actions[i].id
      BY <2>2, <3>1 DEF HistoryInv, HistoryIsValid, ActiveActionsAreStacked
    <3>3. CASE actions[i].actor = p
      BY <1>4, <1>5, <2>2, <3>2, <3>3
    <3>4. CASE actions[i].actor # p
      BY <1>5, <2>2, <3>2, <3>4
    <3> QED
      BY <3>3, <3>4
  <2> QED
    BY <2>4, <2>5
<1>13. /\ actions' \in Seq(Action) /\ DrawnIds' = DrawnIds
       /\ \A i \in DOMAIN actions' : actions'[i].id \in DOMAIN commands
       /\ ActionIdsAreDistinct' /\ DrawsAreWhole' /\ RootIdsAreDistinct' /\ TargetsAreRoots'
  <2>1. TRUE \in BOOLEAN
    OBVIOUS
  <2> QED
    BY <1>a, <2>1, SetActiveKeeps
<1> QED
  BY <1>5, <1>10, <1>11, <1>12, <1>13 DEF HistoryStays, HistoryIsValid, Action

-----------------------------------------------------------------------------
(* The invariant holds in the initial state and every action keeps it.     *)

(* The page that is shared starts with a valid, empty history.             *)
LEMMA InitIsValid == Init => HistoryInv
<1> SUFFICES ASSUME Init PROVE HistoryInv
  OBVIOUS
<1>1. active = <<>> /\ actions = <<>> /\ commands = <<>> /\ revision = 0
      /\ undo = [q \in Participant |-> <<>>] /\ redo = [q \in Participant |-> <<>>]
      /\ minted = {r \in RootId : OriginalId(r) \in IdsOf(Baseline)}
  BY DEF Init
<1>2. DOMAIN active = {} /\ DOMAIN actions = {} /\ DOMAIN commands = {}
      /\ \A q \in Participant : DOMAIN undo[q] = {} /\ DOMAIN redo[q] = {}
  BY <1>1
<1>3. HistoryTypeOK
  BY <1>1, <1>2 DEF HistoryTypeOK
<1>4. DrawnIds = {} /\ IdsOf(active) = {}
  BY <1>2 DEF DrawnIds, IdsOf
<1>5. \A id \in IdsOf(Baseline) : \E r \in minted : id = OriginalId(r)
  <2> SUFFICES ASSUME NEW id \in IdsOf(Baseline) PROVE \E r \in minted : id = OriginalId(r)
    OBVIOUS
  <2>1. PICK i \in DOMAIN Baseline : id = Baseline[i].id
    BY DEF IdsOf
  <2>2. PICK r \in RootId : Baseline[i].id = OriginalId(r)
    BY JournalAssumption
  <2> QED
    BY <1>1, <2>1, <2>2
<1>6. IdsAreFresh
  BY <1>2, <1>4, <1>5 DEF IdsAreFresh, Distinct
<1>7. HistoryIsValid
  BY <1>2 DEF HistoryIsValid, ActionIdsAreDistinct, Distinct, DrawsAreWhole, RootIdsAreDistinct,
              TargetsAreRoots, StacksMatchActions, NoActionIsStackedTwice, IsInjective,
              ActiveActionsAreStacked
<1> QED
  BY <1>3, <1>6, <1>7 DEF HistoryInv

(* A step that records no action and touches no stack.                     *)
LEMMA HistoryUnchanged ==
  ASSUME HistoryInv, UNCHANGED historyVars
  PROVE  HistoryStays
<1>1. HistoryIsValid'
  BY DEF HistoryInv, historyVars, HistoryIsValid, ActionIdsAreDistinct, Distinct, DrawsAreWhole,
         RootIdsAreDistinct, TargetsAreRoots, StacksMatchActions, ActionWith,
         NoActionIsStackedTwice, ActiveActionsAreStacked
<1> QED
  BY <1>1 DEF HistoryInv, HistoryTypeOK, IdsAreFresh, historyVars, HistoryStays, DrawnIds

(* What is left to show of a step that records the command c: the strokes  *)
(* in progress.                                                            *)
LEMMA StepIsValid ==
  ASSUME HistoryInv, NEW c \in CommandId, CommandRecorded(c),
         actions' \in Seq(Draw \cup Erasure),
         undo' \in [Participant -> Seq(CommandId)],
         redo' \in [Participant -> Seq(CommandId)],
         HistoryIsValid',
         \A i \in DOMAIN actions' : actions'[i].id \in DOMAIN commands \cup {c},
         minted \subseteq minted', minted' \subseteq RootId,
         DrawnIds' \subseteq DrawnIds \cup IdsOf(active),
         active' \in Seq(Stroke), Distinct(active'),
         \A id \in IdsOf(active') : \E r \in minted' : id = OriginalId(r),
         \A i \in DOMAIN active' : active'[i].id \notin IdsOf(Baseline) \cup DrawnIds'
  PROVE  HistoryInv'
<1>1. /\ DOMAIN commands' = DOMAIN commands \cup {c} /\ DOMAIN commands' \subseteq CommandId
      /\ \A x \in DOMAIN commands' : commands'[x] \in Applied
      /\ revision' \in Nat
  BY DEF CommandRecorded
<1>2. HistoryTypeOK'
  BY <1>1 DEF HistoryTypeOK
<1>3. \A id \in IdsOf(Baseline) \cup DrawnIds' \cup IdsOf(active') :
        \E r \in minted' : id = OriginalId(r)
  BY DEF HistoryInv, IdsAreFresh
<1>4. IdsOf(active)' = IdsOf(active') /\ Distinct(active)' = Distinct(active')
      /\ IdsOf(Baseline)' = IdsOf(Baseline)
  BY DEF IdsOf, Distinct
<1>5. IdsAreFresh'
  BY <1>1, <1>3, <1>4 DEF IdsAreFresh
<1> QED
  BY <1>2, <1>5 DEF HistoryInv

(* Beginning a stroke keeps the invariant: its id was never used.          *)
LEMMA BeginIsValid ==
  ASSUME HistoryInv, NEW p \in Participant, NEW c \in CommandId, NEW r \in RootId,
         BeginStroke(p, c, r)
  PROVE  HistoryInv'
<1> DEFINE new == [id |-> OriginalId(r), author |-> p, points |-> <<>>]
<1>1. /\ r \notin minted /\ minted' = minted \cup {r}
      /\ active' = Append(active, new)
      /\ Record(p, c, "begin", {OriginalId(r)})
      /\ UNCHANGED historyVars
  BY DEF BeginStroke, historyVars
<1>2. OriginalId(r) \in StrokeId
  BY DEF OriginalId, StrokeId
<1>3. CommandRecorded(c)
  BY <1>1, <1>2, RecordFacts DEF HistoryInv
<1>4. HistoryStays
  BY <1>1, HistoryUnchanged
<1>5. active \in Seq(Stroke) /\ new \in Stroke
  BY <1>2 DEF HistoryInv, HistoryTypeOK, Stroke
<1>6. /\ active' \in Seq(Stroke) /\ DOMAIN active' = 1 .. Len(active) + 1
      /\ \A i \in DOMAIN active : active'[i].id = active[i].id
      /\ active'[Len(active) + 1].id = OriginalId(r)
      /\ Len(active) \in Nat /\ DOMAIN active = 1 .. Len(active)
  BY <1>1, <1>5, AppendFacts, LenProperties
<1>7. \A i \in DOMAIN active' : i \in DOMAIN active \/ i = Len(active) + 1
  BY <1>6
<1>8. OriginalId(r) \notin IdsOf(Baseline) \cup DrawnIds \cup IdsOf(active)
  BY <1>1 DEF HistoryInv, IdsAreFresh, OriginalId
<1>9. Distinct(active')
  BY <1>6, <1>7, <1>8 DEF Distinct, IdsOf, HistoryInv, IdsAreFresh
<1>10. \A id \in IdsOf(active') : \E x \in minted' : id = OriginalId(x)
  BY <1>1, <1>6, <1>7 DEF IdsOf, HistoryInv, IdsAreFresh
<1>11. \A i \in DOMAIN active' : active'[i].id \notin IdsOf(Baseline) \cup DrawnIds'
  BY <1>4, <1>6, <1>7, <1>8 DEF HistoryInv, IdsAreFresh, HistoryStays
<1>12. minted \subseteq minted' /\ minted' \subseteq RootId
  BY <1>1 DEF HistoryInv, HistoryTypeOK
<1> QED
  BY <1>3, <1>4, <1>6, <1>9, <1>10, <1>11, <1>12, StepIsValid DEF HistoryStays

(* Appending points keeps the invariant: no id changes.                    *)
LEMMA AppendIsValid ==
  ASSUME HistoryInv, NEW p \in Participant, NEW c \in CommandId, NEW i \in DOMAIN active,
         NEW first \in Nat, NEW batch \in Batch,
         AppendStrokePoints(p, c, i, first, batch)
  PROVE  HistoryInv'
<1>1. /\ active' = [active EXCEPT ![i].points = @ \o batch]
      /\ Record(p, c, "append", {active[i].id})
      /\ UNCHANGED <<historyVars, minted>>
  BY DEF AppendStrokePoints, historyVars
<1>2. /\ active \in Seq(Stroke) /\ Len(active) \in Nat /\ DOMAIN active = 1 .. Len(active)
      /\ active[i] \in Stroke
  BY LenProperties, ElementOfSeq DEF HistoryInv, HistoryTypeOK
<1>3. CommandRecorded(c)
  BY <1>1, <1>2, RecordFacts DEF HistoryInv, Stroke
<1>4. HistoryStays
  BY <1>1, HistoryUnchanged
<1>5. batch \in Seq(Cell)
  BY JournalAssumption
<1>6. [active[i] EXCEPT !.points = @ \o batch] \in Stroke
  BY <1>2, <1>5, ConcatProperties DEF Stroke
<1>7. active' = [active EXCEPT ![i] = [active[i] EXCEPT !.points = @ \o batch]]
  BY <1>1, <1>2 DEF Stroke
<1>8. active' \in Seq(Stroke) /\ DOMAIN active' = DOMAIN active
      /\ \A j \in DOMAIN active : active'[j].id = active[j].id
  BY <1>2, <1>6, <1>7, ExceptSeq, LenProperties DEF Stroke
<1>9. Distinct(active') /\ IdsOf(active') = IdsOf(active)
  BY <1>8 DEF Distinct, IdsOf, HistoryInv, IdsAreFresh
<1>10. \A j \in DOMAIN active' : active'[j].id \notin IdsOf(Baseline) \cup DrawnIds'
  BY <1>4, <1>8 DEF HistoryInv, IdsAreFresh, HistoryStays
<1>11. minted' = minted /\ minted \subseteq RootId
       /\ \A id \in IdsOf(active) : \E x \in minted : id = OriginalId(x)
  BY <1>1 DEF HistoryInv, HistoryTypeOK, IdsAreFresh
<1> QED
  BY <1>3, <1>4, <1>8, <1>9, <1>10, <1>11, StepIsValid DEF HistoryStays

(* A stroke leaves the strokes in progress.                                *)
LEMMA ActiveShrinks ==
  ASSUME HistoryInv, NEW i \in DOMAIN active, active' = RemoveAt(active, i)
  PROVE  /\ active' \in Seq(Stroke) /\ Distinct(active')
         /\ IdsOf(active') \subseteq IdsOf(active) \ {active[i].id}
<1>1. active \in Seq(Stroke)
  BY DEF HistoryInv, HistoryTypeOK
<1>2. active' \in Seq(Stroke)
  BY <1>1, RemoveAtFacts
<1> DEFINE at(j) == IF j < i THEN j ELSE j + 1
<1>3. \A j \in DOMAIN active' : at(j) \in DOMAIN active \ {i} /\ active'[j] = active[at(j)]
  BY <1>1, RemoveAtPlaces
<1>4. \A j, k \in DOMAIN active' : at(j) = at(k) => j = k
  <2>1. DOMAIN active' = 1 .. Len(active') /\ Len(active') \in Nat
    BY <1>2, LenProperties
  <2>2. DOMAIN active = 1 .. Len(active) /\ Len(active) \in Nat
    BY <1>1, LenProperties
  <2> QED
    BY <2>1, <2>2
<1> HIDE DEF at
<1>5. \A j, k \in DOMAIN active : active[j].id = active[k].id => j = k
  BY DEF HistoryInv, IdsAreFresh, Distinct
<1>6. Distinct(active')
  BY <1>3, <1>4, <1>5 DEF Distinct
<1>7. IdsOf(active') \subseteq IdsOf(active) \ {active[i].id}
  BY <1>3, <1>5 DEF IdsOf
<1> QED
  BY <1>2, <1>6, <1>7

(* What holds of the strokes in progress when a step leaves them and the   *)
(* roots of the history alone.                                             *)
LEMMA ActiveStays ==
  ASSUME HistoryInv, UNCHANGED <<active, minted>>, DrawnIds' = DrawnIds
  PROVE  /\ minted \subseteq minted' /\ minted' \subseteq RootId
         /\ active' \in Seq(Stroke) /\ Distinct(active')
         /\ \A id \in IdsOf(active') : \E r \in minted' : id = OriginalId(r)
         /\ \A i \in DOMAIN active' : active'[i].id \notin IdsOf(Baseline) \cup DrawnIds'
<1>1. active' = active /\ minted' = minted
  OBVIOUS
<1> QED
  BY <1>1 DEF HistoryInv, HistoryTypeOK, IdsAreFresh

(* Cancelling a stroke keeps the invariant: its id is never used again.    *)
LEMMA CancelIsValid ==
  ASSUME HistoryInv, NEW p \in Participant, NEW c \in CommandId, NEW i \in DOMAIN active,
         CancelStroke(p, c, i)
  PROVE  HistoryInv'
<1>1. /\ active' = RemoveAt(active, i)
      /\ Record(p, c, "cancel", {active[i].id})
      /\ UNCHANGED <<historyVars, minted>>
  BY DEF CancelStroke, historyVars
<1>2. active[i] \in Stroke
  BY ElementOfSeq, LenProperties DEF HistoryInv, HistoryTypeOK
<1>3. CommandRecorded(c)
  BY <1>1, <1>2, RecordFacts DEF HistoryInv, Stroke
<1>4. HistoryStays
  BY <1>1, HistoryUnchanged
<1>5. /\ active' \in Seq(Stroke) /\ Distinct(active')
      /\ IdsOf(active') \subseteq IdsOf(active) \ {active[i].id}
  BY <1>1, ActiveShrinks
<1>6. minted' = minted /\ minted \subseteq RootId
      /\ \A id \in IdsOf(active') : \E x \in minted' : id = OriginalId(x)
  BY <1>1, <1>5 DEF HistoryInv, HistoryTypeOK, IdsAreFresh
<1>7. \A id \in IdsOf(active) : id \notin IdsOf(Baseline) \cup DrawnIds
  BY DEF HistoryInv, IdsAreFresh, IdsOf
<1>8. \A j \in DOMAIN active' : active'[j].id \in IdsOf(active')
  BY DEF IdsOf
<1>9. \A j \in DOMAIN active' : active'[j].id \notin IdsOf(Baseline) \cup DrawnIds'
  BY <1>4, <1>5, <1>7, <1>8 DEF HistoryStays
<1> QED
  BY <1>3, <1>4, <1>5, <1>6, <1>9, StepIsValid DEF HistoryStays

(* Committing a stroke keeps the invariant: the stroke becomes a root of   *)
(* the history when it stops being in progress.                            *)
LEMMA CommitIsValid ==
  ASSUME HistoryInv, NEW p \in Participant, NEW c \in CommandId, NEW i \in DOMAIN active,
         CommitStroke(p, c, i)
  PROVE  HistoryInv'
<1> DEFINE a == [kind |-> "draw", id |-> c, actor |-> p, active |-> TRUE, stroke |-> active[i]]
<1>1. /\ active[i].author = p /\ active[i].points # <<>>
      /\ RecordAction(p, a)
      /\ active' = RemoveAt(active, i)
      /\ Record(p, c, "commit", {active[i].id})
      /\ minted' = minted
  BY DEF CommitStroke
<1>2. active[i] \in Stroke
  BY ElementOfSeq, LenProperties DEF HistoryInv, HistoryTypeOK
<1>3. CommandRecorded(c)
  BY <1>1, <1>2, RecordFacts DEF HistoryInv, Stroke
<1>4. /\ a \in Action /\ a.id = c /\ a.actor = p /\ a.active = TRUE /\ a.stroke = active[i]
      /\ IsDraw(a) /\ ~IsErase(a)
  BY <1>2 DEF Action, Draw, IsDraw, IsErase
<1>5. active[i].id \notin IdsOf(Baseline) \cup DrawnIds
  BY DEF HistoryInv, IdsAreFresh
<1>6. c \notin DOMAIN commands
  BY <1>3 DEF CommandRecorded
<1> HIDE DEF a
<1>7. /\ actions' \in Seq(Draw \cup Erasure)
      /\ undo' \in [Participant -> Seq(CommandId)]
      /\ redo' \in [Participant -> Seq(CommandId)]
      /\ HistoryIsValid'
      /\ DrawnIds' = DrawnIds \cup {active[i].id}
      /\ \A j \in DOMAIN actions' : actions'[j].id \in DOMAIN commands \cup {c}
  BY <1>1, <1>4, <1>5, <1>6, RecordActionIsValid
<1>8. /\ active' \in Seq(Stroke) /\ Distinct(active')
      /\ IdsOf(active') \subseteq IdsOf(active) \ {active[i].id}
  BY <1>1, ActiveShrinks
<1>9. active[i].id \in IdsOf(active)
  BY DEF IdsOf
<1>10. minted' = minted /\ minted \subseteq RootId
       /\ \A id \in IdsOf(active') : \E x \in minted' : id = OriginalId(x)
  BY <1>1, <1>8 DEF HistoryInv, HistoryTypeOK, IdsAreFresh
<1>11. \A id \in IdsOf(active) : id \notin IdsOf(Baseline) \cup DrawnIds
  BY DEF HistoryInv, IdsAreFresh, IdsOf
<1>12. \A j \in DOMAIN active' : active'[j].id \in IdsOf(active')
  BY DEF IdsOf
<1>13. \A j \in DOMAIN active' : active'[j].id \notin IdsOf(Baseline) \cup DrawnIds'
  BY <1>7, <1>8, <1>11, <1>12
<1> QED
  BY <1>3, <1>7, <1>8, <1>9, <1>10, <1>13, StepIsValid

(* An eraser targets roots only.                                           *)
LEMMA TargetsAreKnown ==
  ASSUME HistoryInv, NEW p \in Participant, NEW region
  PROVE  /\ EraserTargets(actions, p, region) \subseteq IdsOf(Baseline) \cup DrawnIds
         /\ EraserTargets(actions, p, region) \subseteq StrokeId
<1>1. \A root \in ActiveRoots(actions) : root.id \in IdsOf(Baseline) \cup DrawnIds
  BY DEF ActiveRoots, IdsOf, DrawnIds, Range
<1>2. EraserTargets(actions, p, region) \subseteq IdsOf(Baseline) \cup DrawnIds
  BY <1>1 DEF EraserTargets
<1>3. \A id \in IdsOf(Baseline) \cup DrawnIds : id \in StrokeId
  <2>1. \A r \in RootId : OriginalId(r) \in StrokeId
    BY DEF OriginalId, StrokeId
  <2> QED
    BY <2>1 DEF HistoryInv, HistoryTypeOK, IdsAreFresh
<1> QED
  BY <1>2, <1>3

(* Erasing keeps the invariant.                                            *)
LEMMA EraseIsValid ==
  ASSUME HistoryInv, NEW p \in Participant, NEW c \in CommandId, NEW region \in Region,
         Erase(p, c, region)
  PROVE  HistoryInv'
<1> DEFINE targets == EraserTargets(actions, p, region)
           a == [kind |-> "erase", id |-> c, actor |-> p, active |-> TRUE,
                 region |-> region, targets |-> targets]
<1>1. /\ targets # {} /\ RecordAction(p, a)
      /\ Record(p, c, "set", {})
      /\ UNCHANGED <<active, minted>>
  BY DEF Erase, SetCommittedStrokes
<1>2. CommandRecorded(c)
  BY <1>1, RecordFacts DEF HistoryInv
<1>3. targets \subseteq IdsOf(Baseline) \cup DrawnIds /\ targets \subseteq StrokeId
  BY TargetsAreKnown
<1>4. region \in SUBSET Cell
  BY JournalAssumption
<1> HIDE DEF targets
<1>5. /\ a \in Action /\ a.id = c /\ a.actor = p /\ a.active = TRUE /\ a.targets = targets
      /\ IsErase(a) /\ ~IsDraw(a)
  BY <1>3, <1>4 DEF Action, Erasure, IsDraw, IsErase
<1>6. c \notin DOMAIN commands
  BY <1>2 DEF CommandRecorded
<1> HIDE DEF a
<1>7. /\ actions' \in Seq(Draw \cup Erasure)
      /\ undo' \in [Participant -> Seq(CommandId)]
      /\ redo' \in [Participant -> Seq(CommandId)]
      /\ HistoryIsValid'
      /\ DrawnIds' = DrawnIds
      /\ \A j \in DOMAIN actions' : actions'[j].id \in DOMAIN commands \cup {c}
  BY <1>1, <1>3, <1>5, <1>6, RecordActionIsValid
<1>8. /\ minted \subseteq minted' /\ minted' \subseteq RootId
      /\ active' \in Seq(Stroke) /\ Distinct(active')
      /\ \A id \in IdsOf(active') : \E r \in minted' : id = OriginalId(r)
      /\ \A i \in DOMAIN active' : active'[i].id \notin IdsOf(Baseline) \cup DrawnIds'
  BY <1>1, <1>7, ActiveStays
<1> QED
  BY <1>2, <1>7, <1>8, StepIsValid

(* A step that leaves the strokes in progress alone and keeps the history, *)
(* as undo and redo do, keeps the invariant.                               *)
LEMMA HistoryStepIsValid ==
  ASSUME HistoryInv, NEW p \in Participant, NEW c \in CommandId, NEW kind \in {"set", "none"},
         HistoryStays, Record(p, c, kind, {}), UNCHANGED <<active, minted>>
  PROVE  HistoryInv'
<1>1. CommandRecorded(c)
  BY RecordFacts DEF HistoryInv
<1>2. /\ minted \subseteq minted' /\ minted' \subseteq RootId
      /\ active' \in Seq(Stroke) /\ Distinct(active')
      /\ \A id \in IdsOf(active') : \E r \in minted' : id = OriginalId(r)
      /\ \A i \in DOMAIN active' : active'[i].id \notin IdsOf(Baseline) \cup DrawnIds'
  BY ActiveStays DEF HistoryStays
<1> QED
  BY <1>1, <1>2, StepIsValid DEF HistoryStays

(* The invariant is inductive.                                             *)
LEMMA NextIsValid == HistoryInv /\ [Next]_vars => HistoryInv'
<1> SUFFICES ASSUME HistoryInv, [Next]_vars PROVE HistoryInv'
  OBVIOUS
<1>1. CASE UNCHANGED vars
  <2>1. UNCHANGED <<strokes, active, actions, undo, redo, revision, commands, minted>>
    BY <1>1 DEF vars, pageVars, historyVars
  <2>2. HistoryStays
    BY <2>1, HistoryUnchanged DEF historyVars
  <2> QED
    BY <2>1, <2>2 DEF HistoryStays, HistoryInv, HistoryTypeOK, IdsAreFresh, IdsOf, Distinct
<1>2. ASSUME NEW p \in Participant, NEW c \in CommandId, Submit(p, c)
      PROVE  HistoryInv'
  <2>1. ASSUME NEW r \in RootId, BeginStroke(p, c, r)
        PROVE  HistoryInv'
    BY <2>1, BeginIsValid
  <2>2. ASSUME NEW i \in DOMAIN active, NEW first \in 0 .. MaxStrokePoints, NEW batch \in Batch,
               AppendStrokePoints(p, c, i, first, batch)
        PROVE  HistoryInv'
    <3>1. first \in Nat
      BY JournalAssumption
    <3> QED
      BY <2>2, <3>1, AppendIsValid
  <2>3. ASSUME NEW i \in DOMAIN active, CommitStroke(p, c, i)
        PROVE  HistoryInv'
    BY <2>3, CommitIsValid
  <2>4. ASSUME NEW i \in DOMAIN active, CancelStroke(p, c, i)
        PROVE  HistoryInv'
    BY <2>4, CancelIsValid
  <2>5. ASSUME NEW region \in Region, Erase(p, c, region)
        PROVE  HistoryInv'
    BY <2>5, EraseIsValid
  <2>6. ASSUME NEW region \in Region, EraseNothing(p, c, region)
        PROVE  HistoryInv'
    <3>1. Record(p, c, "none", {}) /\ UNCHANGED <<active, minted>> /\ UNCHANGED historyVars
      BY <2>6 DEF EraseNothing, pageVars, historyVars
    <3>2. HistoryStays
      BY <3>1, HistoryUnchanged
    <3> QED
      BY <3>1, <3>2, HistoryStepIsValid
  <2>7. CASE Undo(p, c)
    <3>1. Record(p, c, "set", {}) /\ UNCHANGED <<active, minted>>
      BY <2>7 DEF Undo, SetCommittedStrokes
    <3> QED
      BY <2>7, <3>1, UndoIsValid, HistoryStepIsValid
  <2>8. CASE Redo(p, c)
    <3>1. Record(p, c, "set", {}) /\ UNCHANGED <<active, minted>>
      BY <2>8 DEF Redo, SetCommittedStrokes
    <3> QED
      BY <2>8, <3>1, RedoIsValid, HistoryStepIsValid
  <2> QED
    BY <1>2, <2>1, <2>2, <2>3, <2>4, <2>5, <2>6, <2>7, <2>8 DEF Submit
<1> QED
  BY <1>1, <1>2 DEF Next

(* Whatever legal commands the participants submit and in whatever order,  *)
(* the history passes every check of PageHistory::validate about actions,  *)
(* roots, targets and stacks, so that a restart does not lose the share.   *)
THEOREM HistoryIsAlwaysValid == Spec => []HistoryIsValid
<1>1. Init => HistoryInv
  BY InitIsValid
<1>2. HistoryInv /\ [Next]_vars => HistoryInv'
  BY NextIsValid
<1>3. HistoryInv => HistoryIsValid
  BY DEF HistoryInv
<1> QED
  BY <1>1, <1>2, <1>3, PTL DEF Spec

(* Every identifier in use is accounted for, however the participants      *)
(* interleave: no stroke in progress collides with a root that an undo or  *)
(* a redo may bring back.                                                  *)
THEOREM IdsAreAlwaysFresh == Spec => []IdsAreFresh
<1>1. HistoryInv => IdsAreFresh
  BY DEF HistoryInv
<1> QED
  BY <1>1, InitIsValid, NextIsValid, PTL DEF Spec

-----------------------------------------------------------------------------
(* Revisions.                                                              *)

(* The table gives every revision up to the last one to one command.       *)
RevisionInv ==
  /\ revision \in Nat
  /\ \A c \in DOMAIN commands : commands[c].revision \in 1 .. revision
  /\ EveryRevisionIsOneCommand

(* Recording a command keeps the revisions unique.                         *)
LEMMA RecordKeepsRevisions ==
  ASSUME RevisionInv, NEW p, NEW c, NEW kind, NEW about, Record(p, c, kind, about)
  PROVE  RevisionInv'
<1>1. /\ c \notin DOMAIN commands /\ revision' = revision + 1
      /\ DOMAIN commands' = DOMAIN commands \cup {c}
      /\ commands'[c].revision = revision + 1
      /\ \A d \in DOMAIN commands : commands'[d] = commands[d]
  BY DEF Record
<1>2. revision \in Nat /\ \A d \in DOMAIN commands : commands[d].revision \in 1 .. revision
  BY DEF RevisionInv
<1>3. \A d \in DOMAIN commands' : commands'[d].revision \in 1 .. revision'
  BY <1>1, <1>2
<1>4. ASSUME NEW n \in 1 .. revision'
      PROVE  \E e \in DOMAIN commands' :
               /\ commands'[e].revision = n
               /\ \A d \in DOMAIN commands' \ {e} : commands'[d].revision # n
  <2>1. CASE n = revision + 1
    <3>1. \A d \in DOMAIN commands : commands'[d].revision # n
      BY <1>1, <1>2, <2>1
    <3> QED
      BY <1>1, <2>1, <3>1
  <2>2. CASE n # revision + 1
    <3>1. n \in 1 .. revision
      BY <1>1, <1>2, <2>2
    <3>2. PICK e \in DOMAIN commands :
            /\ commands[e].revision = n
            /\ \A d \in DOMAIN commands \ {e} : commands[d].revision # n
      BY <3>1 DEF RevisionInv, EveryRevisionIsOneCommand
    <3> QED
      BY <1>1, <2>2, <3>2
  <2> QED
    BY <2>1, <2>2
<1> QED
  BY <1>1, <1>2, <1>3, <1>4 DEF RevisionInv, EveryRevisionIsOneCommand

(* Every command is given the next revision, so that none is given twice.  *)
LEMMA NextRevisions == RevisionInv /\ [Next]_vars => RevisionInv'
<1> SUFFICES ASSUME RevisionInv, [Next]_vars  PROVE RevisionInv'
  OBVIOUS
<1>1. CASE UNCHANGED vars
  BY <1>1 DEF vars, RevisionInv, EveryRevisionIsOneCommand
<1>2. CASE Next
  <2> SUFFICES ASSUME NEW p, NEW c, Submit(p, c)  PROVE RevisionInv'
    BY <1>2 DEF Next
  <2>1. ASSUME NEW r, BeginStroke(p, c, r)  PROVE RevisionInv'
    BY <2>1, RecordKeepsRevisions DEF BeginStroke
  <2>2. ASSUME NEW i, NEW first, NEW batch, AppendStrokePoints(p, c, i, first, batch)  PROVE RevisionInv'
    BY <2>2, RecordKeepsRevisions DEF AppendStrokePoints
  <2>3. ASSUME NEW i, CommitStroke(p, c, i) \/ CancelStroke(p, c, i)  PROVE RevisionInv'
    BY <2>3, RecordKeepsRevisions DEF CommitStroke, CancelStroke
  <2>4. ASSUME NEW region, Erase(p, c, region) \/ EraseNothing(p, c, region)  PROVE RevisionInv'
    BY <2>4, RecordKeepsRevisions DEF Erase, EraseNothing
  <2>5. ASSUME Undo(p, c) \/ Redo(p, c)  PROVE RevisionInv'
    BY <2>5, RecordKeepsRevisions DEF Undo, Redo
  <2> QED
    BY <2>1, <2>2, <2>3, <2>4, <2>5 DEF Submit
<1> QED
  BY <1>1, <1>2

(* The table of commands accounts for every revision.                      *)
LEMMA RevisionsAreKept == Spec => []RevisionInv
<1>1. Init => RevisionInv
  BY DEF Init, RevisionInv, EveryRevisionIsOneCommand
<1> QED
  BY <1>1, NextRevisions, PTL DEF Spec

(* A command that is delivered twice is applied once: every revision of a  *)
(* page was given to exactly one command, for any participants, commands   *)
(* and limits.                                                             *)
THEOREM RevisionsAreUnique == Spec => []EveryRevisionIsOneCommand
<1>1. RevisionInv => EveryRevisionIsOneCommand
  BY DEF RevisionInv
<1> QED
  BY <1>1, RevisionsAreKept, PTL

-----------------------------------------------------------------------------
(* Points: what PointTotal counts, by induction over the strokes.          *)

(* The number of points on a page, put together or taken apart.            *)
LEMMA PointsSeq ==
  ASSUME NEW s \in Seq(Stroke)
  PROVE  [i \in DOMAIN s |-> s[i].points] \in Seq(Seq(Cell))
<1>1. Len(s) \in Nat /\ DOMAIN s = 1 .. Len(s) /\ \A i \in 1 .. Len(s) : s[i] \in Stroke
  BY LenProperties, ElementOfSeq
<1>2. \A i \in 1 .. Len(s) : s[i].points \in Seq(Cell)
  BY <1>1 DEF Stroke
<1> QED
  BY <1>1, <1>2

(* The number of points of a page is a number.                             *)
LEMMA PointTotalNat ==
  ASSUME NEW s \in Seq(Stroke)  PROVE PointTotal(s) \in Nat
<1>1. FlattenSeq([i \in DOMAIN s |-> s[i].points]) \in Seq(Cell)
  BY PointsSeq, FlattenFacts
<1> QED
  BY <1>1, LenProperties DEF PointTotal

(* A page without strokes has no points.                                   *)
LEMMA PointTotalEmpty == PointTotal(<<>>) = 0
<1>1. [i \in DOMAIN <<>> |-> <<>>[i].points] = <<>>
  OBVIOUS
<1> QED
  BY <1>1, FlattenEmpty, EmptySeq DEF PointTotal

(* One stroke has the points that it has.                                  *)
LEMMA PointTotalSingle ==
  ASSUME NEW e \in Stroke  PROVE PointTotal(<<e>>) = Len(e.points)
<1>1. e.points \in Seq(Cell)
  BY DEF Stroke
<1>2. [i \in DOMAIN <<e>> |-> <<e>>[i].points] = <<e.points>>
  OBVIOUS
<1>3. FlattenSeq(<<e.points>>) = e.points
  BY <1>1, FlattenSingle
<1> QED
  BY <1>2, <1>3 DEF PointTotal

(* The points of two pages put together.                                   *)
LEMMA PointTotalConcat ==
  ASSUME NEW s \in Seq(Stroke), NEW t \in Seq(Stroke)
  PROVE  PointTotal(s \o t) = PointTotal(s) + PointTotal(t)
<1> DEFINE points(u) == [i \in DOMAIN u |-> u[i].points]
<1>1. points(s) \in Seq(Seq(Cell)) /\ points(t) \in Seq(Seq(Cell))
  BY PointsSeq
<1>2. s \o t \in Seq(Stroke) /\ points(s \o t) \in Seq(Seq(Cell))
  BY ConcatProperties, PointsSeq
<1>3. \A u \in Seq(Stroke) : DOMAIN u = 1 .. Len(u) /\ Len(u) \in Nat
  BY LenProperties
<1>4. \A u \in Seq(Stroke) : DOMAIN points(u) = DOMAIN u /\ \A i \in DOMAIN u : points(u)[i] = u[i].points
  OBVIOUS
<1> HIDE DEF points
<1>5. \A u \in Seq(Seq(Cell)) : DOMAIN u = 1 .. Len(u) /\ Len(u) \in Nat
  BY LenProperties
<1>6. Len(points(s)) = Len(s) /\ Len(points(t)) = Len(t) /\ Len(points(s \o t)) = Len(s \o t)
  <2>1. \A m, n \in Nat : 1 .. m = 1 .. n => m = n
    <3> TAKE m, n \in Nat
    <3>1. 1 .. m = 1 .. n => ~(m < n) /\ ~(n < m)
      <4>1. m < n => n \in 1 .. n /\ n \notin 1 .. m
        OBVIOUS
      <4>2. n < m => m \in 1 .. m /\ m \notin 1 .. n
        OBVIOUS
      <4> QED
        BY <4>1, <4>2
    <3> QED
      BY <3>1
  <2>2. ASSUME NEW u \in Seq(Stroke), points(u) \in Seq(Seq(Cell))  PROVE Len(points(u)) = Len(u)
    <3>1. 1 .. Len(points(u)) = 1 .. Len(u) /\ Len(points(u)) \in Nat /\ Len(u) \in Nat
      BY <1>3, <1>4, <1>5, <2>2
    <3> QED
      BY <2>1, <3>1
  <2> QED
    BY <1>1, <1>2, <2>2
<1>7. /\ Len(s \o t) = Len(s) + Len(t)
      /\ \A i \in 1 .. Len(s) + Len(t) : (s \o t)[i] = IF i <= Len(s) THEN s[i] ELSE t[i - Len(s)]
  BY ConcatProperties
<1>8. /\ points(s) \o points(t) \in Seq(Seq(Cell))
      /\ Len(points(s) \o points(t)) = Len(s) + Len(t)
      /\ \A i \in 1 .. Len(s) + Len(t) :
           (points(s) \o points(t))[i] = IF i <= Len(s) THEN points(s)[i] ELSE points(t)[i - Len(s)]
  <2>1. /\ points(s) \o points(t) \in Seq(Seq(Cell))
        /\ Len(points(s) \o points(t)) = Len(points(s)) + Len(points(t))
        /\ \A i \in 1 .. Len(points(s)) + Len(points(t)) :
             (points(s) \o points(t))[i] =
               IF i <= Len(points(s)) THEN points(s)[i] ELSE points(t)[i - Len(points(s))]
    BY <1>1, ConcatProperties
  <2> QED
    BY <1>6, <2>1
<1>9. \A i \in 1 .. Len(s) + Len(t) : points(s \o t)[i] = (points(s) \o points(t))[i]
  <2> TAKE i \in 1 .. Len(s) + Len(t)
  <2>1. points(s \o t)[i] = (s \o t)[i].points
    BY <1>2, <1>3, <1>4, <1>7
  <2>2. CASE i <= Len(s)
    BY <1>3, <1>4, <1>7, <1>8, <2>1, <2>2
  <2>3. CASE ~(i <= Len(s))
    <3>1. i - Len(s) \in DOMAIN t
      BY <1>3, <2>3
    <3> QED
      BY <1>4, <1>7, <1>8, <2>1, <2>3, <3>1
  <2> QED
    BY <2>2, <2>3
<1>10. points(s \o t) = points(s) \o points(t)
  BY <1>2, <1>6, <1>7, <1>8, <1>9, SeqEqual
<1>11. FlattenSeq(points(s \o t)) = FlattenSeq(points(s)) \o FlattenSeq(points(t))
  BY <1>1, <1>10, FlattenConcat
<1>12. FlattenSeq(points(s)) \in Seq(Cell) /\ FlattenSeq(points(t)) \in Seq(Cell)
  BY <1>1, FlattenFacts
<1>13. Len(FlattenSeq(points(s \o t))) = Len(FlattenSeq(points(s))) + Len(FlattenSeq(points(t)))
  BY <1>11, <1>12, ConcatProperties
<1> QED
  BY <1>13 DEF PointTotal, points

(* A stroke adds its points to the page.                                   *)
LEMMA PointTotalAppend ==
  ASSUME NEW s \in Seq(Stroke), NEW e \in Stroke
  PROVE  PointTotal(Append(s, e)) = PointTotal(s) + Len(e.points)
<1>1. <<e>> \in Seq(Stroke) /\ Append(s, e) = s \o <<e>>
  BY AppendIsConcat
<1> QED
  BY <1>1, PointTotalConcat, PointTotalSingle

(* One stroke of a page replaced, or taken away.                           *)
LEMMA PointTotalAt ==
  ASSUME NEW s \in Seq(Stroke), NEW i \in DOMAIN s
  PROVE  /\ PointTotal(RemoveAt(s, i)) = PointTotal(s) - Len(s[i].points)
         /\ \A e \in Stroke : PointTotal([s EXCEPT ![i] = e])
                                = PointTotal(s) - Len(s[i].points) + Len(e.points)
<1> DEFINE front == SubSeq(s, 1, i - 1)
           back  == SubSeq(s, i + 1, Len(s))
<1>1. /\ front \in Seq(Stroke) /\ back \in Seq(Stroke)
      /\ s = (front \o <<s[i]>>) \o back /\ s[i] \in Stroke
  BY SplitAt, LenProperties, ElementOfSeq
<1>2. RemoveAt(s, i) = front \o back
  BY DEF RemoveAt
<1>3. \A e \in Stroke : [s EXCEPT ![i] = e] = (front \o <<e>>) \o back
  BY SplitReplaced
<1> HIDE DEF front, back
<1>4. ASSUME NEW e \in Stroke
      PROVE  PointTotal((front \o <<e>>) \o back)
               = PointTotal(front) + Len(e.points) + PointTotal(back)
  <2>1. <<e>> \in Seq(Stroke) /\ front \o <<e>> \in Seq(Stroke)
    BY <1>1, ConcatProperties
  <2>2. PointTotal(front \o <<e>>) = PointTotal(front) + Len(e.points)
    BY <1>1, <2>1, PointTotalConcat, PointTotalSingle
  <2>3. PointTotal((front \o <<e>>) \o back) = PointTotal(front \o <<e>>) + PointTotal(back)
    BY <1>1, <2>1, PointTotalConcat
  <2> QED
    BY <2>2, <2>3
<1>5. PointTotal(s) = PointTotal(front) + Len(s[i].points) + PointTotal(back)
  BY <1>1, <1>4
<1>6. PointTotal(front \o back) = PointTotal(front) + PointTotal(back)
  BY <1>1, PointTotalConcat
<1>7. PointTotal(front) \in Nat /\ PointTotal(back) \in Nat /\ Len(s[i].points) \in Nat
      /\ \A e \in Stroke : Len(e.points) \in Nat
  BY <1>1, PointTotalNat, LenProperties DEF Stroke
<1>8. PointTotal(RemoveAt(s, i)) = PointTotal(s) - Len(s[i].points)
  BY <1>2, <1>5, <1>6, <1>7
<1>9. ASSUME NEW e \in Stroke
      PROVE  PointTotal([s EXCEPT ![i] = e]) = PointTotal(s) - Len(s[i].points) + Len(e.points)
  <2>1. PointTotal([s EXCEPT ![i] = e]) = PointTotal((front \o <<e>>) \o back)
    BY <1>3
  <2>2. PointTotal([s EXCEPT ![i] = e]) = PointTotal(front) + Len(e.points) + PointTotal(back)
    BY <1>4, <2>1
  <2> QED
    BY <1>5, <1>7, <2>2
<1> QED
  BY <1>8, <1>9

-----------------------------------------------------------------------------
(* Rendering: what is left of one stroke, and the page its parts make up.  *)

(* What rendering may leave of a root: the root itself, or a fragment of   *)
(* it that is no longer and is named after its erasers.                    *)
Piece(root, q) ==
  /\ q \in Stroke /\ q.author = root.author /\ Len(q.points) <= Len(root.points)
  /\ q.id[1] = root.id[1]
  /\ q = root \/ q.id[2] # {}

(* A maximal run of the points that are kept ends somewhere.               *)
LEMMA RunsEnd ==
  ASSUME NEW n \in Nat, NEW kept \in SUBSET (1 .. n), NEW i \in kept
  PROVE  \E e \in kept : i .. e \subseteq kept /\ e + 1 \notin kept
<1> DEFINE gone == {m \in Nat : i <= m /\ m \notin kept}
<1>1. i \in 1 .. n /\ \A m \in kept : m \in 1 .. n
  OBVIOUS
<1>2. n + 1 \in gone
  BY <1>1
<1>3. PICK m \in gone : \A k \in gone : m <= k
  <2>1. gone \in SUBSET Nat /\ gone # {}
    BY <1>2
  <2> HIDE DEF gone
  <2> QED
    BY <2>1, LeastNumber
<1>4. m \in Nat /\ i <= m /\ m \notin kept /\ m # i
  BY <1>3
<1>5. i .. m - 1 \subseteq kept
  <2>1. ASSUME NEW k \in i .. m - 1  PROVE k \in kept
    <3>1. k \in Nat /\ i <= k /\ ~(m <= k)
      BY <1>1, <1>4, <2>1
    <3> QED
      BY <1>3, <3>1
  <2> QED
    BY <2>1
<1>6. m - 1 \in i .. m - 1 /\ (m - 1) + 1 = m
  BY <1>1, <1>4
<1> QED
  BY <1>4, <1>5, <1>6

(* What is left of a root are pieces of it with ids of their own.          *)
LEMMA RenderStrokeFacts ==
  ASSUME NEW acts \in Seq(Action), NEW root \in Stroke
  PROVE  /\ RenderStroke(acts, root) \in Seq(Stroke) /\ Distinct(RenderStroke(acts, root))
         /\ \A k \in DOMAIN RenderStroke(acts, root) : Piece(root, RenderStroke(acts, root)[k])
<1> DEFINE erasers == ErasersOf(acts, root.id)
           rubbed  == UNION {acts[i].region : i \in erasers}
           kept    == {i \in DOMAIN root.points : root.points[i] \notin rubbed}
           stop(i) == CHOOSE e \in kept : i .. e \subseteq kept /\ e + 1 \notin kept
           names   == {acts[k].id : k \in erasers}
           run(i)  == [id     |-> <<root.id[1], names, i>>,
                       author |-> root.author,
                       points |-> SubSeq(root.points, i, stop(i))]
           begins(i) == i \in kept /\ i - 1 \notin kept
           runs    == [i \in DOMAIN root.points |-> IF begins(i) THEN <<run(i)>> ELSE <<>>]
<1>1. RenderStroke(acts, root) = IF erasers = {} THEN <<root>> ELSE FlattenSeq(runs)
  BY DEF RenderStroke
<1>2. /\ root.points \in Seq(Cell) /\ root.author \in Participant /\ root.id \in StrokeId
      /\ root.id[1] \in RootId
  BY DEF Stroke, StrokeId
<1>3. /\ Len(root.points) \in Nat /\ DOMAIN root.points = 1 .. Len(root.points)
      /\ \A i \in 1 .. Len(root.points) : root.points[i] \in Cell
  BY <1>2, LenProperties, ElementOfSeq
<1>4. CASE erasers = {}
  <2>1. RenderStroke(acts, root) = <<root>> /\ <<root>> \in Seq(Stroke)
    BY <1>1, <1>4
  <2>2. Piece(root, root)
    BY <1>3 DEF Piece
  <2> QED
    BY <2>1, <2>2 DEF Distinct
<1>5. CASE erasers # {}
  <2>1. names \in SUBSET CommandId /\ names # {}
    <3>1. \A k \in DOMAIN acts : acts[k].id \in CommandId
      <4>1. \A k \in DOMAIN acts : acts[k] \in Action
        BY LenProperties, ElementOfSeq
      <4> QED
        BY <4>1 DEF Action, Draw, Erasure
    <3>2. \A k \in erasers : k \in DOMAIN acts
      BY DEF ErasersOf
    <3> QED
      BY <1>5, <3>1, <3>2
  <2>2. kept \subseteq 1 .. Len(root.points)
    BY <1>3
  <2> HIDE DEF names, kept, erasers, rubbed
  <2>3. ASSUME NEW i \in kept  PROVE stop(i) \in kept /\ i .. stop(i) \subseteq kept
    <3>1. \E e \in kept : i .. e \subseteq kept /\ e + 1 \notin kept
      BY <1>3, <2>2, RunsEnd
    <3> QED
      BY <3>1
  <2>4. ASSUME NEW i \in kept  PROVE run(i) \in Stroke /\ Piece(root, run(i)) /\ run(i).id[3] = i
    <3>1. i \in 1 .. Len(root.points) /\ stop(i) \in 1 .. Len(root.points)
      BY <2>2, <2>3
    <3> HIDE DEF stop
    <3>2. /\ SubSeq(root.points, i, stop(i)) \in Seq(Cell)
          /\ Len(SubSeq(root.points, i, stop(i))) = IF i <= stop(i) THEN stop(i) - i + 1 ELSE 0
      <4>1. \A k \in i .. stop(i) : root.points[k] \in Cell
        BY <1>3, <3>1
      <4> QED
        BY <3>1, <4>1, SubSeqProperties
    <3>3. Len(SubSeq(root.points, i, stop(i))) <= Len(root.points)
      BY <1>3, <3>1, <3>2
    <3>4. <<root.id[1], names, i>> \in StrokeId
      BY <1>2, <2>1, <3>1 DEF StrokeId
    <3>5. run(i) \in Stroke
      BY <1>2, <3>2, <3>4 DEF Stroke
    <3> QED
      BY <2>1, <3>3, <3>5 DEF Piece
  <2> HIDE DEF run
  <2>5. /\ runs \in Seq(Seq(Stroke))
        /\ \A i \in DOMAIN runs : \A k \in DOMAIN runs[i] :
             i \in kept /\ k = 1 /\ runs[i][k] = run(i)
    <3>1. \A i \in DOMAIN root.points :
             /\ begins(i) => runs[i] = <<run(i)>> /\ i \in kept
             /\ ~begins(i) => runs[i] = <<>>
      OBVIOUS
    <3>2. DOMAIN runs = 1 .. Len(root.points)
      BY <1>3
    <3>3. \A i \in kept : <<run(i)>> \in Seq(Stroke)
      BY <2>4
    <3>4. \A i \in 1 .. Len(root.points) : runs[i] \in Seq(Stroke)
      BY <1>3, <3>1, <3>3, EmptySeq
    <3>5. runs \in [1 .. Len(root.points) -> Seq(Stroke)]
      BY <1>3, <3>4
    <3>6. runs \in Seq(Seq(Stroke))
      BY <1>3, <3>5
    <3> HIDE DEF runs, begins
    <3>7. ASSUME NEW i \in DOMAIN runs, NEW k \in DOMAIN runs[i]
          PROVE  i \in kept /\ k = 1 /\ runs[i][k] = run(i)
      <4>1. begins(i)
        <5>1. ~begins(i) => DOMAIN runs[i] = {}
          BY <1>3, <3>1, <3>2
        <5> QED
          BY <3>7, <5>1
      <4>2. runs[i] = <<run(i)>> /\ i \in kept
        BY <1>3, <3>1, <3>2, <4>1
      <4> QED
        BY <4>2
    <3> QED
      BY <3>6, <3>7
  <2> HIDE DEF runs
  <2>6. FlattenSeq(runs) \in Seq(Stroke) /\ \E at : Origins(runs, at)
    BY <2>5, FlattenFacts
  <2>7. PICK at : Origins(runs, at)
    BY <2>6
  <2>8. \A j \in DOMAIN FlattenSeq(runs) :
          \E i \in kept : at[j] = <<i, 1>> /\ FlattenSeq(runs)[j] = run(i)
    BY <2>5, <2>7 DEF Origins
  <2>9. ASSUME NEW j \in DOMAIN FlattenSeq(runs), NEW k \in DOMAIN FlattenSeq(runs),
               FlattenSeq(runs)[j].id = FlattenSeq(runs)[k].id
        PROVE  j = k
    <3>1. PICK a \in kept : at[j] = <<a, 1>> /\ FlattenSeq(runs)[j] = run(a)
      BY <2>8
    <3>2. PICK b \in kept : at[k] = <<b, 1>> /\ FlattenSeq(runs)[k] = run(b)
      BY <2>8
    <3>3. a = b
      BY <2>4, <2>9, <3>1, <3>2
    <3> QED
      BY <2>7, <3>1, <3>2, <3>3 DEF Origins
  <2>10. \A j \in DOMAIN FlattenSeq(runs) : Piece(root, FlattenSeq(runs)[j])
    BY <2>4, <2>8
  <2> QED
    BY <1>1, <1>5, <2>6, <2>9, <2>10 DEF Distinct
<1> QED
  BY <1>4, <1>5

(* The parts a page is put together from: what is left of each root.       *)
BaselineParts(acts) == [i \in DOMAIN Baseline |-> RenderStroke(acts, Baseline[i])]
DrawnParts(acts) ==
  [i \in DOMAIN acts |-> IF IsDraw(acts[i]) /\ acts[i].active
                         THEN RenderStroke(acts, acts[i].stroke) ELSE <<>>]
Parts(acts) == BaselineParts(acts) \o DrawnParts(acts)

RootAt(acts, i) ==
  IF i \in DOMAIN Baseline THEN Baseline[i] ELSE acts[i - Len(Baseline)].stroke

(* A history whose roots are whole strokes with names of their own.        *)
RootsAreApart(acts) ==
  /\ acts \in Seq(Action)
  /\ \A i \in DOMAIN acts : IsDraw(acts[i]) =>
       /\ Len(acts[i].stroke.points) <= MaxStrokePoints
       /\ \E r \in RootId : acts[i].stroke.id = OriginalId(r)
       /\ acts[i].stroke.id \notin IdsOf(Baseline)
       /\ \A j \in DOMAIN acts :
            IsDraw(acts[j]) /\ acts[j].stroke.id = acts[i].stroke.id => i = j

DrawnIn(acts) == {acts[i].stroke.id : i \in {j \in DOMAIN acts : IsDraw(acts[j])}}

(* The page that is shared is within the limits of a page.                 *)
LEMMA BaselineFacts ==
  /\ Len(Baseline) \in Nat /\ DOMAIN Baseline = 1 .. Len(Baseline)
  /\ \A i \in DOMAIN Baseline : /\ Baseline[i] \in Stroke
                                /\ Len(Baseline[i].points) <= MaxStrokePoints
  /\ Len(Baseline) <= MaxStrokes
  /\ PointTotal(Baseline) \in Nat /\ PointTotal(Baseline) <= MaxPagePoints
<1>1. Baseline \in Seq(Stroke) /\ ValidSnapshot(Baseline, <<>>) /\ MaxPagePoints \in Nat
  BY JournalAssumption, BaselineAssumption
<1>2. Baseline \o <<>> = Baseline
  BY <1>1, ConcatEmptySeq
<1>3. PointTotal(Baseline) \in Nat
  BY <1>1, PointTotalNat
<1> QED
  BY <1>1, <1>2, <1>3, PointTotalEmpty, LenProperties, ElementOfSeq DEF ValidSnapshot

(* What the actions of a history are made of.                              *)
LEMMA ActionFacts ==
  ASSUME NEW acts \in Seq(Action)
  PROVE  /\ Len(acts) \in Nat /\ DOMAIN acts = 1 .. Len(acts)
         /\ \A i \in DOMAIN acts :
              /\ acts[i] \in Action /\ acts[i].id \in CommandId
              /\ IsDraw(acts[i]) => acts[i].stroke \in Stroke
<1>1. /\ Len(acts) \in Nat /\ DOMAIN acts = 1 .. Len(acts)
      /\ \A i \in DOMAIN acts : acts[i] \in Action
  BY LenProperties, ElementOfSeq
<1>2. \A a \in Action : a.id \in CommandId /\ (IsDraw(a) => a.stroke \in Stroke)
  BY DEF Action, Draw, Erasure, IsDraw
<1> QED
  BY <1>1, <1>2

(* The parts of a page are sequences of strokes, one for each root.        *)
LEMMA PartsSeq ==
  ASSUME NEW acts \in Seq(Action)
  PROVE  /\ BaselineParts(acts) \in Seq(Seq(Stroke)) /\ Len(BaselineParts(acts)) = Len(Baseline)
         /\ DrawnParts(acts) \in Seq(Seq(Stroke)) /\ Len(DrawnParts(acts)) = Len(acts)
         /\ Parts(acts) \in Seq(Seq(Stroke))
<1>1. /\ \A i \in 1 .. Len(Baseline) : RenderStroke(acts, Baseline[i]) \in Seq(Stroke)
      /\ \A i \in 1 .. Len(acts) : IsDraw(acts[i]) => RenderStroke(acts, acts[i].stroke) \in Seq(Stroke)
  BY BaselineFacts, ActionFacts, RenderStrokeFacts
<1>2. BaselineParts(acts) \in [1 .. Len(Baseline) -> Seq(Stroke)]
  BY <1>1, BaselineFacts DEF BaselineParts
<1>3. DrawnParts(acts) \in [1 .. Len(acts) -> Seq(Stroke)]
  <2>1. <<>> \in Seq(Stroke)
    BY EmptySeq
  <2> QED
    BY <1>1, <2>1, ActionFacts DEF DrawnParts
<1>4. BaselineParts(acts) \in Seq(Seq(Stroke)) /\ Len(BaselineParts(acts)) = Len(Baseline)
  BY <1>2, BaselineFacts
<1>5. DrawnParts(acts) \in Seq(Seq(Stroke)) /\ Len(DrawnParts(acts)) = Len(acts)
  BY <1>3, ActionFacts
<1> QED
  BY <1>4, <1>5, ConcatProperties DEF Parts

(* Which part of the page belongs to which root.                           *)
LEMMA PartsAt ==
  ASSUME NEW acts \in Seq(Action)
  PROVE  /\ Len(acts) \in Nat /\ DOMAIN acts = 1 .. Len(acts)
         /\ Len(Parts(acts)) = Len(Baseline) + Len(acts)
         /\ DOMAIN Parts(acts) = 1 .. Len(Baseline) + Len(acts)
         /\ Parts(acts) \in Seq(Seq(Stroke))
         /\ \A i \in DOMAIN Parts(acts) :
              Parts(acts)[i] = IF i <= Len(Baseline) THEN BaselineParts(acts)[i]
                                                    ELSE DrawnParts(acts)[i - Len(Baseline)]
<1>1. /\ BaselineParts(acts) \in Seq(Seq(Stroke)) /\ Len(BaselineParts(acts)) = Len(Baseline)
      /\ DrawnParts(acts) \in Seq(Seq(Stroke)) /\ Len(DrawnParts(acts)) = Len(acts)
      /\ Parts(acts) \in Seq(Seq(Stroke))
  BY PartsSeq
<1>2. /\ Len(Parts(acts)) = Len(BaselineParts(acts)) + Len(DrawnParts(acts))
      /\ \A k \in 1 .. Len(BaselineParts(acts)) + Len(DrawnParts(acts)) :
           Parts(acts)[k] = IF k <= Len(BaselineParts(acts)) THEN BaselineParts(acts)[k]
                            ELSE DrawnParts(acts)[k - Len(BaselineParts(acts))]
  <2> DEFINE both == BaselineParts(acts) \o DrawnParts(acts)
  <2>1. /\ Len(both) = Len(BaselineParts(acts)) + Len(DrawnParts(acts))
        /\ \A k \in 1 .. Len(BaselineParts(acts)) + Len(DrawnParts(acts)) :
             both[k] = IF k <= Len(BaselineParts(acts)) THEN BaselineParts(acts)[k]
                       ELSE DrawnParts(acts)[k - Len(BaselineParts(acts))]
    <3> DEFINE first == BaselineParts(acts)
               second == DrawnParts(acts)
    <3>1. first \in Seq(Seq(Stroke)) /\ second \in Seq(Seq(Stroke))
      BY <1>1
    <3> HIDE DEF first, second
    <3>2. /\ Len(first \o second) = Len(first) + Len(second)
          /\ \A k \in 1 .. Len(first) + Len(second) :
               (first \o second)[k] = IF k <= Len(first) THEN first[k] ELSE second[k - Len(first)]
      BY <3>1, ConcatProperties
    <3> QED
      BY <3>2 DEF first, second
  <2>2. Parts(acts) = both
    BY DEF Parts
  <2> HIDE DEF both
  <2> QED
    BY <2>1, <2>2
<1>3. DOMAIN Parts(acts) = 1 .. Len(Parts(acts))
  BY <1>1, LenProperties
<1>4. Len(acts) \in Nat /\ DOMAIN acts = 1 .. Len(acts)
  BY ActionFacts
<1> QED
  BY <1>1, <1>2, <1>3, <1>4

(* Each part is what is left of one root.                                  *)
LEMMA PartFacts ==
  ASSUME NEW acts, RootsAreApart(acts), NEW i \in DOMAIN Parts(acts), Parts(acts)[i] # <<>>
  PROVE  LET root == RootAt(acts, i)
         IN  /\ Parts(acts)[i] = RenderStroke(acts, root)
             /\ root \in Stroke /\ Len(root.points) <= MaxStrokePoints
             /\ \E r \in RootId : root.id = OriginalId(r)
             /\ root.id \in IF i \in DOMAIN Baseline THEN IdsOf(Baseline) ELSE DrawnIn(acts)
             /\ i \notin DOMAIN Baseline => /\ i - Len(Baseline) \in DOMAIN acts
                                            /\ IsDraw(acts[i - Len(Baseline)])
<1>1. acts \in Seq(Action)
  BY DEF RootsAreApart
<1>2. /\ Len(acts) \in Nat /\ DOMAIN acts = 1 .. Len(acts)
      /\ i \in 1 .. Len(Baseline) + Len(acts)
      /\ Parts(acts)[i] = IF i <= Len(Baseline) THEN BaselineParts(acts)[i]
                                                ELSE DrawnParts(acts)[i - Len(Baseline)]
  BY <1>1, PartsAt
<1>3. CASE i \in DOMAIN Baseline
  <2>1. Parts(acts)[i] = RenderStroke(acts, Baseline[i])
    BY <1>2, <1>3, BaselineFacts DEF BaselineParts
  <2>2. \E r \in RootId : Baseline[i].id = OriginalId(r)
    BY <1>3, JournalAssumption
  <2> QED
    BY <1>3, <2>1, <2>2, BaselineFacts DEF RootAt, IdsOf
<1>4. CASE i \notin DOMAIN Baseline
  <2> DEFINE k == i - Len(Baseline)
  <2>1. k \in DOMAIN acts /\ ~(i <= Len(Baseline))
    BY <1>2, <1>4, BaselineFacts
  <2>2. Parts(acts)[i] = IF IsDraw(acts[k]) /\ acts[k].active
                         THEN RenderStroke(acts, acts[k].stroke) ELSE <<>>
    BY <1>2, <2>1 DEF DrawnParts
  <2> HIDE DEF k
  <2>3. IsDraw(acts[k]) /\ Parts(acts)[i] = RenderStroke(acts, acts[k].stroke)
    BY <2>2
  <2>4. acts[k].stroke \in Stroke /\ acts[k].stroke.id \in DrawnIn(acts)
    BY <1>1, <2>1, <2>3, ActionFacts DEF DrawnIn
  <2>5. Len(acts[k].stroke.points) <= MaxStrokePoints /\ \E r \in RootId : acts[k].stroke.id = OriginalId(r)
    BY <2>1, <2>3 DEF RootsAreApart
  <2> QED
    BY <1>4, <2>1, <2>3, <2>4, <2>5 DEF RootAt, k
<1> QED
  BY <1>3, <1>4

(* Two parts of the page with something in them have different roots.      *)
LEMMA RootsDiffer ==
  ASSUME NEW acts, RootsAreApart(acts), NEW i \in DOMAIN Parts(acts), NEW j \in DOMAIN Parts(acts),
         Parts(acts)[i] # <<>>, Parts(acts)[j] # <<>>, RootAt(acts, i).id = RootAt(acts, j).id
  PROVE  i = j
<1>1. /\ RootAt(acts, i).id \in IF i \in DOMAIN Baseline THEN IdsOf(Baseline) ELSE DrawnIn(acts)
      /\ RootAt(acts, j).id \in IF j \in DOMAIN Baseline THEN IdsOf(Baseline) ELSE DrawnIn(acts)
      /\ i \notin DOMAIN Baseline => /\ i - Len(Baseline) \in DOMAIN acts
                                     /\ IsDraw(acts[i - Len(Baseline)])
      /\ j \notin DOMAIN Baseline => /\ j - Len(Baseline) \in DOMAIN acts
                                     /\ IsDraw(acts[j - Len(Baseline)])
  BY PartFacts
<1>2. DrawnIn(acts) \cap IdsOf(Baseline) = {}
  BY DEF RootsAreApart, DrawnIn
<1>3. CASE i \in DOMAIN Baseline /\ j \in DOMAIN Baseline
  BY <1>3, JournalAssumption DEF RootAt, Distinct
<1>4. CASE i \notin DOMAIN Baseline /\ j \notin DOMAIN Baseline
  <2>1. i - Len(Baseline) = j - Len(Baseline)
    BY <1>1, <1>4 DEF RootAt, RootsAreApart
  <2>2. i \in Nat /\ j \in Nat /\ Len(Baseline) \in Nat
    <3>1. Parts(acts) \in Seq(Seq(Stroke))
      BY PartsSeq DEF RootsAreApart
    <3> QED
      BY <3>1, LenProperties, BaselineFacts
  <2> QED
    BY <2>1, <2>2
<1> QED
  BY <1>1, <1>2, <1>3, <1>4

(* What the recorded actions render to is a page of strokes with names of  *)
(* their own, none longer than a stroke may be.                            *)
LEMMA RenderedFacts ==
  ASSUME NEW acts, RootsAreApart(acts)
  PROVE  LET page == RenderedStrokes(acts)
         IN  /\ page \in Seq(Stroke) /\ Distinct(page)
             /\ \A k \in DOMAIN page :
                  /\ Len(page[k].points) <= MaxStrokePoints
                  /\ page[k].id[2] # {} \/ page[k].id \in IdsOf(Baseline) \cup DrawnIn(acts)
<1> DEFINE page == RenderedStrokes(acts)
<1>1. page = FlattenSeq(Parts(acts)) /\ acts \in Seq(Action)
  BY DEF RenderedStrokes, Parts, BaselineParts, DrawnParts, RootsAreApart
<1>2. Parts(acts) \in Seq(Seq(Stroke))
  BY <1>1, PartsSeq
<1>3. page \in Seq(Stroke) /\ \E at : Origins(Parts(acts), at)
  BY <1>1, <1>2, FlattenFacts
<1> HIDE DEF page
<1>4. PICK at : Origins(Parts(acts), at)
  BY <1>3
<1>5. /\ \A j, k \in DOMAIN page : at[j] = at[k] => j = k
      /\ \A j \in DOMAIN page : \E i \in DOMAIN Parts(acts) : \E k \in DOMAIN Parts(acts)[i] :
           at[j] = <<i, k>> /\ page[j] = Parts(acts)[i][k]
  BY <1>1, <1>4 DEF Origins
<1>6. ASSUME NEW i \in DOMAIN Parts(acts), NEW k \in DOMAIN Parts(acts)[i]
      PROVE  /\ Parts(acts)[i] # <<>> /\ Parts(acts)[i] = RenderStroke(acts, RootAt(acts, i))
             /\ Piece(RootAt(acts, i), Parts(acts)[i][k]) /\ Distinct(Parts(acts)[i])
  <2>1. Parts(acts)[i] # <<>>
    BY <1>6
  <2>2. Parts(acts)[i] = RenderStroke(acts, RootAt(acts, i)) /\ RootAt(acts, i) \in Stroke
    BY <2>1, PartFacts
  <2> QED
    BY <1>1, <2>1, <2>2, RenderStrokeFacts
<1>7. ASSUME NEW j \in DOMAIN page, NEW l \in DOMAIN page, page[j].id = page[l].id
      PROVE  j = l
  <2>a. PICK a \in DOMAIN Parts(acts) : \E k \in DOMAIN Parts(acts)[a] :
          at[j] = <<a, k>> /\ page[j] = Parts(acts)[a][k]
    BY <1>5
  <2>1. PICK x \in DOMAIN Parts(acts)[a] : at[j] = <<a, x>> /\ page[j] = Parts(acts)[a][x]
    BY <2>a
  <2>b. PICK b \in DOMAIN Parts(acts) : \E k \in DOMAIN Parts(acts)[b] :
          at[l] = <<b, k>> /\ page[l] = Parts(acts)[b][k]
    BY <1>5
  <2>2. PICK y \in DOMAIN Parts(acts)[b] : at[l] = <<b, y>> /\ page[l] = Parts(acts)[b][y]
    BY <2>b
  <2>3. RootAt(acts, a).id[1] = RootAt(acts, b).id[1]
    BY <1>6, <1>7, <2>1, <2>2 DEF Piece
  <2>4. RootAt(acts, a).id = RootAt(acts, b).id
    <3>1. PICK r \in RootId : RootAt(acts, a).id = OriginalId(r)
      BY <1>6, PartFacts
    <3>2. PICK s \in RootId : RootAt(acts, b).id = OriginalId(s)
      BY <1>6, PartFacts
    <3> QED
      BY <2>3, <3>1, <3>2 DEF OriginalId
  <2>5. a = b
    BY <1>6, <2>4, RootsDiffer
  <2>6. x = y
    BY <1>6, <1>7, <2>1, <2>2, <2>5 DEF Distinct
  <2> QED
    BY <1>5, <2>1, <2>2, <2>5, <2>6
<1>8. ASSUME NEW j \in DOMAIN page
      PROVE  /\ Len(page[j].points) <= MaxStrokePoints
             /\ page[j].id[2] # {} \/ page[j].id \in IdsOf(Baseline) \cup DrawnIn(acts)
  <2>a. PICK a \in DOMAIN Parts(acts) :
          \E k \in DOMAIN Parts(acts)[a] : page[j] = Parts(acts)[a][k]
    BY <1>5
  <2>1. PICK x \in DOMAIN Parts(acts)[a] : page[j] = Parts(acts)[a][x]
    BY <2>a
  <2> DEFINE root == RootAt(acts, a)
  <2>2. Piece(root, page[j])
    BY <1>6, <2>1
  <2>3. /\ Len(root.points) <= MaxStrokePoints /\ root \in Stroke
        /\ root.id \in IdsOf(Baseline) \cup DrawnIn(acts)
    BY <1>6, PartFacts
  <2> HIDE DEF root
  <2>4. Len(page[j].points) \in Nat /\ Len(root.points) \in Nat /\ MaxStrokePoints \in Nat
    BY <2>2, <2>3, LenProperties, JournalAssumption DEF Piece, Stroke
  <2> QED
    BY <2>2, <2>3, <2>4 DEF Piece
<1> QED
  BY <1>3, <1>7, <1>8 DEF Distinct, page

-----------------------------------------------------------------------------
(* Rendering depends on the erasers of a root alone.                       *)
Fragments(root, rubbed, names) ==
  LET kept    == {i \in DOMAIN root.points : root.points[i] \notin rubbed}
      stop(i) == CHOOSE e \in kept : i .. e \subseteq kept /\ e + 1 \notin kept
      run(i)  == [id     |-> <<root.id[1], names, i>>,
                  author |-> root.author,
                  points |-> SubSeq(root.points, i, stop(i))]
  IN  FlattenSeq([i \in DOMAIN root.points |->
        IF i \in kept /\ i - 1 \notin kept THEN <<run(i)>> ELSE <<>>])

(* What is left of a root, in terms of its erasers alone.                  *)
LEMMA RenderStrokeDef ==
  ASSUME NEW acts, NEW root
  PROVE  LET erasers == ErasersOf(acts, root.id)
         IN  RenderStroke(acts, root) =
               IF erasers = {} THEN <<root>>
               ELSE Fragments(root, UNION {acts[i].region : i \in erasers}, {acts[k].id : k \in erasers})
  BY DEF RenderStroke, Fragments

(* Two histories with the same erasers of a root leave the same of it.     *)
LEMMA SameErasersRender ==
  ASSUME NEW acts, NEW new, NEW root, ErasersOf(new, root.id) = ErasersOf(acts, root.id),
         \A i \in ErasersOf(acts, root.id) : new[i].region = acts[i].region /\ new[i].id = acts[i].id
  PROVE  RenderStroke(new, root) = RenderStroke(acts, root)
<1> DEFINE erasers == ErasersOf(acts, root.id)
<1>1. \A i \in erasers : new[i].region = acts[i].region /\ new[i].id = acts[i].id
  OBVIOUS
<1>2. RenderStroke(new, root) =
        IF erasers = {} THEN <<root>>
        ELSE Fragments(root, UNION {new[i].region : i \in erasers}, {new[k].id : k \in erasers})
  BY RenderStrokeDef
<1>3. RenderStroke(acts, root) =
        IF erasers = {} THEN <<root>>
        ELSE Fragments(root, UNION {acts[i].region : i \in erasers}, {acts[k].id : k \in erasers})
  BY RenderStrokeDef
<1> HIDE DEF erasers
<1>4. /\ {new[i].region : i \in erasers} = {acts[i].region : i \in erasers}
      /\ {new[k].id : k \in erasers} = {acts[k].id : k \in erasers}
  BY <1>1
<1>5. Fragments(root, UNION {new[i].region : i \in erasers}, {new[k].id : k \in erasers})
        = Fragments(root, UNION {acts[i].region : i \in erasers}, {acts[k].id : k \in erasers})
  BY <1>4
<1> QED
  BY <1>2, <1>3, <1>5

(* A committed stroke is put at the end of the page, and nothing else       *)
(* changes: no eraser before it can have been meant for it.                *)
LEMMA CommitRenders ==
  ASSUME NEW acts \in Seq(Action), NEW d \in Draw, d.active = TRUE,
         \A i \in DOMAIN acts : IsErase(acts[i]) => d.stroke.id \notin acts[i].targets
  PROVE  RenderedStrokes(Append(acts, d)) = Append(RenderedStrokes(acts), d.stroke)
<1> DEFINE new == Append(acts, d)
<1>1. d \in Action /\ d.stroke \in Stroke /\ IsDraw(d) /\ ~IsErase(d)
  BY DEF Action, Draw, IsDraw, IsErase
<1>2. /\ new \in Seq(Action) /\ DOMAIN new = 1 .. Len(acts) + 1 /\ Len(acts) \in Nat
      /\ DOMAIN acts = 1 .. Len(acts) /\ Len(new) = Len(acts) + 1
      /\ \A i \in DOMAIN acts : new[i] = acts[i] /\ i \in DOMAIN new
      /\ new[Len(acts) + 1] = d
  BY <1>1, AppendFacts, LenProperties
<1> HIDE DEF new
<1>3. \A i \in DOMAIN new : i \in DOMAIN acts \/ i = Len(acts) + 1
  BY <1>2
<1>4. ASSUME NEW id  PROVE ErasersOf(new, id) = ErasersOf(acts, id)
  <2>1. \A i \in ErasersOf(new, id) : i \in ErasersOf(acts, id)
    BY <1>1, <1>2, <1>3 DEF ErasersOf
  <2>2. \A i \in ErasersOf(acts, id) : i \in ErasersOf(new, id)
    BY <1>2 DEF ErasersOf
  <2> QED
    BY <2>1, <2>2
<1>5. ASSUME NEW root  PROVE RenderStroke(new, root) = RenderStroke(acts, root)
  <2>1. \A i \in ErasersOf(acts, root.id) : new[i] = acts[i]
    BY <1>2 DEF ErasersOf
  <2> QED
    BY <1>4, <2>1, SameErasersRender
<1>6. BaselineParts(new) = BaselineParts(acts)
  BY <1>5 DEF BaselineParts
<1>7. RenderStroke(new, d.stroke) = <<d.stroke>>
  <2>1. ErasersOf(acts, d.stroke.id) = {}
    BY DEF ErasersOf
  <2> QED
    BY <1>5, <2>1, RenderStrokeDef
<1>8. DrawnParts(new) = Append(DrawnParts(acts), <<d.stroke>>)
  <2>1. <<d.stroke>> \in Seq(Stroke)
    BY <1>1
  <2>2. /\ DrawnParts(acts) \in Seq(Seq(Stroke)) /\ Len(DrawnParts(acts)) = Len(acts)
        /\ DrawnParts(new) \in Seq(Seq(Stroke)) /\ Len(DrawnParts(new)) = Len(acts) + 1
    BY <1>2, PartsSeq
  <2>3. /\ Append(DrawnParts(acts), <<d.stroke>>) \in Seq(Seq(Stroke))
        /\ Len(Append(DrawnParts(acts), <<d.stroke>>)) = Len(acts) + 1
        /\ \A i \in 1 .. Len(acts) : Append(DrawnParts(acts), <<d.stroke>>)[i] = DrawnParts(acts)[i]
        /\ Append(DrawnParts(acts), <<d.stroke>>)[Len(acts) + 1] = <<d.stroke>>
    BY <2>1, <2>2, AppendProperties
  <2>4. \A i \in 1 .. Len(acts) : DrawnParts(new)[i] = DrawnParts(acts)[i]
    BY <1>2, <1>5 DEF DrawnParts
  <2>5. DrawnParts(new)[Len(acts) + 1] = <<d.stroke>>
    BY <1>1, <1>2, <1>7 DEF DrawnParts
  <2>6. \A i \in 1 .. Len(acts) + 1 :
          DrawnParts(new)[i] = Append(DrawnParts(acts), <<d.stroke>>)[i]
    <3> TAKE i \in 1 .. Len(acts) + 1
    <3>1. i \in 1 .. Len(acts) \/ i = Len(acts) + 1
      BY <1>2
    <3> QED
      BY <2>3, <2>4, <2>5, <3>1
  <2> QED
    BY <2>2, <2>3, <2>6, SeqEqual
<1>9. <<d.stroke>> \in Seq(Stroke) /\ Parts(acts) \in Seq(Seq(Stroke))
  BY <1>1, PartsSeq
<1>10. Parts(new) = Append(Parts(acts), <<d.stroke>>)
  BY <1>6, <1>8, <1>9, PartsSeq, ConcatAppend DEF Parts
<1>11. FlattenSeq(Parts(acts)) \in Seq(Stroke)
  BY <1>9, FlattenFacts
<1>12. FlattenSeq(Parts(new)) = FlattenSeq(Parts(acts)) \o <<d.stroke>>
  BY <1>9, <1>10, <1>11, FlattenAppend
<1>13. FlattenSeq(Parts(new)) = Append(FlattenSeq(Parts(acts)), d.stroke)
  BY <1>1, <1>11, <1>12, AppendIsConcat
<1> QED
  BY <1>13 DEF RenderedStrokes, Parts, BaselineParts, DrawnParts, new

-----------------------------------------------------------------------------
(* What the history records, and how much it grows by an action.           *)
DrawnPoints(acts) == [i \in DOMAIN acts |-> IF IsDraw(acts[i]) THEN acts[i].stroke.points ELSE <<>>]

(* The points of the drawn roots are counted stroke by stroke.             *)
LEMMA DrawnPointsSeq ==
  ASSUME NEW acts \in Seq(Action)
  PROVE  /\ DrawnPoints(acts) \in Seq(Seq(Cell)) /\ Len(DrawnPoints(acts)) = Len(acts)
         /\ RecordedPoints(acts) = PointTotal(Baseline) + Len(FlattenSeq(DrawnPoints(acts)))
         /\ Len(FlattenSeq(DrawnPoints(acts))) \in Nat /\ RecordedPoints(acts) \in Nat
<1>1. /\ Len(acts) \in Nat /\ DOMAIN acts = 1 .. Len(acts)
      /\ \A i \in DOMAIN acts : IsDraw(acts[i]) => acts[i].stroke.points \in Seq(Cell)
  BY ActionFacts DEF Stroke
<1>2. <<>> \in Seq(Cell)
  BY EmptySeq
<1>3. DrawnPoints(acts) \in [1 .. Len(acts) -> Seq(Cell)]
  BY <1>1, <1>2 DEF DrawnPoints
<1>4. DrawnPoints(acts) \in Seq(Seq(Cell)) /\ Len(DrawnPoints(acts)) = Len(acts)
  BY <1>1, <1>3
<1>5. FlattenSeq(DrawnPoints(acts)) \in Seq(Cell)
  BY <1>4, FlattenFacts
<1>6. Len(FlattenSeq(DrawnPoints(acts))) \in Nat
  BY <1>5, LenProperties
<1>7. RecordedPoints(acts) = PointTotal(Baseline) + Len(FlattenSeq(DrawnPoints(acts)))
  BY DEF RecordedPoints, DrawnPoints
<1> QED
  BY <1>4, <1>6, <1>7, BaselineFacts

(* A new action adds the points of the stroke that it draws.               *)
LEMMA RecordedPointsGrow ==
  ASSUME NEW acts \in Seq(Action), NEW a \in Action
  PROVE  RecordedPoints(Append(acts, a)) =
           RecordedPoints(acts) + (IF IsDraw(a) THEN Len(a.stroke.points) ELSE 0)
<1> DEFINE new == Append(acts, a)
           points == IF IsDraw(a) THEN a.stroke.points ELSE <<>>
<1>1. /\ new \in Seq(Action) /\ DOMAIN new = 1 .. Len(acts) + 1 /\ Len(acts) \in Nat
      /\ DOMAIN acts = 1 .. Len(acts) /\ Len(new) = Len(acts) + 1
      /\ \A i \in DOMAIN acts : new[i] = acts[i]
      /\ new[Len(acts) + 1] = a
  BY AppendFacts, LenProperties
<1> HIDE DEF new
<1>2. points \in Seq(Cell)
  <2>1. IsDraw(a) => a.stroke.points \in Seq(Cell)
    BY DEF Action, Draw, Erasure, IsDraw, Stroke
  <2> QED
    BY <2>1, EmptySeq
<1>3. IsDraw(a) => Len(points) = Len(a.stroke.points)
  OBVIOUS
<1>4. ~IsDraw(a) => Len(points) = 0
  BY EmptySeq
<1>5. DrawnPoints(new)[Len(acts) + 1] = points
  BY <1>1 DEF DrawnPoints
<1> HIDE DEF points
<1>6. DrawnPoints(new) = Append(DrawnPoints(acts), points)
  <2>1. /\ DrawnPoints(acts) \in Seq(Seq(Cell)) /\ Len(DrawnPoints(acts)) = Len(acts)
        /\ DrawnPoints(new) \in Seq(Seq(Cell)) /\ Len(DrawnPoints(new)) = Len(acts) + 1
    BY <1>1, DrawnPointsSeq
  <2>2. /\ Append(DrawnPoints(acts), points) \in Seq(Seq(Cell))
        /\ Len(Append(DrawnPoints(acts), points)) = Len(acts) + 1
        /\ \A i \in 1 .. Len(acts) : Append(DrawnPoints(acts), points)[i] = DrawnPoints(acts)[i]
        /\ Append(DrawnPoints(acts), points)[Len(acts) + 1] = points
    BY <1>2, <2>1, AppendProperties
  <2>3. \A i \in 1 .. Len(acts) : DrawnPoints(new)[i] = DrawnPoints(acts)[i]
    BY <1>1 DEF DrawnPoints
  <2>4. \A i \in 1 .. Len(acts) + 1 : DrawnPoints(new)[i] = Append(DrawnPoints(acts), points)[i]
    <3> TAKE i \in 1 .. Len(acts) + 1
    <3>1. i \in 1 .. Len(acts) \/ i = Len(acts) + 1
      BY <1>1
    <3> QED
      BY <1>5, <2>2, <2>3, <3>1
  <2> QED
    BY <2>1, <2>2, <2>4, SeqEqual
<1>7. DrawnPoints(acts) \in Seq(Seq(Cell)) /\ FlattenSeq(DrawnPoints(acts)) \in Seq(Cell)
  BY DrawnPointsSeq, FlattenFacts
<1>8. FlattenSeq(DrawnPoints(new)) = FlattenSeq(DrawnPoints(acts)) \o points
  BY <1>2, <1>6, <1>7, FlattenAppend
<1>9. Len(FlattenSeq(DrawnPoints(new))) = Len(FlattenSeq(DrawnPoints(acts))) + Len(points)
  BY <1>2, <1>7, <1>8, ConcatProperties
<1>10. /\ RecordedPoints(new) = PointTotal(Baseline) + Len(FlattenSeq(DrawnPoints(new)))
       /\ RecordedPoints(acts) = PointTotal(Baseline) + Len(FlattenSeq(DrawnPoints(acts)))
       /\ PointTotal(Baseline) \in Nat /\ Len(FlattenSeq(DrawnPoints(acts))) \in Nat
       /\ Len(points) \in Nat
  BY <1>1, <1>2, DrawnPointsSeq, BaselineFacts, LenProperties
<1>11. RecordedPoints(new) = RecordedPoints(acts) + Len(points)
  BY <1>9, <1>10
<1> QED
  BY <1>3, <1>4, <1>11 DEF new

(* The cells that were rubbed out and the roots that were targeted, each   *)
(* with the action that did it.                                            *)
Rubs(acts)  == UNION {{i} \X acts[i].region : i \in Erasures(acts)}
Marks(acts) == UNION {{i} \X acts[i].targets : i \in Erasures(acts)}
RubsAreFinite(acts) == IsFiniteSet(Rubs(acts)) /\ IsFiniteSet(Marks(acts))

(* Pairs of an index and an element are counted action by action.          *)
LEMMA PairsGrow ==
  ASSUME NEW P, IsFiniteSet(P), NEW R, IsFiniteSet(R), NEW n, \A q \in P : q[1] # n
  PROVE  /\ IsFiniteSet(P \cup ({n} \X R))
         /\ Cardinality(P \cup ({n} \X R)) = Cardinality(P) + Cardinality(R)
<1> DEFINE f == [x \in R |-> <<n, x>>]
<1>1. f \in Bijection(R, {n} \X R)
  <2>1. f \in [R -> {n} \X R]
    OBVIOUS
  <2>2. IsInjective(f)
    BY DEF IsInjective
  <2>3. \A t \in {n} \X R : \E s \in R : f[s] = t
    OBVIOUS
  <2> QED
    BY <2>1, <2>2, <2>3 DEF Bijection, Injection, Surjection
<1>2. IsFiniteSet({n} \X R) /\ Cardinality({n} \X R) = Cardinality(R)
  BY <1>1, FS_Bijection DEF ExistsBijection
<1>3. P \cap ({n} \X R) = {}
  <2>1. \A q \in {n} \X R : q[1] = n
    OBVIOUS
  <2> QED
    BY <2>1
<1>4. Cardinality(P \cap ({n} \X R)) = 0
  BY <1>3, FS_EmptySet
<1>5. Cardinality(P) \in Nat /\ Cardinality(R) \in Nat
  BY FS_CardinalityType
<1> DEFINE Q == {n} \X R
<1>6. IsFiniteSet(Q) /\ Cardinality(Q) = Cardinality(R) /\ Cardinality(P \cap Q) = 0
  BY <1>2, <1>4
<1> HIDE DEF Q
<1>7. IsFiniteSet(P \cup Q) /\ Cardinality(P \cup Q) = Cardinality(P) + Cardinality(Q) - Cardinality(P \cap Q)
  BY <1>6, FS_Union
<1>8. Cardinality(P \cup Q) = Cardinality(P) + Cardinality(R)
  BY <1>5, <1>6, <1>7
<1> QED
  BY <1>7, <1>8 DEF Q

(* A new eraser adds its cells and its targets to the counts.              *)
LEMMA RecordedGrow ==
  ASSUME NEW acts \in Seq(Action), NEW a \in Action, RubsAreFinite(acts),
         IsErase(a) => IsFiniteSet(a.region) /\ IsFiniteSet(a.targets)
  PROVE  /\ RubsAreFinite(Append(acts, a))
         /\ RecordedRubs(Append(acts, a)) =
              RecordedRubs(acts) + (IF IsErase(a) THEN Cardinality(a.region) ELSE 0)
         /\ RecordedTargets(Append(acts, a)) =
              RecordedTargets(acts) + (IF IsErase(a) THEN Cardinality(a.targets) ELSE 0)
<1> DEFINE new == Append(acts, a)
           n   == Len(acts) + 1
<1>1. /\ DOMAIN new = 1 .. n /\ Len(acts) \in Nat /\ DOMAIN acts = 1 .. Len(acts)
      /\ \A i \in DOMAIN acts : new[i] = acts[i] /\ i \in DOMAIN new
      /\ new[n] = a /\ n \in DOMAIN new /\ n \notin DOMAIN acts
      /\ \A i \in DOMAIN new : i \in DOMAIN acts \/ i = n
  BY AppendFacts, LenProperties
<1> HIDE DEF new, n
<1>2. /\ Erasures(acts) \subseteq DOMAIN acts
      /\ Erasures(new) = IF IsErase(a) THEN Erasures(acts) \cup {n} ELSE Erasures(acts)
  BY <1>1 DEF Erasures
<1>3. /\ \A q \in Rubs(acts) : q[1] # n
      /\ \A q \in Marks(acts) : q[1] # n
  BY <1>1, <1>2 DEF Rubs, Marks
<1>4. CASE IsErase(a)
  <2>1. {{i} \X new[i].region : i \in Erasures(new)}
          = {{i} \X acts[i].region : i \in Erasures(acts)} \cup {{n} \X a.region}
    BY <1>1, <1>2, <1>4
  <2>2. {{i} \X new[i].targets : i \in Erasures(new)}
          = {{i} \X acts[i].targets : i \in Erasures(acts)} \cup {{n} \X a.targets}
    BY <1>1, <1>2, <1>4
  <2>3. Rubs(new) = Rubs(acts) \cup ({n} \X a.region)
    BY <2>1 DEF Rubs
  <2>4. Marks(new) = Marks(acts) \cup ({n} \X a.targets)
    BY <2>2 DEF Marks
  <2>5. /\ IsFiniteSet(Rubs(new))
        /\ Cardinality(Rubs(new)) = Cardinality(Rubs(acts)) + Cardinality(a.region)
    <3>1. IsFiniteSet(Rubs(acts)) /\ IsFiniteSet(a.region)
      BY <1>4 DEF RubsAreFinite
    <3>2. \A q \in Rubs(acts) : q[1] # n
      BY <1>3
    <3>3. /\ IsFiniteSet(Rubs(acts) \cup ({n} \X a.region))
          /\ Cardinality(Rubs(acts) \cup ({n} \X a.region))
               = Cardinality(Rubs(acts)) + Cardinality(a.region)
      BY <3>1, <3>2, PairsGrow
    <3> QED
      BY <2>3, <3>3
  <2>6. /\ IsFiniteSet(Marks(new))
        /\ Cardinality(Marks(new)) = Cardinality(Marks(acts)) + Cardinality(a.targets)
    <3>1. IsFiniteSet(Marks(acts)) /\ IsFiniteSet(a.targets)
      BY <1>4 DEF RubsAreFinite
    <3>2. \A q \in Marks(acts) : q[1] # n
      BY <1>3
    <3>3. /\ IsFiniteSet(Marks(acts) \cup ({n} \X a.targets))
          /\ Cardinality(Marks(acts) \cup ({n} \X a.targets))
               = Cardinality(Marks(acts)) + Cardinality(a.targets)
      BY <3>1, <3>2, PairsGrow
    <3> QED
      BY <2>4, <3>3
  <2> QED
    BY <1>4, <2>5, <2>6 DEF RubsAreFinite, RecordedRubs, RecordedTargets, Rubs, Marks, new
<1>5. CASE ~IsErase(a)
  <2>1. /\ {{i} \X new[i].region : i \in Erasures(new)}
             = {{i} \X acts[i].region : i \in Erasures(acts)}
        /\ {{i} \X new[i].targets : i \in Erasures(new)}
             = {{i} \X acts[i].targets : i \in Erasures(acts)}
    BY <1>1, <1>2, <1>5
  <2>2. Rubs(new) = Rubs(acts) /\ Marks(new) = Marks(acts)
    BY <2>1 DEF Rubs, Marks
  <2>3. Cardinality(Rubs(acts)) \in Nat /\ Cardinality(Marks(acts)) \in Nat
    BY FS_CardinalityType DEF RubsAreFinite
  <2>4. /\ RecordedRubs(new) = Cardinality(Rubs(new)) /\ RecordedRubs(acts) = Cardinality(Rubs(acts))
        /\ RecordedTargets(new) = Cardinality(Marks(new))
        /\ RecordedTargets(acts) = Cardinality(Marks(acts))
    BY DEF RecordedRubs, RecordedTargets, Rubs, Marks
  <2>5. RubsAreFinite(new)
    BY <2>2 DEF RubsAreFinite
  <2>6. /\ RecordedRubs(new) = RecordedRubs(acts) + 0
        /\ RecordedTargets(new) = RecordedTargets(acts) + 0
    BY <2>2, <2>3, <2>4
  <2> QED
    BY <1>5, <2>5, <2>6 DEF new
<1> QED
  BY <1>4, <1>5

(* Undo and redo record nothing new.                                       *)
LEMMA RecordedStays ==
  ASSUME NEW acts \in Seq(Action), NEW id, NEW flag \in BOOLEAN
  PROVE  LET new == SetActive(acts, id, flag)
         IN  /\ Len(new) = Len(acts)
             /\ RecordedPoints(new) = RecordedPoints(acts)
             /\ RecordedRubs(new) = RecordedRubs(acts)
             /\ RecordedTargets(new) = RecordedTargets(acts)
             /\ RubsAreFinite(acts) => RubsAreFinite(new)
<1> DEFINE new == SetActive(acts, id, flag)
<1>1. /\ new \in Seq(Action) /\ DOMAIN new = DOMAIN acts
      /\ \A i \in DOMAIN acts :
           /\ IsDraw(new[i]) = IsDraw(acts[i]) /\ IsErase(new[i]) = IsErase(acts[i])
           /\ IsDraw(acts[i]) => new[i].stroke = acts[i].stroke
           /\ IsErase(acts[i]) => /\ new[i].targets = acts[i].targets
                                  /\ new[i].region = acts[i].region
  BY SetActiveFacts
<1> HIDE DEF new
<1>2. Len(new) = Len(acts)
  <2>1. Len(new) \in Nat /\ Len(acts) \in Nat /\ 1 .. Len(new) = 1 .. Len(acts)
    BY <1>1, LenProperties
  <2>2. Len(new) > Len(acts) => Len(new) \in 1 .. Len(new) /\ Len(new) \notin 1 .. Len(acts)
    BY <2>1
  <2>3. Len(acts) > Len(new) => Len(acts) \in 1 .. Len(acts) /\ Len(acts) \notin 1 .. Len(new)
    BY <2>1
  <2> QED
    BY <2>1, <2>2, <2>3
<1>3. DrawnPoints(new) = DrawnPoints(acts)
  <2>1. \A i \in DOMAIN acts : (IF IsDraw(new[i]) THEN new[i].stroke.points ELSE <<>>)
                                 = (IF IsDraw(acts[i]) THEN acts[i].stroke.points ELSE <<>>)
    BY <1>1
  <2> QED
    BY <1>1, <2>1 DEF DrawnPoints
<1>4. RecordedPoints(new) = RecordedPoints(acts)
  BY <1>1, <1>3, DrawnPointsSeq
<1>5. Erasures(new) = Erasures(acts)
  BY <1>1 DEF Erasures
<1>6. \A i \in Erasures(acts) : new[i].targets = acts[i].targets /\ new[i].region = acts[i].region
  BY <1>1 DEF Erasures
<1>7. Rubs(new) = Rubs(acts) /\ Marks(new) = Marks(acts)
  <2>1. /\ {{i} \X new[i].region : i \in Erasures(new)}
             = {{i} \X acts[i].region : i \in Erasures(acts)}
        /\ {{i} \X new[i].targets : i \in Erasures(new)}
             = {{i} \X acts[i].targets : i \in Erasures(acts)}
    BY <1>5, <1>6
  <2> QED
    BY <2>1 DEF Rubs, Marks
<1> QED
  BY <1>2, <1>4, <1>7 DEF RubsAreFinite, RecordedRubs, RecordedTargets, Rubs, Marks, new

(* The roots are finitely many, and so are the targets of an eraser.       *)
LEMMA TargetsAreFinite ==
  ASSUME NEW acts \in Seq(Action), NEW p, NEW region
  PROVE  IsFiniteSet(EraserTargets(acts, p, region))
<1> DEFINE first  == [i \in DOMAIN Baseline |-> Baseline[i].id]
           drawn  == {i \in DOMAIN acts : IsDraw(acts[i])}
           second == [i \in drawn |-> acts[i].stroke.id]
<1>1. \A root \in ActiveRoots(acts) : root.id \in IdsOf(Baseline) \cup DrawnIn(acts)
  BY DEF ActiveRoots, IdsOf, DrawnIn, Range
<1>2. EraserTargets(acts, p, region) \subseteq IdsOf(Baseline) \cup DrawnIn(acts)
  BY <1>1 DEF EraserTargets
<1>3. IsFiniteSet(DOMAIN Baseline) /\ IsFiniteSet(drawn)
  <2>1. IsFiniteSet(1 .. Len(Baseline)) /\ IsFiniteSet(1 .. Len(acts))
    BY BaselineFacts, ActionFacts, FS_Interval
  <2>2. DOMAIN Baseline = 1 .. Len(Baseline) /\ drawn \subseteq 1 .. Len(acts)
    BY BaselineFacts, ActionFacts
  <2> QED
    BY <2>1, <2>2, FS_Subset
<1>4. first \in Surjection(DOMAIN Baseline, IdsOf(Baseline))
  BY DEF Surjection, IdsOf
<1>5. second \in Surjection(drawn, DrawnIn(acts))
  BY DEF Surjection, DrawnIn
<1>6. IsFiniteSet(IdsOf(Baseline)) /\ IsFiniteSet(DrawnIn(acts))
  BY <1>3, <1>4, <1>5, FS_Surjection
<1> QED
  BY <1>2, <1>6, FS_Union, FS_Subset

-----------------------------------------------------------------------------
(* The page.                                                               *)

(* No stroke is longer than a stroke may be, and no page or history larger: *)
(* what makes PageIsReloadable inductive, besides HistoryInv. That no two  *)
(* strokes of the page share an id needs no conjunct: it follows from      *)
(* PageIsRendered and IdsAreFresh.                                         *)
StrokesAreShort ==
  /\ \A i \in DOMAIN active : Len(active[i].points) <= MaxStrokePoints
  /\ \A i \in DOMAIN actions : IsDraw(actions[i]) =>
       Len(actions[i].stroke.points) <= MaxStrokePoints

PageFits    == FitsOnPage(strokes, active)
HistoryFits == RubsAreFinite(actions) /\ HistoryIsWithinLimits
PageBounds  == StrokesAreShort /\ PageIsRendered /\ CountsMatchPage /\ PageFits /\ HistoryFits
PageInv     == HistoryInv /\ PageBounds

(* The limits are numbers.                                                 *)
LEMMA LimitFacts ==
  /\ MaxStrokePoints \in Nat /\ MaxPagePoints \in Nat /\ MaxStrokes \in Nat /\ MaxActions \in Nat
  /\ MaxRecordedPoints \in Nat /\ MaxRecordedRubs \in Nat /\ MaxRecordedTargets \in Nat
  BY JournalAssumption

(* The invariant of the history keeps its roots apart.                     *)
LEMMA HistoryRootsAreApart ==
  ASSUME HistoryInv, StrokesAreShort
  PROVE  actions \in Seq(Action) /\ RootsAreApart(actions) /\ DrawnIn(actions) = DrawnIds
<1>1. actions \in Seq(Action)
  BY DEF HistoryInv, HistoryTypeOK, Action
<1>2. ASSUME NEW i \in DOMAIN actions, IsDraw(actions[i])
      PROVE  /\ Len(actions[i].stroke.points) <= MaxStrokePoints
             /\ \E r \in RootId : actions[i].stroke.id = OriginalId(r)
             /\ actions[i].stroke.id \notin IdsOf(Baseline)
             /\ \A j \in DOMAIN actions :
                  IsDraw(actions[j]) /\ actions[j].stroke.id = actions[i].stroke.id => i = j
  <2>1. actions[i].stroke.id \in DrawnIds
    BY <1>2 DEF DrawnIds
  <2>2. \E r \in RootId : actions[i].stroke.id = OriginalId(r)
    BY <2>1 DEF HistoryInv, HistoryTypeOK, IdsAreFresh
  <2> QED
    BY <1>2, <2>2 DEF HistoryInv, HistoryIsValid, RootIdsAreDistinct, StrokesAreShort
<1> QED
  BY <1>1, <1>2 DEF RootsAreApart, DrawnIn, DrawnIds

(* Undo and redo keep the roots of a history.                              *)
LEMMA SetActiveKeepsRoots ==
  ASSUME NEW acts, RootsAreApart(acts), NEW id, NEW flag \in BOOLEAN
  PROVE  /\ RootsAreApart(SetActive(acts, id, flag))
         /\ DrawnIn(SetActive(acts, id, flag)) = DrawnIn(acts)
<1> DEFINE new == SetActive(acts, id, flag)
<1>1. acts \in Seq(Action)
  BY DEF RootsAreApart
<1>2. /\ new \in Seq(Action) /\ DOMAIN new = DOMAIN acts
      /\ \A i \in DOMAIN acts : /\ IsDraw(new[i]) = IsDraw(acts[i])
                                /\ IsDraw(acts[i]) => new[i].stroke = acts[i].stroke
  BY <1>1, SetActiveFacts
<1> HIDE DEF new
<1>3. RootsAreApart(new)
  BY <1>2 DEF RootsAreApart
<1>4. DrawnIn(new) = DrawnIn(acts)
  <2>1. \A x \in DrawnIn(new) : x \in DrawnIn(acts)
    BY <1>2 DEF DrawnIn
  <2>2. \A x \in DrawnIn(acts) : x \in DrawnIn(new)
    BY <1>2 DEF DrawnIn
  <2> QED
    BY <2>1, <2>2
<1> QED
  BY <1>3, <1>4 DEF new

(* A page that the history could render to is valid if it is small enough. *)
LEMMA RenderedIsValid ==
  ASSUME HistoryInv, StrokesAreShort,
         NEW acts, RootsAreApart(acts), DrawnIn(acts) = DrawnIds
  PROVE  RenderedStrokes(acts) \in Seq(Stroke) /\ CanBecome(RenderedStrokes(acts))
<1> DEFINE page == RenderedStrokes(acts)
           all  == page \o active
<1>1. /\ page \in Seq(Stroke) /\ Distinct(page)
      /\ \A k \in DOMAIN page :
           /\ Len(page[k].points) <= MaxStrokePoints
           /\ page[k].id[2] # {} \/ page[k].id \in IdsOf(Baseline) \cup DrawnIds
  BY RenderedFacts
<1> HIDE DEF page
<1>2. /\ active \in Seq(Stroke) /\ Distinct(active)
      /\ \A k \in DOMAIN active : /\ Len(active[k].points) <= MaxStrokePoints
                                  /\ active[k].id \notin IdsOf(Baseline) \cup DrawnIds
  BY DEF HistoryInv, HistoryTypeOK, IdsAreFresh, StrokesAreShort
<1>3. \A k \in DOMAIN active : active[k].id[2] = {}
  <2>1. \A id \in IdsOf(active) : \E r \in minted : id = OriginalId(r)
    BY DEF HistoryInv, IdsAreFresh
  <2>2. \A r \in minted : OriginalId(r)[2] = {}
    BY DEF OriginalId
  <2> QED
    BY <2>1, <2>2 DEF IdsOf
<1>4. /\ Len(page) \in Nat /\ Len(active) \in Nat
      /\ DOMAIN page = 1 .. Len(page) /\ DOMAIN active = 1 .. Len(active)
      /\ all \in Seq(Stroke) /\ Len(all) = Len(page) + Len(active)
      /\ DOMAIN all = 1 .. Len(page) + Len(active)
      /\ \A k \in 1 .. Len(page) + Len(active) :
           all[k] = IF k <= Len(page) THEN page[k] ELSE active[k - Len(page)]
  BY <1>1, <1>2, ConcatProperties, LenProperties
<1> HIDE DEF all
<1>5. ASSUME NEW k \in DOMAIN all
      PROVE  \/ k \in DOMAIN page /\ all[k] = page[k]
             \/ k - Len(page) \in DOMAIN active /\ all[k] = active[k - Len(page)] /\ k \in Nat
  BY <1>4
<1>6. \A k \in DOMAIN all : Len(all[k].points) <= MaxStrokePoints
  BY <1>1, <1>2, <1>5
<1>7. \A j \in DOMAIN page, k \in DOMAIN active : page[j].id # active[k].id
  BY <1>1, <1>2, <1>3
<1>8. ASSUME NEW j \in DOMAIN all, NEW k \in DOMAIN all, all[j].id = all[k].id
      PROVE  j = k
  <2>1. CASE /\ j \in DOMAIN page /\ all[j] = page[j]
             /\ k \in DOMAIN page /\ all[k] = page[k]
    BY <1>1, <1>8, <2>1 DEF Distinct
  <2>2. CASE /\ j - Len(page) \in DOMAIN active /\ all[j] = active[j - Len(page)] /\ j \in Nat
             /\ k - Len(page) \in DOMAIN active /\ all[k] = active[k - Len(page)] /\ k \in Nat
    <3>1. j - Len(page) = k - Len(page)
      BY <1>2, <1>8, <2>2 DEF Distinct
    <3> QED
      BY <1>4, <2>2, <3>1
  <2> QED
    BY <1>5, <1>7, <1>8, <2>1, <2>2
<1>9. Distinct(all)
  BY <1>8 DEF Distinct
<1>10. FitsOnPage(page, active) => ValidSnapshot(page, active)
  BY <1>4, <1>6, <1>9 DEF FitsOnPage, ValidSnapshot, all
<1> QED
  BY <1>1, <1>10 DEF CanBecome, page

(* What the invariant says of the page, its strokes and its roots.         *)
LEMMA PageFacts ==
  ASSUME PageInv
  PROVE  /\ strokes \in Seq(Stroke) /\ active \in Seq(Stroke)
         /\ Len(strokes) \in Nat /\ Len(active) \in Nat
         /\ DOMAIN strokes = 1 .. Len(strokes) /\ DOMAIN active = 1 .. Len(active)
         /\ PointTotal(strokes) \in Nat /\ PointTotal(active) \in Nat
         /\ \A i \in DOMAIN active : active[i] \in Stroke /\ Len(active[i].points) \in Nat
         /\ actions \in Seq(Action) /\ RootsAreApart(actions) /\ DrawnIn(actions) = DrawnIds
         /\ ValidSnapshot(strokes, active)
<1>1. HistoryInv /\ StrokesAreShort /\ PageIsRendered /\ PageFits
  BY DEF PageInv, PageBounds
<1>2. actions \in Seq(Action) /\ RootsAreApart(actions) /\ DrawnIn(actions) = DrawnIds
  BY <1>1, HistoryRootsAreApart
<1>3. strokes \in Seq(Stroke) /\ ValidSnapshot(strokes, active)
  BY <1>1, <1>2, RenderedIsValid DEF PageIsRendered, PageFits, CanBecome
<1>4. active \in Seq(Stroke)
  BY <1>1 DEF HistoryInv, HistoryTypeOK
<1>5. \A i \in DOMAIN active : active[i] \in Stroke /\ Len(active[i].points) \in Nat
  <2>1. \A i \in DOMAIN active : active[i] \in Stroke
    BY <1>4, LenProperties, ElementOfSeq
  <2> QED
    BY <2>1, LenProperties DEF Stroke
<1>6. PointTotal(strokes) \in Nat /\ PointTotal(active) \in Nat
  BY <1>3, <1>4, PointTotalNat
<1> QED
  BY <1>2, <1>3, <1>4, <1>5, <1>6, LenProperties

(* The page that is shared is within bounds.                               *)
LEMMA InitBounds == Init => PageBounds
<1> SUFFICES ASSUME Init  PROVE PageBounds
  OBVIOUS
<1>1. /\ strokes = Baseline /\ active = <<>> /\ actions = <<>>
      /\ strokeCount = Len(Baseline) /\ pointCount = PointTotal(Baseline)
  BY DEF Init
<1>2. DOMAIN active = {} /\ DOMAIN actions = {} /\ Len(active) = 0 /\ Len(actions) = 0
  BY <1>1
<1>3. StrokesAreShort
  BY <1>2 DEF StrokesAreShort
<1>4. CountsMatchPage
  BY <1>1, <1>2, PointTotalEmpty, BaselineFacts DEF CountsMatchPage
<1>5. PageFits
  BY <1>1, <1>2, PointTotalEmpty, BaselineFacts DEF PageFits, FitsOnPage
<1>6. actions \in Seq(Action)
  BY <1>1, EmptySeq
<1>7. PageIsRendered
  <2>1. \A r \in Stroke : RenderStroke(actions, r) = <<r>>
    <3> TAKE r \in Stroke
    <3>1. ErasersOf(actions, r.id) = {}
      BY <1>2 DEF ErasersOf
    <3> QED
      BY <3>1, RenderStrokeDef
  <2>2. DrawnParts(actions) = <<>>
    BY <1>6, <1>2, PartsSeq, EmptySeq
  <2>3. Parts(actions) = BaselineParts(actions) /\ BaselineParts(actions) \in Seq(Seq(Stroke))
    BY <1>6, <2>2, PartsSeq, ConcatEmptySeq DEF Parts
  <2>4. BaselineParts(actions) = [i \in DOMAIN Baseline |-> <<Baseline[i]>>]
    BY <2>1, BaselineFacts DEF BaselineParts
  <2>5. \A s \in Seq(Stroke) : FlattenSeq([i \in DOMAIN s |-> <<s[i]>>]) = s
    BY FlattenSingles
  <2>6. Baseline \in Seq(Stroke)
    BY JournalAssumption
  <2> QED
    BY <1>1, <2>3, <2>4, <2>5, <2>6 DEF PageIsRendered, RenderedStrokes, Parts, BaselineParts, DrawnParts
<1>8. HistoryFits
  <2>1. RecordedPoints(actions) = PointTotal(Baseline)
    <3>1. DrawnPoints(actions) = <<>>
      BY <1>6, <1>2, DrawnPointsSeq, EmptySeq
    <3>2. Len(FlattenSeq(DrawnPoints(actions))) = 0
      BY <3>1, FlattenEmpty, EmptySeq
    <3> QED
      BY <1>6, <3>2, DrawnPointsSeq, BaselineFacts
  <2>2. Rubs(actions) = {} /\ Marks(actions) = {}
    BY <1>2 DEF Rubs, Marks, Erasures
  <2>3. RubsAreFinite(actions) /\ RecordedRubs(actions) = 0 /\ RecordedTargets(actions) = 0
    BY <2>2, FS_EmptySet DEF RubsAreFinite, RecordedRubs, RecordedTargets, Rubs, Marks
  <2>4. PointTotal(Baseline) <= MaxRecordedPoints
    BY BaselineFacts, BaselineAssumption, LimitFacts
  <2> QED
    BY <1>2, <2>1, <2>3, <2>4, LimitFacts DEF HistoryFits, HistoryIsWithinLimits
<1> QED
  BY <1>3, <1>4, <1>5, <1>7, <1>8 DEF PageBounds

(* Beginning a stroke keeps the page within bounds.                        *)
LEMMA BeginBounds ==
  ASSUME PageInv, NEW p \in Participant, NEW c \in CommandId, NEW r \in RootId,
         BeginStroke(p, c, r)
  PROVE  PageBounds'
<1> DEFINE new == [id |-> OriginalId(r), author |-> p, points |-> <<>>]
<1>1. /\ strokeCount < MaxStrokes /\ active' = Append(active, new)
      /\ strokeCount' = strokeCount + 1
      /\ strokes' = strokes /\ pointCount' = pointCount /\ actions' = actions
  BY DEF BeginStroke, historyVars
<1>2. /\ active \in Seq(Stroke) /\ Len(active) \in Nat /\ DOMAIN active = 1 .. Len(active)
      /\ PointTotal(active) \in Nat /\ PointTotal(strokes) \in Nat /\ Len(strokes) \in Nat
  BY PageFacts
<1>3. new \in Stroke /\ Len(new.points) = 0
  BY EmptySeq DEF Stroke, StrokeId, OriginalId
<1> HIDE DEF new
<1>4. /\ Len(active') = Len(active) + 1 /\ DOMAIN active' = 1 .. Len(active) + 1
      /\ \A i \in DOMAIN active : active'[i] = active[i]
      /\ active'[Len(active) + 1] = new
  BY <1>1, <1>2, <1>3, AppendFacts
<1>5. PointTotal(active') = PointTotal(active)
  BY <1>1, <1>2, <1>3, PointTotalAppend
<1>6. StrokesAreShort'
  <2>1. \A i \in DOMAIN active' : Len(active'[i].points) <= MaxStrokePoints
    <3> TAKE i \in DOMAIN active'
    <3>1. i \in DOMAIN active \/ i = Len(active) + 1
      BY <1>2, <1>4
    <3> QED
      BY <1>3, <1>4, <3>1, LimitFacts DEF PageInv, PageBounds, StrokesAreShort
  <2> QED
    BY <1>1, <2>1 DEF PageInv, PageBounds, StrokesAreShort
<1>7. strokeCount = Len(strokes) + Len(active) /\ pointCount = PointTotal(strokes) + PointTotal(active)
  BY DEF PageInv, PageBounds, CountsMatchPage
<1>8. CountsMatchPage'
  BY <1>1, <1>2, <1>4, <1>5, <1>7 DEF CountsMatchPage
<1>9. PageFits'
  <2>1. PointTotal(strokes) + PointTotal(active) <= MaxPagePoints
    BY DEF PageInv, PageBounds, PageFits, FitsOnPage
  <2> QED
    BY <1>1, <1>2, <1>4, <1>5, <1>7, <2>1, LimitFacts DEF PageFits, FitsOnPage
<1>10. PageIsRendered' /\ HistoryFits'
  BY <1>1 DEF PageInv, PageBounds, PageIsRendered, HistoryFits, HistoryIsWithinLimits
<1> QED
  BY <1>6, <1>8, <1>9, <1>10 DEF PageBounds

(* So does appending points to a stroke in progress.                       *)
LEMMA AppendBounds ==
  ASSUME PageInv, NEW p \in Participant, NEW c \in CommandId, NEW i \in DOMAIN active,
         NEW first, NEW batch \in Batch, AppendStrokePoints(p, c, i, first, batch)
  PROVE  PageBounds'
<1> DEFINE new == [active[i] EXCEPT !.points = active[i].points \o batch]
<1>1. /\ Len(active[i].points) + Len(batch) <= MaxStrokePoints
      /\ pointCount + Len(batch) <= MaxPagePoints
      /\ active' = [active EXCEPT ![i].points = @ \o batch]
      /\ pointCount' = pointCount + Len(batch)
      /\ strokes' = strokes /\ strokeCount' = strokeCount /\ actions' = actions
  BY DEF AppendStrokePoints, historyVars
<1>2. /\ active \in Seq(Stroke) /\ Len(active) \in Nat /\ DOMAIN active = 1 .. Len(active)
      /\ PointTotal(active) \in Nat /\ PointTotal(strokes) \in Nat /\ Len(strokes) \in Nat
      /\ active[i] \in Stroke /\ Len(active[i].points) \in Nat
  BY PageFacts
<1>3. batch \in Seq(Cell) /\ Len(batch) \in Nat /\ active[i].points \in Seq(Cell)
  BY <1>2, JournalAssumption, LenProperties DEF Stroke
<1>4. new \in Stroke /\ new.points = active[i].points \o batch
  BY <1>2, <1>3, ConcatProperties DEF Stroke
<1>5. active' = [active EXCEPT ![i] = new]
  BY <1>1, <1>2 DEF Stroke
<1> HIDE DEF new
<1>6. Len(new.points) = Len(active[i].points) + Len(batch)
  BY <1>3, <1>4, ConcatProperties
<1>7. PointTotal(active') = PointTotal(active) + Len(batch)
  <2>1. PointTotal([active EXCEPT ![i] = new])
          = PointTotal(active) - Len(active[i].points) + Len(new.points)
    BY <1>2, <1>4, PointTotalAt
  <2> QED
    BY <1>2, <1>3, <1>5, <1>6, <2>1
<1>8. /\ Len(active') = Len(active) /\ DOMAIN active' = DOMAIN active
      /\ \A j \in DOMAIN active : active'[j] = IF j = i THEN new ELSE active[j]
  BY <1>2, <1>4, <1>5, ExceptSeq, LenProperties
<1>9. StrokesAreShort'
  <2>1. \A j \in DOMAIN active' : Len(active'[j].points) <= MaxStrokePoints
    BY <1>1, <1>6, <1>8 DEF PageInv, PageBounds, StrokesAreShort
  <2> QED
    BY <1>1, <2>1 DEF PageInv, PageBounds, StrokesAreShort
<1>10. strokeCount = Len(strokes) + Len(active) /\ pointCount = PointTotal(strokes) + PointTotal(active)
  BY DEF PageInv, PageBounds, CountsMatchPage
<1>11. CountsMatchPage'
  BY <1>1, <1>2, <1>3, <1>7, <1>8, <1>10 DEF CountsMatchPage
<1>12. PageFits'
  <2>1. Len(strokes) + Len(active) <= MaxStrokes
    BY DEF PageInv, PageBounds, PageFits, FitsOnPage
  <2> QED
    BY <1>1, <1>2, <1>3, <1>7, <1>8, <1>10, <2>1, LimitFacts DEF PageFits, FitsOnPage
<1>13. PageIsRendered' /\ HistoryFits'
  BY <1>1 DEF PageInv, PageBounds, PageIsRendered, HistoryFits, HistoryIsWithinLimits
<1> QED
  BY <1>9, <1>11, <1>12, <1>13 DEF PageBounds

(* The strokes in progress without one of them.                            *)
LEMMA ShrunkFacts ==
  ASSUME PageInv, NEW i \in DOMAIN active, active' = RemoveAt(active, i)
  PROVE  /\ Len(active') = Len(active) - 1
         /\ PointTotal(active') = PointTotal(active) - Len(active[i].points)
         /\ \A j \in DOMAIN active' : Len(active'[j].points) <= MaxStrokePoints
         /\ PointTotal(active') \in Nat
<1>1. active \in Seq(Stroke) /\ Len(active) \in Nat /\ DOMAIN active = 1 .. Len(active)
  BY PageFacts
<1>2. /\ active' \in Seq(Stroke) /\ DOMAIN active' = 1 .. Len(active) - 1
      /\ \A j \in 1 .. Len(active) - 1 : active'[j] = IF j < i THEN active[j] ELSE active[j + 1]
  BY <1>1, RemoveAtFacts
<1>3. Len(active) - 1 \in Nat
  BY <1>1
<1>4. Len(active') = Len(active) - 1
  <2>1. Len(active') \in Nat /\ 1 .. Len(active') = 1 .. Len(active) - 1
    BY <1>2, LenProperties
  <2> QED
    BY <1>3, <2>1, SameLength
<1>5. \A j \in DOMAIN active' : Len(active'[j].points) <= MaxStrokePoints
  <2>1. \A j \in DOMAIN active : Len(active[j].points) <= MaxStrokePoints
    BY DEF PageInv, PageBounds, StrokesAreShort
  <2>2. \A j \in DOMAIN active' : \E k \in DOMAIN active : active'[j] = active[k]
    <3> TAKE j \in DOMAIN active'
    <3>1. j \in DOMAIN active /\ j + 1 \in DOMAIN active
      BY <1>1, <1>2
    <3> QED
      BY <1>2, <3>1
  <2> QED
    BY <2>1, <2>2
<1> QED
  BY <1>1, <1>2, <1>4, <1>5, PointTotalAt, PointTotalNat

(* So does cancelling a stroke in progress.                                *)
LEMMA CancelBounds ==
  ASSUME PageInv, NEW p \in Participant, NEW c \in CommandId, NEW i \in DOMAIN active,
         CancelStroke(p, c, i)
  PROVE  PageBounds'
<1>1. /\ active' = RemoveAt(active, i)
      /\ pointCount' = pointCount - Len(active[i].points) /\ strokeCount' = strokeCount - 1
      /\ strokes' = strokes /\ actions' = actions
  BY DEF CancelStroke, historyVars
<1>2. /\ Len(active) \in Nat /\ Len(strokes) \in Nat /\ Len(active[i].points) \in Nat
      /\ PointTotal(active) \in Nat /\ PointTotal(strokes) \in Nat
  BY PageFacts
<1>3. /\ Len(active') = Len(active) - 1
      /\ PointTotal(active') = PointTotal(active) - Len(active[i].points)
      /\ \A j \in DOMAIN active' : Len(active'[j].points) <= MaxStrokePoints
  BY <1>1, ShrunkFacts
<1>4. /\ strokeCount = Len(strokes) + Len(active)
      /\ pointCount = PointTotal(strokes) + PointTotal(active)
      /\ Len(strokes) + Len(active) <= MaxStrokes
      /\ PointTotal(strokes) + PointTotal(active) <= MaxPagePoints
  BY DEF PageInv, PageBounds, CountsMatchPage, PageFits, FitsOnPage
<1>5. CountsMatchPage'
  BY <1>1, <1>2, <1>3, <1>4 DEF CountsMatchPage
<1>6. PageFits'
  <2>0. \A a, b, less, max \in Nat : a + b <= max => a + (b - less) <= max
    OBVIOUS
  <2>1. Len(strokes) + Len(active') <= MaxStrokes
    BY <1>2, <1>3, <1>4, <2>0, LimitFacts
  <2>2. PointTotal(strokes) + PointTotal(active') <= MaxPagePoints
    BY <1>2, <1>3, <1>4, <2>0, LimitFacts
  <2> QED
    BY <1>1, <2>1, <2>2 DEF PageFits, FitsOnPage
<1>7. StrokesAreShort'
  BY <1>1, <1>3 DEF PageInv, PageBounds, StrokesAreShort
<1>8. PageIsRendered' /\ HistoryFits'
  BY <1>1 DEF PageInv, PageBounds, PageIsRendered, HistoryFits, HistoryIsWithinLimits
<1> QED
  BY <1>5, <1>6, <1>7, <1>8 DEF PageBounds

(* A recorded action that fits the limits keeps the history within them.   *)
LEMMA RecordActionFits ==
  ASSUME PageInv, NEW p, NEW a \in Action, RecordAction(p, a),
         IsDraw(a) => RecordedPoints(actions) + Len(a.stroke.points) <= MaxRecordedPoints,
         IsErase(a) => /\ IsFiniteSet(a.region) /\ IsFiniteSet(a.targets)
                       /\ RecordedRubs(actions) + Cardinality(a.region) <= MaxRecordedRubs
                       /\ RecordedTargets(actions) + Cardinality(a.targets) <= MaxRecordedTargets
  PROVE  HistoryFits'
<1>1. actions' = Append(actions, a) /\ Len(actions) < MaxActions /\ actions \in Seq(Action)
  BY PageFacts DEF RecordAction
<1>2. /\ RubsAreFinite(actions) /\ RecordedPoints(actions) <= MaxRecordedPoints
      /\ RecordedRubs(actions) <= MaxRecordedRubs /\ RecordedTargets(actions) <= MaxRecordedTargets
  BY DEF PageInv, PageBounds, HistoryFits, HistoryIsWithinLimits
<1>3. /\ RecordedPoints(actions') =
           RecordedPoints(actions) + (IF IsDraw(a) THEN Len(a.stroke.points) ELSE 0)
      /\ RecordedPoints(actions) \in Nat
  BY <1>1, RecordedPointsGrow, DrawnPointsSeq
<1>4. /\ RubsAreFinite(actions')
      /\ RecordedRubs(actions') =
           RecordedRubs(actions) + (IF IsErase(a) THEN Cardinality(a.region) ELSE 0)
      /\ RecordedTargets(actions') =
           RecordedTargets(actions) + (IF IsErase(a) THEN Cardinality(a.targets) ELSE 0)
  BY <1>1, <1>2, RecordedGrow
<1>5. RecordedRubs(actions) \in Nat /\ RecordedTargets(actions) \in Nat
  BY <1>2, FS_CardinalityType DEF RubsAreFinite, Rubs, Marks, RecordedRubs, RecordedTargets
<1>6. Len(actions') <= MaxActions
  <2>1. Len(actions') = Len(actions) + 1 /\ Len(actions) \in Nat
    BY <1>1, AppendProperties, LenProperties
  <2> QED
    BY <1>1, <2>1, LimitFacts
<1>7. RecordedPoints(actions') <= MaxRecordedPoints
  BY <1>2, <1>3
<1>8. RecordedRubs(actions') <= MaxRecordedRubs /\ RecordedTargets(actions') <= MaxRecordedTargets
  BY <1>2, <1>4, <1>5
<1> QED
  BY <1>4, <1>6, <1>7, <1>8 DEF HistoryFits, HistoryIsWithinLimits

(* So does committing one: the page and its history grow by the same       *)
(* stroke.                                                                 *)
LEMMA CommitBounds ==
  ASSUME PageInv, NEW p \in Participant, NEW c \in CommandId, NEW i \in DOMAIN active,
         CommitStroke(p, c, i)
  PROVE  PageBounds'
<1> DEFINE d == [kind |-> "draw", id |-> c, actor |-> p, active |-> TRUE, stroke |-> active[i]]
<1>1. /\ RecordedPoints(actions) + Len(active[i].points) <= MaxRecordedPoints
      /\ RecordAction(p, d) /\ actions' = Append(actions, d)
      /\ active' = RemoveAt(active, i) /\ strokes' = Append(strokes, active[i])
      /\ strokeCount' = strokeCount /\ pointCount' = pointCount
  BY DEF CommitStroke, RecordAction
<1>2. /\ Len(active) \in Nat /\ Len(strokes) \in Nat /\ Len(active[i].points) \in Nat
      /\ PointTotal(active) \in Nat /\ PointTotal(strokes) \in Nat
      /\ strokes \in Seq(Stroke) /\ active[i] \in Stroke /\ actions \in Seq(Action)
  BY PageFacts
<1>3. /\ d \in Draw /\ d \in Action /\ d.active = TRUE /\ d.stroke = active[i]
      /\ IsDraw(d) /\ ~IsErase(d)
  BY <1>2 DEF Draw, Action, IsDraw, IsErase
<1> HIDE DEF d
<1>4. /\ Len(active') = Len(active) - 1
      /\ PointTotal(active') = PointTotal(active) - Len(active[i].points)
      /\ \A j \in DOMAIN active' : Len(active'[j].points) <= MaxStrokePoints
  BY <1>1, ShrunkFacts
<1>5. /\ Len(strokes') = Len(strokes) + 1
      /\ PointTotal(strokes') = PointTotal(strokes) + Len(active[i].points)
  BY <1>1, <1>2, AppendProperties, PointTotalAppend
<1>6. /\ strokeCount = Len(strokes) + Len(active)
      /\ pointCount = PointTotal(strokes) + PointTotal(active)
      /\ Len(strokes) + Len(active) <= MaxStrokes
      /\ PointTotal(strokes) + PointTotal(active) <= MaxPagePoints
  BY DEF PageInv, PageBounds, CountsMatchPage, PageFits, FitsOnPage
<1>7. CountsMatchPage'
  BY <1>1, <1>2, <1>4, <1>5, <1>6 DEF CountsMatchPage
<1>8. PageFits'
  BY <1>2, <1>4, <1>5, <1>6, LimitFacts DEF PageFits, FitsOnPage
<1>9. StrokesAreShort'
  <2>1. Len(active[i].points) <= MaxStrokePoints
        /\ \A j \in DOMAIN actions : IsDraw(actions[j]) =>
             Len(actions[j].stroke.points) <= MaxStrokePoints
    BY DEF PageInv, PageBounds, StrokesAreShort
  <2>2. \A j \in DOMAIN actions' : \/ j \in DOMAIN actions /\ actions'[j] = actions[j]
                                   \/ actions'[j] = d
    <3>1. /\ DOMAIN actions' = 1 .. Len(actions) + 1 /\ actions'[Len(actions) + 1] = d
          /\ \A j \in DOMAIN actions : actions'[j] = actions[j]
          /\ DOMAIN actions = 1 .. Len(actions) /\ Len(actions) \in Nat
      BY <1>1, <1>2, <1>3, AppendFacts, LenProperties
    <3> QED
      BY <3>1
  <2>3. \A j \in DOMAIN actions' : IsDraw(actions'[j]) =>
          Len(actions'[j].stroke.points) <= MaxStrokePoints
    BY <1>3, <2>1, <2>2
  <2> QED
    BY <1>4, <2>3 DEF StrokesAreShort
<1>10. HistoryFits'
  BY <1>1, <1>3, RecordActionFits
<1>11. PageIsRendered'
  <2>1. active[i].id \notin IdsOf(Baseline) \cup DrawnIds
    BY DEF PageInv, HistoryInv, IdsAreFresh
  <2>2. \A j \in DOMAIN actions : IsErase(actions[j]) =>
          actions[j].targets \subseteq IdsOf(Baseline) \cup DrawnIds
    BY DEF PageInv, HistoryInv, HistoryIsValid, TargetsAreRoots, DrawnIds
  <2>3. \A j \in DOMAIN actions : IsErase(actions[j]) => d.stroke.id \notin actions[j].targets
    BY <1>3, <2>1, <2>2
  <2>4. RenderedStrokes(Append(actions, d)) = Append(RenderedStrokes(actions), d.stroke)
    BY <1>2, <1>3, <2>3, CommitRenders
  <2>5. strokes = RenderedStrokes(actions)
    BY DEF PageInv, PageBounds, PageIsRendered
  <2> QED
    BY <1>1, <1>3, <2>4, <2>5 DEF PageIsRendered
<1> QED
  BY <1>7, <1>8, <1>9, <1>10, <1>11 DEF PageBounds

(* A step that sets the committed strokes to what the history renders to.  *)
LEMMA SetBounds ==
  ASSUME PageInv, SetCommittedStrokes(RenderedStrokes(actions')), RootsAreApart(actions'),
         StrokesAreShort', HistoryFits'
  PROVE  PageBounds'
<1> DEFINE page == RenderedStrokes(actions')
<1>1. /\ ValidSnapshot(page, active) /\ strokes' = page /\ active' = active
      /\ strokeCount' = Len(page) + Len(active)
      /\ pointCount' = PointTotal(page) + PointTotal(active)
  BY DEF SetCommittedStrokes
<1>2. page \in Seq(Stroke) /\ active \in Seq(Stroke)
  BY RenderedFacts, PageFacts
<1> HIDE DEF page
<1>3. Len(page \o active) = Len(page) + Len(active)
  BY <1>2, ConcatProperties
<1>4. CountsMatchPage'
  BY <1>1 DEF CountsMatchPage
<1>5. PageFits'
  BY <1>1, <1>3 DEF PageFits, FitsOnPage, ValidSnapshot
<1>6. PageIsRendered'
  BY <1>1 DEF PageIsRendered, page
<1> QED
  BY <1>4, <1>5, <1>6 DEF PageBounds

(* So does erasing, which sets the page to what the history renders to.    *)
LEMMA EraseBounds ==
  ASSUME PageInv, NEW p \in Participant, NEW c \in CommandId, NEW region \in Region,
         Erase(p, c, region)
  PROVE  PageBounds'
<1> DEFINE targets == EraserTargets(actions, p, region)
           e == [kind |-> "erase", id |-> c, actor |-> p, active |-> TRUE,
                 region |-> region, targets |-> targets]
<1>1. /\ RecordedRubs(actions) + Cardinality(region) <= MaxRecordedRubs
      /\ RecordedTargets(actions) + Cardinality(targets) <= MaxRecordedTargets
      /\ RecordAction(p, e) /\ actions' = Append(actions, e)
      /\ SetCommittedStrokes(RenderedStrokes(actions'))
  BY DEF Erase, RecordAction
<1>2. active' = active
  BY <1>1 DEF SetCommittedStrokes
<1>3. actions \in Seq(Action) /\ RootsAreApart(actions)
  BY PageFacts
<1>4. IsFiniteSet(region) /\ IsFiniteSet(targets) /\ region \in SUBSET Cell
  BY <1>3, BaselineAssumption, TargetsAreFinite, JournalAssumption
<1>5. targets \subseteq StrokeId
  BY TargetsAreKnown DEF PageInv
<1> HIDE DEF targets
<1>6. /\ e \in Action /\ e.region = region /\ e.targets = targets /\ IsErase(e) /\ ~IsDraw(e)
  BY <1>4, <1>5 DEF Action, Erasure, IsDraw, IsErase
<1> HIDE DEF e
<1>7. HistoryFits'
  BY <1>1, <1>4, <1>6, RecordActionFits
<1>8. /\ actions' \in Seq(Action)
      /\ \A j \in DOMAIN actions' : IsDraw(actions'[j]) =>
           j \in DOMAIN actions /\ actions'[j] = actions[j]
  <2>1. /\ actions' \in Seq(Action)
        /\ DOMAIN actions' = 1 .. Len(actions) + 1 /\ actions'[Len(actions) + 1] = e
        /\ \A j \in DOMAIN actions : actions'[j] = actions[j]
        /\ DOMAIN actions = 1 .. Len(actions) /\ Len(actions) \in Nat
    BY <1>1, <1>3, <1>6, AppendFacts, LenProperties
  <2> QED
    BY <1>6, <2>1
<1>9. StrokesAreShort'
  BY <1>2, <1>8 DEF PageInv, PageBounds, StrokesAreShort
<1>10. RootsAreApart(actions')
  BY <1>3, <1>8 DEF RootsAreApart
<1> QED
  BY <1>1, <1>7, <1>9, <1>10, SetBounds

(* So do undo and redo.                                                    *)
LEMMA UndoRedoBounds ==
  ASSUME PageInv, NEW id, NEW flag \in BOOLEAN, actions' = SetActive(actions, id, flag),
         SetCommittedStrokes(RenderedStrokes(actions'))
  PROVE  PageBounds'
<1>1. actions \in Seq(Action) /\ RootsAreApart(actions)
  BY PageFacts
<1>2. RootsAreApart(actions')
  BY <1>1, SetActiveKeepsRoots
<1>3. active' = active
  BY DEF SetCommittedStrokes
<1>4. StrokesAreShort'
  BY <1>2, <1>3 DEF PageInv, PageBounds, StrokesAreShort, RootsAreApart
<1>5. /\ Len(actions') = Len(actions)
      /\ RecordedPoints(actions') = RecordedPoints(actions)
      /\ RecordedRubs(actions') = RecordedRubs(actions)
      /\ RecordedTargets(actions') = RecordedTargets(actions)
      /\ RubsAreFinite(actions) => RubsAreFinite(actions')
  BY <1>1, RecordedStays
<1>6. HistoryFits'
  BY <1>5 DEF PageInv, PageBounds, HistoryFits, HistoryIsWithinLimits
<1> QED
  BY <1>2, <1>4, <1>6, SetBounds

(* The invariant of the page is inductive.                                 *)
LEMMA NextBounds == PageInv /\ [Next]_vars => PageInv'
<1> SUFFICES ASSUME PageInv, [Next]_vars  PROVE PageInv'
  OBVIOUS
<1>1. HistoryInv'
  BY NextIsValid DEF PageInv
<1>2. CASE UNCHANGED vars
  <2>1. UNCHANGED <<strokes, active, strokeCount, pointCount, actions>>
    BY <1>2 DEF vars, pageVars, historyVars
  <2> QED
    BY <1>1, <2>1 DEF PageInv, PageBounds, StrokesAreShort, PageIsRendered, CountsMatchPage,
                      PageFits, HistoryFits, HistoryIsWithinLimits
<1>3. ASSUME NEW p \in Participant, NEW c \in CommandId, Submit(p, c)  PROVE PageBounds'
  <2>1. ASSUME NEW r \in RootId, BeginStroke(p, c, r)  PROVE PageBounds'
    BY <2>1, BeginBounds
  <2>2. ASSUME NEW i \in DOMAIN active, NEW first, NEW batch \in Batch,
               AppendStrokePoints(p, c, i, first, batch)
        PROVE  PageBounds'
    BY <2>2, AppendBounds
  <2>3. ASSUME NEW i \in DOMAIN active, CommitStroke(p, c, i)  PROVE PageBounds'
    BY <2>3, CommitBounds
  <2>4. ASSUME NEW i \in DOMAIN active, CancelStroke(p, c, i)  PROVE PageBounds'
    BY <2>4, CancelBounds
  <2>5. ASSUME NEW region \in Region, Erase(p, c, region)  PROVE PageBounds'
    BY <2>5, EraseBounds
  <2>6. ASSUME NEW region \in Region, EraseNothing(p, c, region)  PROVE PageBounds'
    <3>1. UNCHANGED <<strokes, active, strokeCount, pointCount, actions>>
      BY <2>6 DEF EraseNothing, pageVars, historyVars
    <3> QED
      BY <3>1 DEF PageInv, PageBounds, StrokesAreShort, PageIsRendered, CountsMatchPage,
                  PageFits, HistoryFits, HistoryIsWithinLimits
  <2>7. CASE Undo(p, c)
    BY <2>7, UndoRedoBounds DEF Undo
  <2>8. CASE Redo(p, c)
    BY <2>8, UndoRedoBounds DEF Redo
  <2> QED
    BY <1>3, <2>1, <2>2, <2>3, <2>4, <2>5, <2>6, <2>7, <2>8 DEF Submit
<1> QED
  BY <1>1, <1>2, <1>3 DEF Next, PageInv

(* The invariant of the page holds in every reachable state.               *)
LEMMA PageIsBounded == Spec => []PageInv
<1>1. Init => PageInv
  BY InitIsValid, InitBounds DEF PageInv
<1> QED
  BY <1>1, NextBounds, PTL DEF Spec

(* The page, its history and its counters are well typed, whatever legal   *)
(* commands the participants submit.                                       *)
THEOREM PageIsWellTyped == Spec => []TypeOK
<1>1. PageInv => TypeOK
  <2> SUFFICES ASSUME PageInv  PROVE TypeOK
    OBVIOUS
  <2>1. strokeCount \in Nat /\ pointCount \in Nat
    BY PageFacts DEF PageInv, PageBounds, CountsMatchPage
  <2> QED
    BY <2>1, PageFacts DEF PageInv, HistoryInv, TypeOK
<1> QED
  BY <1>1, PageIsBounded, PTL

(* The two counters that the journal keeps by increments are always the    *)
(* sizes of the page: no limit is enforced on anything else, and no        *)
(* decrement underflows.                                                   *)
THEOREM CountsAlwaysMatch == Spec => []CountsMatchPage
<1>1. PageInv => CountsMatchPage
  BY DEF PageInv, PageBounds
<1> QED
  BY <1>1, PageIsBounded, PTL

(* Whatever legal commands were submitted, a relay that restarts accepts   *)
(* the page it stored: its snapshot is valid, its history is, and one is   *)
(* what the other renders to.                                              *)
THEOREM PageIsAlwaysReloadable == Spec => []PageIsReloadable
<1>1. PageInv /\ RevisionInv => PageIsReloadable
  BY PageFacts DEF PageInv, PageBounds, HistoryInv, HistoryFits, RevisionInv, PageIsReloadable
<1> QED
  BY <1>1, PageIsBounded, RevisionsAreKept, PTL

(* The undo and the redo that a participant is offered are refused for no  *)
(* other reason than the size of the page that would result.               *)
THEOREM HistoryOffersAreKept == Spec => []OfferedHistoryIsAccepted
<1>1. PageInv => OfferedHistoryIsAccepted
  <2> SUFFICES ASSUME PageInv, NEW p \in Participant
               PROVE  /\ CanUndo(p) =>
                           /\ ActionWith(actions, p, Last(undo[p]), TRUE)
                           /\ CanBecome(RenderedStrokes(SetActive(actions, Last(undo[p]), FALSE)))
                      /\ CanRedo(p) =>
                           /\ ActionWith(actions, p, Last(redo[p]), FALSE)
                           /\ CanBecome(RenderedStrokes(SetActive(actions, Last(redo[p]), TRUE)))
    BY DEF OfferedHistoryIsAccepted
  <2>1. ASSUME NEW id, NEW flag \in BOOLEAN
        PROVE  CanBecome(RenderedStrokes(SetActive(actions, id, flag)))
    <3>1. RootsAreApart(actions) /\ DrawnIn(actions) = DrawnIds
      BY PageFacts
    <3>2. /\ RootsAreApart(SetActive(actions, id, flag))
          /\ DrawnIn(SetActive(actions, id, flag)) = DrawnIds
      BY <3>1, SetActiveKeepsRoots
    <3> QED
      BY <3>2, RenderedIsValid DEF PageInv, PageBounds
  <2>2. undo[p] \in Seq(CommandId) /\ redo[p] \in Seq(CommandId)
    BY DEF PageInv, HistoryInv, HistoryTypeOK
  <2>3. /\ \A i \in DOMAIN undo[p] : ActionWith(actions, p, undo[p][i], TRUE)
        /\ \A i \in DOMAIN redo[p] : ActionWith(actions, p, redo[p][i], FALSE)
    BY DEF PageInv, HistoryInv, HistoryIsValid, StacksMatchActions
  <2>4. CanUndo(p) => ActionWith(actions, p, Last(undo[p]), TRUE)
    <3> SUFFICES ASSUME undo[p] # <<>>  PROVE ActionWith(actions, p, Last(undo[p]), TRUE)
      BY DEF CanUndo
    <3>1. Len(undo[p]) \in DOMAIN undo[p] /\ Last(undo[p]) = undo[p][Len(undo[p])]
      BY <2>2, FrontFacts
    <3> QED
      BY <2>3, <3>1
  <2>5. CanRedo(p) => ActionWith(actions, p, Last(redo[p]), FALSE)
    <3> SUFFICES ASSUME redo[p] # <<>>  PROVE ActionWith(actions, p, Last(redo[p]), FALSE)
      BY DEF CanRedo
    <3>1. Len(redo[p]) \in DOMAIN redo[p] /\ Last(redo[p]) = redo[p][Len(redo[p])]
      BY <2>2, FrontFacts
    <3> QED
      BY <2>3, <3>1
  <2> QED
    BY <2>1, <2>4, <2>5
<1> QED
  BY <1>1, PageIsBounded, PTL

-----------------------------------------------------------------------------
(* Guests.                                                                 *)

Others(s, p) == [i \in DOMAIN s |-> IF s[i].author = p THEN <<>> ELSE <<s[i]>>]

(* The strokes of a page that are not p's, as the page is put together.    *)
LEMMA ByOthersSeq ==
  ASSUME NEW s \in Seq(Stroke), NEW p
  PROVE  /\ Others(s, p) \in Seq(Seq(Stroke)) /\ Len(Others(s, p)) = Len(s)
         /\ ByOthers(s, p) = FlattenSeq(Others(s, p)) /\ ByOthers(s, p) \in Seq(Stroke)
<1>1. Len(s) \in Nat /\ DOMAIN s = 1 .. Len(s) /\ \A i \in 1 .. Len(s) : s[i] \in Stroke
  BY LenProperties, ElementOfSeq
<1>2. <<>> \in Seq(Stroke) /\ \A e \in Stroke : <<e>> \in Seq(Stroke)
  BY EmptySeq
<1>3. Others(s, p) \in [1 .. Len(s) -> Seq(Stroke)]
  BY <1>1, <1>2 DEF Others
<1>4. Others(s, p) \in Seq(Seq(Stroke)) /\ Len(Others(s, p)) = Len(s)
  BY <1>1, <1>3
<1>5. ByOthers(s, p) = FlattenSeq(Others(s, p))
  BY DEF ByOthers, Others
<1> QED
  BY <1>4, <1>5, FlattenFacts

(* An empty page has no strokes of others.                                 *)
LEMMA ByOthersEmpty == \A p : ByOthers(<<>>, p) = <<>>
<1> TAKE p
<1>1. <<>> \in Seq(Stroke)
  BY EmptySeq
<1>2. Others(<<>>, p) = <<>>
  BY DEF Others
<1> QED
  BY <1>1, <1>2, ByOthersSeq, FlattenEmpty

(* A stroke at the end of the page is another's or not.                    *)
LEMMA ByOthersAppend ==
  ASSUME NEW s \in Seq(Stroke), NEW e \in Stroke, NEW p
  PROVE  ByOthers(Append(s, e), p) = ByOthers(s, p) \o (IF e.author = p THEN <<>> ELSE <<e>>)
<1> DEFINE t    == Append(s, e)
           last == IF e.author = p THEN <<>> ELSE <<e>>
<1>1. /\ t \in Seq(Stroke) /\ DOMAIN t = 1 .. Len(s) + 1 /\ Len(s) \in Nat /\ Len(t) = Len(s) + 1
      /\ DOMAIN s = 1 .. Len(s) /\ \A i \in DOMAIN s : t[i] = s[i]
      /\ t[Len(s) + 1] = e
  BY AppendFacts, LenProperties
<1>2. last \in Seq(Stroke)
  BY EmptySeq
<1> HIDE DEF t
<1>3. /\ \A i \in 1 .. Len(s) : Others(t, p)[i] = Others(s, p)[i]
      /\ Others(t, p)[Len(s) + 1] = last
  <2>1. \A i \in DOMAIN t : Others(t, p)[i] = IF t[i].author = p THEN <<>> ELSE <<t[i]>>
    BY DEF Others
  <2>2. \A i \in DOMAIN s : Others(s, p)[i] = IF s[i].author = p THEN <<>> ELSE <<s[i]>>
    BY DEF Others
  <2>3. Len(s) + 1 \in DOMAIN t /\ \A i \in DOMAIN s : i \in DOMAIN t
    BY <1>1
  <2>4. \A i \in DOMAIN s : Others(t, p)[i] = Others(s, p)[i]
    BY <1>1, <2>1, <2>2, <2>3
  <2>5. Others(t, p)[Len(s) + 1] = last
    BY <1>1, <2>1, <2>3
  <2> QED
    BY <1>1, <2>4, <2>5
<1> HIDE DEF last
<1>4. /\ Others(s, p) \in Seq(Seq(Stroke)) /\ Len(Others(s, p)) = Len(s)
      /\ Others(t, p) \in Seq(Seq(Stroke)) /\ Len(Others(t, p)) = Len(s) + 1
  BY <1>1, ByOthersSeq
<1>5. /\ Append(Others(s, p), last) \in Seq(Seq(Stroke))
      /\ Len(Append(Others(s, p), last)) = Len(s) + 1
      /\ \A i \in 1 .. Len(s) : Append(Others(s, p), last)[i] = Others(s, p)[i]
      /\ Append(Others(s, p), last)[Len(s) + 1] = last
  BY <1>2, <1>4, AppendProperties
<1>6. \A i \in 1 .. Len(s) + 1 : Others(t, p)[i] = Append(Others(s, p), last)[i]
  <2> TAKE i \in 1 .. Len(s) + 1
  <2>1. i \in 1 .. Len(s) \/ i = Len(s) + 1
    BY <1>1
  <2> QED
    BY <1>3, <1>5, <2>1
<1>7. Others(t, p) = Append(Others(s, p), last)
  BY <1>4, <1>5, <1>6, SeqEqual
<1>8. FlattenSeq(Others(s, p)) \in Seq(Stroke)
  BY <1>4, FlattenFacts
<1>9. FlattenSeq(Others(t, p)) = FlattenSeq(Others(s, p)) \o last
  BY <1>2, <1>4, <1>7, <1>8, FlattenAppend
<1> QED
  BY <1>1, <1>9, ByOthersSeq DEF t, last

(* The strokes of others on two pages put together.                        *)
LEMMA ByOthersConcat ==
  ASSUME NEW s \in Seq(Stroke), NEW t \in Seq(Stroke), NEW p
  PROVE  ByOthers(s \o t, p) = ByOthers(s, p) \o ByOthers(t, p)
<1> DEFINE good == {u \in Seq(Stroke) : ByOthers(s \o u, p) = ByOthers(s, p) \o ByOthers(u, p)}
<1>0. ByOthers(s, p) \in Seq(Stroke)
  BY ByOthersSeq
<1>1. <<>> \in good
  BY <1>0, EmptySeq, ByOthersEmpty, ConcatEmptySeq
<1>2. ASSUME NEW u \in Seq(Stroke), NEW e \in Stroke, u \in good  PROVE Append(u, e) \in good
  <2> DEFINE last == IF e.author = p THEN <<>> ELSE <<e>>
  <2>1. /\ ByOthers(s \o u, p) = ByOthers(s, p) \o ByOthers(u, p) /\ s \o u \in Seq(Stroke)
        /\ ByOthers(u, p) \in Seq(Stroke)
    BY <1>2, ByOthersSeq, ConcatProperties
  <2>2. last \in Seq(Stroke)
    BY EmptySeq
  <2>3. s \o Append(u, e) = Append(s \o u, e)
    BY ConcatAppend
  <2>4. ByOthers(Append(s \o u, e), p) = ByOthers(s \o u, p) \o last
    BY <2>1, ByOthersAppend
  <2>5. ByOthers(Append(u, e), p) = ByOthers(u, p) \o last
    BY ByOthersAppend
  <2> HIDE DEF last
  <2>6. ByOthers(s \o Append(u, e), p) = ByOthers(s, p) \o ByOthers(Append(u, e), p)
    <3>1. ByOthers(s \o Append(u, e), p) = (ByOthers(s, p) \o ByOthers(u, p)) \o last
      BY <2>1, <2>3, <2>4
    <3>2. (ByOthers(s, p) \o ByOthers(u, p)) \o last = ByOthers(s, p) \o (ByOthers(u, p) \o last)
      <4> DEFINE sp == ByOthers(s, p)
                 up == ByOthers(u, p)
      <4>1. sp \in Seq(Stroke) /\ up \in Seq(Stroke)
        BY <1>0, <2>1
      <4> HIDE DEF sp, up
      <4>2. (sp \o up) \o last = sp \o (up \o last)
        BY <2>2, <4>1, ConcatAssociative
      <4> QED
        BY <4>2 DEF sp, up
    <3> QED
      BY <2>5, <3>1, <3>2
  <2> QED
    BY <2>6, AppendProperties
<1> HIDE DEF good
<1>3. Seq(Stroke) \subseteq good
  BY <1>1, <1>2, InductionOnSequences
<1> QED
  BY <1>3 DEF good

(* A page of p's strokes alone has none of the others.                     *)
LEMMA ByOthersOfOwn ==
  ASSUME NEW s \in Seq(Stroke), NEW p, \A i \in DOMAIN s : s[i].author = p
  PROVE  ByOthers(s, p) = <<>>
<1> DEFINE good == {u \in Seq(Stroke) : (\A i \in DOMAIN u : u[i].author = p) => ByOthers(u, p) = <<>>}
<1>1. <<>> \in good
  BY EmptySeq, ByOthersEmpty
<1>2. ASSUME NEW u \in Seq(Stroke), NEW e \in Stroke, u \in good  PROVE Append(u, e) \in good
  <2>1. ASSUME \A i \in DOMAIN Append(u, e) : Append(u, e)[i].author = p
        PROVE  ByOthers(Append(u, e), p) = <<>>
    <3>1. /\ \A i \in DOMAIN u : i \in DOMAIN Append(u, e) /\ Append(u, e)[i] = u[i]
          /\ Len(u) + 1 \in DOMAIN Append(u, e) /\ Append(u, e)[Len(u) + 1] = e
      <4>1. Len(u) \in Nat
        BY LenProperties
      <4> QED
        BY <4>1, AppendFacts
    <3>2. ByOthers(u, p) = <<>> /\ e.author = p
      BY <1>2, <2>1, <3>1
    <3>3. ByOthers(Append(u, e), p) = <<>> \o <<>>
      BY <3>2, ByOthersAppend
    <3> QED
      BY <3>3, EmptySeq, ConcatEmptySeq
  <2> QED
    BY <2>1, AppendProperties
<1> HIDE DEF good
<1>3. Seq(Stroke) \subseteq good
  BY <1>1, <1>2, InductionOnSequences
<1> QED
  BY <1>3 DEF good

OthersOf(parts, p) == [i \in DOMAIN parts |-> ByOthers(parts[i], p)]

(* The strokes of others, part by part, are sequences of strokes.          *)
LEMMA OthersOfSeq ==
  ASSUME NEW parts \in Seq(Seq(Stroke)), NEW p
  PROVE  /\ OthersOf(parts, p) \in Seq(Seq(Stroke)) /\ Len(OthersOf(parts, p)) = Len(parts)
         /\ FlattenSeq(OthersOf(parts, p)) \in Seq(Stroke)
<1>1. /\ Len(parts) \in Nat /\ DOMAIN parts = 1 .. Len(parts)
      /\ \A i \in 1 .. Len(parts) : ByOthers(parts[i], p) \in Seq(Stroke)
  BY LenProperties, ElementOfSeq, ByOthersSeq
<1>2. OthersOf(parts, p) \in [1 .. Len(parts) -> Seq(Stroke)]
  BY <1>1 DEF OthersOf
<1>3. OthersOf(parts, p) \in Seq(Seq(Stroke)) /\ Len(OthersOf(parts, p)) = Len(parts)
  <2> DEFINE o == OthersOf(parts, p)
             n == Len(parts)
  <2>1. o \in [1 .. n -> Seq(Stroke)] /\ n \in Nat
    BY <1>1, <1>2
  <2> HIDE DEF o, n
  <2>2. o \in Seq(Seq(Stroke)) /\ Len(o) = n
    BY <2>1
  <2> QED
    BY <2>2 DEF o, n
<1> QED
  BY <1>3, FlattenFacts

(* One more part adds the strokes of others in it.                         *)
LEMMA OthersOfAppend ==
  ASSUME NEW parts \in Seq(Seq(Stroke)), NEW s \in Seq(Stroke), NEW p
  PROVE  OthersOf(Append(parts, s), p) = Append(OthersOf(parts, p), ByOthers(s, p))
<1> DEFINE t == Append(parts, s)
<1>1. /\ t \in Seq(Seq(Stroke)) /\ DOMAIN t = 1 .. Len(parts) + 1 /\ Len(parts) \in Nat
      /\ Len(t) = Len(parts) + 1 /\ DOMAIN parts = 1 .. Len(parts)
      /\ \A i \in DOMAIN parts : t[i] = parts[i]
      /\ t[Len(parts) + 1] = s
  BY AppendFacts, LenProperties
<1> HIDE DEF t
<1>2. /\ \A i \in 1 .. Len(parts) : OthersOf(t, p)[i] = OthersOf(parts, p)[i]
      /\ OthersOf(t, p)[Len(parts) + 1] = ByOthers(s, p)
  <2>1. /\ \A i \in DOMAIN t : OthersOf(t, p)[i] = ByOthers(t[i], p)
        /\ \A i \in DOMAIN parts : OthersOf(parts, p)[i] = ByOthers(parts[i], p)
    BY DEF OthersOf
  <2>2. Len(parts) + 1 \in DOMAIN t /\ \A i \in DOMAIN parts : i \in DOMAIN t
    BY <1>1
  <2>3. \A i \in DOMAIN parts : OthersOf(t, p)[i] = OthersOf(parts, p)[i]
    BY <1>1, <2>1, <2>2
  <2>4. OthersOf(t, p)[Len(parts) + 1] = ByOthers(s, p)
    BY <1>1, <2>1, <2>2
  <2> QED
    BY <1>1, <2>3, <2>4
<1>3. /\ OthersOf(parts, p) \in Seq(Seq(Stroke)) /\ Len(OthersOf(parts, p)) = Len(parts)
      /\ OthersOf(t, p) \in Seq(Seq(Stroke)) /\ Len(OthersOf(t, p)) = Len(parts) + 1
      /\ ByOthers(s, p) \in Seq(Stroke)
  BY <1>1, OthersOfSeq, ByOthersSeq
<1> DEFINE u == Append(OthersOf(parts, p), ByOthers(s, p))
<1>4. /\ u \in Seq(Seq(Stroke)) /\ Len(u) = Len(parts) + 1
      /\ \A i \in 1 .. Len(parts) : u[i] = OthersOf(parts, p)[i]
      /\ u[Len(parts) + 1] = ByOthers(s, p)
  <2> DEFINE o == OthersOf(parts, p)
             e == ByOthers(s, p)
  <2>1. o \in Seq(Seq(Stroke)) /\ e \in Seq(Stroke)
    BY <1>3
  <2>3. Len(o) = Len(parts)
    BY <1>3
  <2> HIDE DEF o, e
  <2>2. /\ Append(o, e) \in Seq(Seq(Stroke)) /\ Len(Append(o, e)) = Len(o) + 1
        /\ \A i \in 1 .. Len(o) : Append(o, e)[i] = o[i]
        /\ Append(o, e)[Len(o) + 1] = e
    BY <2>1, AppendProperties
  <2> QED
    BY <2>2, <2>3 DEF o, e
<1> HIDE DEF u
<1>5. \A i \in 1 .. Len(parts) + 1 : OthersOf(t, p)[i] = u[i]
  <2> TAKE i \in 1 .. Len(parts) + 1
  <2>1. i \in 1 .. Len(parts) \/ i = Len(parts) + 1
    BY <1>1
  <2> QED
    BY <1>2, <1>4, <2>1
<1>6. OthersOf(t, p) = u
  BY <1>3, <1>4, <1>5, SeqEqual
<1> QED
  BY <1>6 DEF t, u

(* The strokes of others on a page are those of its parts.                 *)
LEMMA ByOthersFlatten ==
  ASSUME NEW p
  PROVE  \A parts \in Seq(Seq(Stroke)) : ByOthers(FlattenSeq(parts), p) = FlattenSeq(OthersOf(parts, p))
<1> DEFINE good == {parts \in Seq(Seq(Stroke)) :
                      ByOthers(FlattenSeq(parts), p) = FlattenSeq(OthersOf(parts, p))}
<1>1. <<>> \in good
  <2>1. OthersOf(<<>>, p) = <<>> /\ <<>> \in Seq(Seq(Stroke))
    BY EmptySeq DEF OthersOf
  <2> QED
    BY <2>1, FlattenEmpty, ByOthersEmpty
<1>2. ASSUME NEW parts \in Seq(Seq(Stroke)), NEW s \in Seq(Stroke), parts \in good
      PROVE  Append(parts, s) \in good
  <2>1. /\ FlattenSeq(parts) \in Seq(Stroke) /\ ByOthers(s, p) \in Seq(Stroke)
        /\ OthersOf(parts, p) \in Seq(Seq(Stroke)) /\ FlattenSeq(OthersOf(parts, p)) \in Seq(Stroke)
        /\ ByOthers(FlattenSeq(parts), p) = FlattenSeq(OthersOf(parts, p))
    BY <1>2, FlattenFacts, ByOthersSeq, OthersOfSeq
  <2>2. ByOthers(FlattenSeq(Append(parts, s)), p) = ByOthers(FlattenSeq(parts), p) \o ByOthers(s, p)
    <3>1. FlattenSeq(Append(parts, s)) = FlattenSeq(parts) \o s
      BY <2>1, FlattenAppend
    <3>2. ByOthers(FlattenSeq(parts) \o s, p) = ByOthers(FlattenSeq(parts), p) \o ByOthers(s, p)
      BY <2>1, ByOthersConcat
    <3> QED
      BY <3>1, <3>2
  <2>3. FlattenSeq(OthersOf(Append(parts, s), p)) = FlattenSeq(OthersOf(parts, p)) \o ByOthers(s, p)
    BY <2>1, OthersOfAppend, FlattenAppend
  <2> QED
    BY <2>1, <2>2, <2>3, AppendProperties
<1> HIDE DEF good
<1>3. Seq(Seq(Stroke)) \subseteq good
  BY <1>1, <1>2, InductionOnSequences
<1> QED
  BY <1>3 DEF good

(* The roots of a history, drawn and not undone or not.                    *)
Roots(acts) == Range(Baseline) \cup {acts[j].stroke : j \in {k \in DOMAIN acts : IsDraw(acts[k])}}

(* A guest's eraser is recorded for the guest's own roots.                 *)
TargetsAreOwn(acts) ==
  \A i \in DOMAIN acts : IsErase(acts[i]) /\ acts[i].actor # Owner =>
    \A root \in Roots(acts) : root.id \in acts[i].targets => root.author = acts[i].actor

GuestInv == PageInv /\ TargetsAreOwn(actions)

(* An id names one root of a history.                                      *)
LEMMA RootIdsIdentify ==
  ASSUME NEW acts, RootsAreApart(acts), NEW r \in Roots(acts), NEW s \in Roots(acts), r.id = s.id
  PROVE  r = s
<1>1. ASSUME NEW x \in Roots(acts)
      PROVE  \/ \E i \in DOMAIN Baseline : x = Baseline[i]
             \/ \E i \in DOMAIN acts : IsDraw(acts[i]) /\ x = acts[i].stroke
  BY DEF Roots, Range
<1>2. \A i \in DOMAIN acts : IsDraw(acts[i]) => \A j \in DOMAIN Baseline :
        acts[i].stroke.id # Baseline[j].id
  BY DEF RootsAreApart, IdsOf
<1>3. \A i, j \in DOMAIN acts :
        IsDraw(acts[i]) /\ IsDraw(acts[j]) /\ acts[j].stroke.id = acts[i].stroke.id => i = j
  BY DEF RootsAreApart
<1>4. \A i, j \in DOMAIN Baseline : Baseline[i].id = Baseline[j].id => i = j
  BY JournalAssumption DEF Distinct
<1>5. CASE \E i \in DOMAIN Baseline : r = Baseline[i]
  BY <1>1, <1>2, <1>4, <1>5
<1>6. CASE \E i \in DOMAIN acts : IsDraw(acts[i]) /\ r = acts[i].stroke
  BY <1>1, <1>2, <1>3, <1>6
<1> QED
  BY <1>1, <1>5, <1>6

(* Whatever is left of a root is its author's.                             *)
LEMMA OwnRootsAreNoOthers ==
  ASSUME NEW acts \in Seq(Action), NEW root \in Stroke
  PROVE  ByOthers(RenderStroke(acts, root), root.author) = <<>>
<1>1. /\ RenderStroke(acts, root) \in Seq(Stroke)
      /\ \A k \in DOMAIN RenderStroke(acts, root) :
           RenderStroke(acts, root)[k].author = root.author
  BY RenderStrokeFacts DEF Piece
<1> QED
  BY <1>1, ByOthersOfOwn

(* The strokes of the others, root by root.                                *)
LEMMA OthersAt ==
  ASSUME NEW acts \in Seq(Action), NEW p
  PROVE  LET others == OthersOf(Parts(acts), p)
         IN  /\ others \in Seq(Seq(Stroke)) /\ Len(others) = Len(Baseline) + Len(acts)
             /\ \A i \in 1 .. Len(Baseline) : others[i] = ByOthers(RenderStroke(acts, Baseline[i]), p)
             /\ \A i \in 1 .. Len(acts) : others[Len(Baseline) + i] =
                  IF IsDraw(acts[i]) /\ acts[i].active
                  THEN ByOthers(RenderStroke(acts, acts[i].stroke), p) ELSE <<>>
             /\ ByOthers(RenderedStrokes(acts), p) = FlattenSeq(others)
<1> DEFINE others == OthersOf(Parts(acts), p)
<1>1. /\ Len(acts) \in Nat /\ DOMAIN acts = 1 .. Len(acts)
      /\ Len(Parts(acts)) = Len(Baseline) + Len(acts)
      /\ DOMAIN Parts(acts) = 1 .. Len(Baseline) + Len(acts)
      /\ Parts(acts) \in Seq(Seq(Stroke))
      /\ \A i \in DOMAIN Parts(acts) :
           Parts(acts)[i] = IF i <= Len(Baseline) THEN BaselineParts(acts)[i]
                                                 ELSE DrawnParts(acts)[i - Len(Baseline)]
  BY PartsAt
<1>2. others \in Seq(Seq(Stroke)) /\ Len(others) = Len(Baseline) + Len(acts)
  BY <1>1, OthersOfSeq
<1>3. \A i \in DOMAIN Parts(acts) : others[i] = ByOthers(Parts(acts)[i], p)
  BY DEF OthersOf
<1>4. ByOthers(RenderedStrokes(acts), p) = FlattenSeq(others)
  <2>1. RenderedStrokes(acts) = FlattenSeq(Parts(acts))
    BY DEF RenderedStrokes, Parts, BaselineParts, DrawnParts
  <2> QED
    BY <1>1, <2>1, ByOthersFlatten
<1> HIDE DEF others
<1>5. ASSUME NEW i \in 1 .. Len(Baseline)
      PROVE  others[i] = ByOthers(RenderStroke(acts, Baseline[i]), p)
  <2>1. i \in DOMAIN Parts(acts) /\ i <= Len(Baseline) /\ i \in DOMAIN Baseline
    BY <1>1, BaselineFacts
  <2>2. BaselineParts(acts)[i] = RenderStroke(acts, Baseline[i])
    BY <2>1 DEF BaselineParts
  <2> QED
    BY <1>1, <1>3, <2>1, <2>2
<1>6. ASSUME NEW i \in 1 .. Len(acts)
      PROVE  others[Len(Baseline) + i] =
               IF IsDraw(acts[i]) /\ acts[i].active
               THEN ByOthers(RenderStroke(acts, acts[i].stroke), p) ELSE <<>>
  <2> DEFINE n == Len(Baseline) + i
  <2>1. n \in DOMAIN Parts(acts) /\ ~(n <= Len(Baseline)) /\ n - Len(Baseline) = i
    BY <1>1, BaselineFacts
  <2>2. DrawnParts(acts)[i] = IF IsDraw(acts[i]) /\ acts[i].active
                              THEN RenderStroke(acts, acts[i].stroke) ELSE <<>>
    BY <1>1 DEF DrawnParts
  <2> HIDE DEF n
  <2>3. others[n] = ByOthers(DrawnParts(acts)[i], p)
    BY <1>1, <1>3, <2>1
  <2>4. CASE IsDraw(acts[i]) /\ acts[i].active
    BY <2>2, <2>3, <2>4 DEF n
  <2>5. CASE ~(IsDraw(acts[i]) /\ acts[i].active)
    BY <2>2, <2>3, <2>5, ByOthersEmpty DEF n
  <2> QED
    BY <2>4, <2>5
<1> QED
  BY <1>2, <1>4, <1>5, <1>6 DEF others

(* Switching actions of p, when it draws p's strokes and erases them alone, *)
(* leaves the strokes of the others as they are.                           *)
LEMMA SwitchLeavesOthers ==
  ASSUME NEW acts \in Seq(Action), NEW new \in Seq(Action), NEW p,
         Len(new) = Len(acts),
         \A i \in DOMAIN acts : IsDraw(new[i]) = IsDraw(acts[i]),
         \A i \in DOMAIN acts : IsDraw(acts[i]) =>
           /\ new[i].stroke = acts[i].stroke
           /\ new[i].active = acts[i].active \/ acts[i].stroke.author = p,
         \A root \in Roots(acts) :
           root.author = p \/ RenderStroke(new, root) = RenderStroke(acts, root)
  PROVE  ByOthers(RenderedStrokes(new), p) = ByOthers(RenderedStrokes(acts), p)
<1> DEFINE left  == OthersOf(Parts(acts), p)
           right == OthersOf(Parts(new), p)
           n == Len(Baseline) + Len(acts)
<1>1. /\ left \in Seq(Seq(Stroke)) /\ Len(left) = n
      /\ \A i \in 1 .. Len(Baseline) : left[i] = ByOthers(RenderStroke(acts, Baseline[i]), p)
      /\ \A i \in 1 .. Len(acts) : left[Len(Baseline) + i] =
           IF IsDraw(acts[i]) /\ acts[i].active
           THEN ByOthers(RenderStroke(acts, acts[i].stroke), p) ELSE <<>>
      /\ ByOthers(RenderedStrokes(acts), p) = FlattenSeq(left)
  BY OthersAt
<1>2. /\ right \in Seq(Seq(Stroke)) /\ Len(right) = n
      /\ \A i \in 1 .. Len(Baseline) : right[i] = ByOthers(RenderStroke(new, Baseline[i]), p)
      /\ \A i \in 1 .. Len(acts) : right[Len(Baseline) + i] =
           IF IsDraw(new[i]) /\ new[i].active
           THEN ByOthers(RenderStroke(new, new[i].stroke), p) ELSE <<>>
      /\ ByOthers(RenderedStrokes(new), p) = FlattenSeq(right)
  BY OthersAt
<1> HIDE DEF left, right
<1>3. ASSUME NEW root \in Roots(acts), root \in Stroke
      PROVE  ByOthers(RenderStroke(new, root), p) = ByOthers(RenderStroke(acts, root), p)
  BY <1>3, OwnRootsAreNoOthers
<1>4. Len(acts) \in Nat /\ DOMAIN acts = 1 .. Len(acts) /\ Len(Baseline) \in Nat
  BY ActionFacts, BaselineFacts
<1>5. ASSUME NEW i \in 1 .. Len(Baseline)  PROVE right[i] = left[i]
  <2>1. i \in DOMAIN Baseline /\ Baseline[i] \in Stroke
    BY BaselineFacts
  <2>2. Baseline[i] \in Roots(acts)
    BY <2>1 DEF Roots, Range
  <2> QED
    BY <1>1, <1>2, <1>3, <2>1, <2>2
<1>6. ASSUME NEW i \in 1 .. Len(acts)  PROVE right[Len(Baseline) + i] = left[Len(Baseline) + i]
  <2>1. i \in DOMAIN acts
    BY <1>4
  <2>2. CASE ~IsDraw(acts[i])
    BY <1>1, <1>2, <2>1, <2>2
  <2>3. CASE IsDraw(acts[i])
    <3>1. acts[i].stroke \in Stroke /\ acts[i].stroke \in Roots(acts)
      BY <2>1, <2>3, ActionFacts DEF Roots
    <3>2. ByOthers(RenderStroke(new, acts[i].stroke), p) = ByOthers(RenderStroke(acts, acts[i].stroke), p)
      BY <1>3, <3>1
    <3>3. CASE new[i].active = acts[i].active
      BY <1>1, <1>2, <2>1, <2>3, <3>2, <3>3
    <3>4. CASE acts[i].stroke.author = p
      <4>1. ByOthers(RenderStroke(acts, acts[i].stroke), p) = <<>>
        BY <3>1, <3>4, OwnRootsAreNoOthers
      <4> QED
        BY <1>1, <1>2, <2>1, <3>2, <4>1
    <3> QED
      BY <2>1, <2>3, <3>3, <3>4
  <2> QED
    BY <2>2, <2>3
<1>7. ASSUME NEW k \in 1 .. n  PROVE right[k] = left[k]
  <2>1. CASE k <= Len(Baseline)
    <3>1. k \in 1 .. Len(Baseline)
      BY <1>4, <2>1
    <3> QED
      BY <1>5, <3>1
  <2>2. CASE ~(k <= Len(Baseline))
    <3> DEFINE i == k - Len(Baseline)
    <3>1. i \in 1 .. Len(acts) /\ k = Len(Baseline) + i
      BY <1>4, <2>2
    <3> HIDE DEF i
    <3> QED
      BY <1>6, <3>1
  <2> QED
    BY <2>1, <2>2
<1>8. right = left
  BY <1>1, <1>2, <1>7, SeqEqual
<1> QED
  BY <1>1, <1>2, <1>8

(* A committed stroke is its actor's.                                      *)
LEMMA CommitLeavesOthers ==
  ASSUME GuestInv, NEW p \in Participant, NEW c \in CommandId, NEW i \in DOMAIN active,
         CommitStroke(p, c, i)
  PROVE  TargetsAreOwn(actions') /\ ByOthers(strokes', p) = ByOthers(strokes, p)
<1> DEFINE d == [kind |-> "draw", id |-> c, actor |-> p, active |-> TRUE, stroke |-> active[i]]
<1>1. /\ active[i].author = p /\ strokes' = Append(strokes, active[i])
      /\ actions' = Append(actions, d)
  BY DEF CommitStroke, RecordAction
<1>2. strokes \in Seq(Stroke) /\ active[i] \in Stroke /\ actions \in Seq(Action)
  BY PageFacts DEF GuestInv
<1>3. d \in Action /\ IsDraw(d) /\ ~IsErase(d) /\ d.stroke = active[i]
  BY <1>2 DEF Action, Draw, IsDraw, IsErase
<1> HIDE DEF d
<1>4. ByOthers(strokes', p) = ByOthers(strokes, p)
  <2>1. ByOthers(strokes, p) \in Seq(Stroke)
    BY <1>2, ByOthersSeq
  <2>2. ByOthers(strokes', p) = ByOthers(strokes, p) \o <<>>
    BY <1>1, <1>2, ByOthersAppend
  <2> QED
    BY <2>1, <2>2, ConcatEmptySeq
<1>5. /\ DOMAIN actions' = 1 .. Len(actions) + 1 /\ DOMAIN actions = 1 .. Len(actions)
      /\ Len(actions) \in Nat /\ actions'[Len(actions) + 1] = d
      /\ \A j \in DOMAIN actions : actions'[j] = actions[j]
  BY <1>1, <1>2, <1>3, AppendFacts, LenProperties
<1>6. \A j \in DOMAIN actions' : (j \in DOMAIN actions /\ actions'[j] = actions[j]) \/ actions'[j] = d
  BY <1>5
<1>7. Roots(actions') \subseteq Roots(actions) \cup {active[i]}
  BY <1>3, <1>6 DEF Roots
<1>8. \A j \in DOMAIN actions : IsErase(actions[j]) => active[i].id \notin actions[j].targets
  <2>1. active[i].id \notin IdsOf(Baseline) \cup DrawnIds
    BY DEF GuestInv, PageInv, HistoryInv, IdsAreFresh
  <2>2. \A j \in DOMAIN actions : IsErase(actions[j]) =>
          actions[j].targets \subseteq IdsOf(Baseline) \cup DrawnIds
    BY DEF GuestInv, PageInv, HistoryInv, HistoryIsValid, TargetsAreRoots, DrawnIds
  <2> QED
    BY <2>1, <2>2
<1>9. TargetsAreOwn(actions')
  BY <1>3, <1>6, <1>7, <1>8 DEF GuestInv, TargetsAreOwn
<1> QED
  BY <1>4, <1>9

(* An eraser of p hits roots of p's alone, unless p is the owner.          *)
LEMMA EraserIsOwn ==
  ASSUME NEW acts, RootsAreApart(acts), NEW p, p # Owner, NEW region,
         NEW root \in Roots(acts), root.id \in EraserTargets(acts, p, region)
  PROVE  root.author = p
<1>1. PICK r \in ActiveRoots(acts) : r.author = p /\ r.id = root.id
  BY DEF EraserTargets
<1>2. r \in Roots(acts)
  BY DEF ActiveRoots, Roots
<1> QED
  BY <1>1, <1>2, RootIdsIdentify

(* Erasing p's roots leaves the strokes of the others as they are.         *)
LEMMA EraserLeavesOthers ==
  ASSUME NEW acts \in Seq(Action), NEW e \in Action, IsErase(e), ~IsDraw(e), NEW p,
         \A root \in Roots(acts) : root.id \in e.targets => root.author = p
  PROVE  ByOthers(RenderedStrokes(Append(acts, e)), p) = ByOthers(RenderedStrokes(acts), p)
<1> DEFINE new == Append(acts, e)
<1>1. /\ new \in Seq(Action) /\ DOMAIN new = 1 .. Len(acts) + 1 /\ Len(acts) \in Nat
      /\ DOMAIN acts = 1 .. Len(acts) /\ Len(new) = Len(acts) + 1
      /\ \A i \in DOMAIN acts : new[i] = acts[i] /\ i \in DOMAIN new
      /\ new[Len(acts) + 1] = e
  BY AppendFacts, LenProperties
<1> HIDE DEF new
<1>2. ASSUME NEW root \in Roots(acts), root.author # p
      PROVE  RenderStroke(new, root) = RenderStroke(acts, root)
  <2>1. root.id \notin e.targets
    BY <1>2
  <2>2. \A i \in DOMAIN new : i \in DOMAIN acts \/ new[i] = e
    BY <1>1
  <2>3. ErasersOf(new, root.id) = ErasersOf(acts, root.id)
    <3>1. \A i \in ErasersOf(new, root.id) : i \in ErasersOf(acts, root.id)
      BY <1>1, <2>1, <2>2 DEF ErasersOf
    <3>2. \A i \in ErasersOf(acts, root.id) : i \in ErasersOf(new, root.id)
      BY <1>1 DEF ErasersOf
    <3> QED
      BY <3>1, <3>2
  <2>4. \A i \in ErasersOf(acts, root.id) : new[i] = acts[i]
    BY <1>1 DEF ErasersOf
  <2> QED
    BY <2>3, <2>4, SameErasersRender
<1>3. ASSUME NEW root \in Roots(acts), root \in Stroke
      PROVE  ByOthers(RenderStroke(new, root), p) = ByOthers(RenderStroke(acts, root), p)
  <2>1. CASE root.author = p
    BY <1>1, <1>3, <2>1, OwnRootsAreNoOthers
  <2>2. CASE root.author # p
    BY <1>2, <2>2
  <2> QED
    BY <2>1, <2>2
<1> DEFINE left  == OthersOf(Parts(acts), p)
           right == OthersOf(Parts(new), p)
           n == Len(Baseline) + Len(acts)
<1>4. /\ left \in Seq(Seq(Stroke)) /\ Len(left) = n
      /\ \A i \in 1 .. Len(Baseline) : left[i] = ByOthers(RenderStroke(acts, Baseline[i]), p)
      /\ \A i \in 1 .. Len(acts) : left[Len(Baseline) + i] =
           IF IsDraw(acts[i]) /\ acts[i].active
           THEN ByOthers(RenderStroke(acts, acts[i].stroke), p) ELSE <<>>
      /\ ByOthers(RenderedStrokes(acts), p) = FlattenSeq(left)
  BY OthersAt
<1>5. /\ right \in Seq(Seq(Stroke)) /\ Len(right) = n + 1
      /\ \A i \in 1 .. Len(Baseline) : right[i] = ByOthers(RenderStroke(new, Baseline[i]), p)
      /\ \A i \in 1 .. Len(new) : right[Len(Baseline) + i] =
           IF IsDraw(new[i]) /\ new[i].active
           THEN ByOthers(RenderStroke(new, new[i].stroke), p) ELSE <<>>
      /\ ByOthers(RenderedStrokes(new), p) = FlattenSeq(right)
  <2>1. Len(Baseline) + Len(new) = n + 1
    BY <1>1, BaselineFacts
  <2> QED
    BY <1>1, <2>1, OthersAt
<1> HIDE DEF left, right
<1>6. Len(Baseline) \in Nat /\ n \in Nat
  BY <1>1, BaselineFacts
<1>7. ASSUME NEW i \in 1 .. Len(Baseline)  PROVE right[i] = left[i]
  <2>1. i \in DOMAIN Baseline /\ Baseline[i] \in Stroke
    BY BaselineFacts
  <2>2. Baseline[i] \in Roots(acts)
    BY <2>1 DEF Roots, Range
  <2> QED
    BY <1>3, <1>4, <1>5, <2>1, <2>2
<1>8. ASSUME NEW i \in 1 .. Len(acts)  PROVE right[Len(Baseline) + i] = left[Len(Baseline) + i]
  <2>1. i \in DOMAIN acts /\ i \in 1 .. Len(new) /\ new[i] = acts[i]
    BY <1>1
  <2>2. CASE ~(IsDraw(acts[i]) /\ acts[i].active)
    BY <1>4, <1>5, <2>1, <2>2
  <2>3. CASE IsDraw(acts[i]) /\ acts[i].active
    <3>1. acts[i].stroke \in Stroke /\ acts[i].stroke \in Roots(acts)
      BY <2>1, <2>3, ActionFacts DEF Roots
    <3> QED
      BY <1>3, <1>4, <1>5, <2>1, <2>3, <3>1
  <2> QED
    BY <2>2, <2>3
<1>9. right[n + 1] = <<>>
  <2>1. Len(acts) + 1 \in 1 .. Len(new) /\ ~IsDraw(new[Len(acts) + 1])
    BY <1>1
  <2>2. right[Len(Baseline) + (Len(acts) + 1)] = <<>>
    BY <1>5, <2>1
  <2>3. Len(Baseline) + (Len(acts) + 1) = n + 1
    BY <1>1, <1>6
  <2> QED
    BY <2>2, <2>3
<1>10. ASSUME NEW k \in 1 .. n  PROVE right[k] = left[k]
  <2>1. CASE k <= Len(Baseline)
    <3>1. k \in 1 .. Len(Baseline)
      BY <1>6, <2>1
    <3> QED
      BY <1>7, <3>1
  <2>2. CASE ~(k <= Len(Baseline))
    <3> DEFINE i == k - Len(Baseline)
    <3>1. i \in 1 .. Len(acts) /\ k = Len(Baseline) + i
      BY <1>1, <1>6, <2>2
    <3> HIDE DEF i
    <3> QED
      BY <1>8, <3>1
  <2> QED
    BY <2>1, <2>2
<1> HIDE DEF n
<1>11. right = Append(left, <<>>)
  <2>1. <<>> \in Seq(Stroke)
    BY EmptySeq
  <2> DEFINE longer == Append(left, <<>>)
  <2>2. /\ longer \in Seq(Seq(Stroke)) /\ Len(longer) = n + 1
        /\ \A k \in 1 .. n : longer[k] = left[k]
        /\ longer[n + 1] = <<>>
    BY <1>4, <2>1, AppendProperties
  <2> HIDE DEF longer
  <2>3. \A k \in 1 .. n + 1 : right[k] = longer[k]
    <3> TAKE k \in 1 .. n + 1
    <3>1. k \in 1 .. n \/ k = n + 1
      BY <1>6
    <3> QED
      BY <1>9, <1>10, <2>2, <3>1
  <2>4. right = longer
    BY <1>5, <2>2, <2>3, SeqEqual
  <2> QED
    BY <2>4 DEF longer
<1>12. FlattenSeq(right) = FlattenSeq(left)
  <2>1. <<>> \in Seq(Stroke) /\ FlattenSeq(left) \in Seq(Stroke)
    BY <1>4, EmptySeq, FlattenFacts
  <2>2. FlattenSeq(right) = FlattenSeq(left) \o <<>>
    BY <1>4, <1>11, <2>1, FlattenAppend
  <2> QED
    BY <2>1, <2>2, ConcatEmptySeq
<1> QED
  BY <1>4, <1>5, <1>12 DEF new

(* A guest's eraser leaves the strokes of the others as they are.          *)
LEMMA EraseLeavesOthers ==
  ASSUME GuestInv, NEW p \in Participant, NEW c \in CommandId, NEW region \in Region,
         Erase(p, c, region)
  PROVE  TargetsAreOwn(actions') /\ (p # Owner => ByOthers(strokes', p) = ByOthers(strokes, p))
<1> DEFINE targets == EraserTargets(actions, p, region)
           e == [kind |-> "erase", id |-> c, actor |-> p, active |-> TRUE,
                 region |-> region, targets |-> targets]
<1>1. actions' = Append(actions, e) /\ strokes' = RenderedStrokes(actions')
  BY DEF Erase, RecordAction, SetCommittedStrokes
<1>2. actions \in Seq(Action) /\ RootsAreApart(actions)
  BY PageFacts DEF GuestInv
<1>3. region \in SUBSET Cell /\ targets \subseteq StrokeId
  BY JournalAssumption, TargetsAreKnown DEF GuestInv, PageInv
<1>4. p # Owner => \A root \in Roots(actions) : root.id \in targets => root.author = p
  BY <1>2, EraserIsOwn
<1> HIDE DEF targets
<1>5. e \in Action /\ IsErase(e) /\ ~IsDraw(e) /\ e.targets = targets /\ e.actor = p
  BY <1>3 DEF Action, Erasure, IsDraw, IsErase
<1> HIDE DEF e
<1>6. /\ DOMAIN actions' = 1 .. Len(actions) + 1 /\ DOMAIN actions = 1 .. Len(actions)
      /\ Len(actions) \in Nat /\ actions'[Len(actions) + 1] = e
      /\ \A j \in DOMAIN actions : actions'[j] = actions[j]
  BY <1>1, <1>2, <1>5, AppendFacts, LenProperties
<1>7. \A j \in DOMAIN actions' : (j \in DOMAIN actions /\ actions'[j] = actions[j]) \/ actions'[j] = e
  BY <1>6
<1>8. Roots(actions') \subseteq Roots(actions)
  BY <1>5, <1>7 DEF Roots
<1>9. TargetsAreOwn(actions')
  BY <1>4, <1>5, <1>7, <1>8 DEF GuestInv, TargetsAreOwn
<1>10. p # Owner => ByOthers(strokes', p) = ByOthers(strokes, p)
  <2> SUFFICES ASSUME p # Owner  PROVE ByOthers(strokes', p) = ByOthers(strokes, p)
    OBVIOUS
  <2>1. strokes = RenderedStrokes(actions)
    BY DEF GuestInv, PageInv, PageBounds, PageIsRendered
  <2>2. \A root \in Roots(actions) : root.id \in e.targets => root.author = p
    BY <1>4, <1>5
  <2> QED
    BY <1>1, <1>2, <1>5, <2>1, <2>2, EraserLeavesOthers
<1> QED
  BY <1>9, <1>10

(* Undo and redo of a guest leave the strokes of the others as they are.   *)
LEMMA SwitchingLeavesOthers ==
  ASSUME GuestInv, NEW p \in Participant, NEW id, NEW flag \in BOOLEAN,
         ActionWith(actions, p, id, ~flag), actions' = SetActive(actions, id, flag),
         SetCommittedStrokes(RenderedStrokes(actions'))
  PROVE  TargetsAreOwn(actions') /\ (p # Owner => ByOthers(strokes', p) = ByOthers(strokes, p))
<1>1. strokes' = RenderedStrokes(actions') /\ strokes = RenderedStrokes(actions)
  BY DEF SetCommittedStrokes, GuestInv, PageInv, PageBounds, PageIsRendered
<1>2. actions \in Seq(Action)
  BY PageFacts DEF GuestInv
<1>3. /\ actions' \in Seq(Action) /\ DOMAIN actions' = DOMAIN actions
      /\ \A i \in DOMAIN actions :
           /\ actions'[i].id = actions[i].id /\ actions'[i].actor = actions[i].actor
           /\ actions'[i].active = IF actions[i].id = id THEN flag ELSE actions[i].active
           /\ IsDraw(actions'[i]) = IsDraw(actions[i]) /\ IsErase(actions'[i]) = IsErase(actions[i])
           /\ IsDraw(actions[i]) => actions'[i].stroke = actions[i].stroke
           /\ IsErase(actions[i]) => /\ actions'[i].targets = actions[i].targets
                                     /\ actions'[i].region = actions[i].region
  BY <1>2, SetActiveFacts
<1>4. Roots(actions') \subseteq Roots(actions)
  BY <1>3 DEF Roots
<1>5. TargetsAreOwn(actions')
  BY <1>3, <1>4 DEF GuestInv, TargetsAreOwn
<1>6. \A i \in DOMAIN actions : actions[i].id = id => actions[i].actor = p
  BY DEF ActionWith, GuestInv, PageInv, HistoryInv, HistoryIsValid, ActionIdsAreDistinct, Distinct
<1>7. ASSUME p # Owner  PROVE ByOthers(strokes', p) = ByOthers(strokes, p)
  <2>1. \A i \in DOMAIN actions : IsDraw(actions[i]) =>
          /\ actions'[i].stroke = actions[i].stroke
          /\ actions'[i].active = actions[i].active \/ actions[i].stroke.author = p
    BY <1>3, <1>6 DEF GuestInv, PageInv, HistoryInv, HistoryIsValid, DrawsAreWhole
  <2>2. ASSUME NEW root \in Roots(actions), root.author # p
        PROVE  RenderStroke(actions', root) = RenderStroke(actions, root)
    <3>1. \A i \in DOMAIN actions : IsErase(actions[i]) /\ root.id \in actions[i].targets =>
            actions[i].id # id
      BY <1>6, <1>7, <2>2 DEF GuestInv, TargetsAreOwn
    <3>2. ErasersOf(actions', root.id) = ErasersOf(actions, root.id)
      <4>1. \A i \in ErasersOf(actions', root.id) : i \in ErasersOf(actions, root.id)
        BY <1>3, <3>1 DEF ErasersOf
      <4>2. \A i \in ErasersOf(actions, root.id) : i \in ErasersOf(actions', root.id)
        BY <1>3, <3>1 DEF ErasersOf
      <4> QED
        BY <4>1, <4>2
    <3>3. \A i \in ErasersOf(actions, root.id) :
            actions'[i].region = actions[i].region /\ actions'[i].id = actions[i].id
      BY <1>3 DEF ErasersOf
    <3> QED
      BY <3>2, <3>3, SameErasersRender
  <2>3. \A root \in Roots(actions) :
          root.author = p \/ RenderStroke(actions', root) = RenderStroke(actions, root)
    BY <2>2
  <2>4. Len(actions') = Len(actions)
    BY <1>2, RecordedStays
  <2>5. \A i \in DOMAIN actions : IsDraw(actions'[i]) = IsDraw(actions[i])
    BY <1>3
  <2> QED
    BY <1>1, <1>2, <1>3, <2>1, <2>3, <2>4, <2>5, SwitchLeavesOthers
<1> QED
  BY <1>5, <1>7

(* What each command does to the strokes of the others.                    *)
LEMMA SubmitLeavesOthers ==
  ASSUME GuestInv, NEW p \in Participant, NEW c \in CommandId, Submit(p, c)
  PROVE  /\ TargetsAreOwn(actions') /\ (p # Owner => ByOthers(strokes', p) = ByOthers(strokes, p))
         /\ DOMAIN commands' \ DOMAIN commands = {c} /\ commands'[c].actor = p
<1> DEFINE good  == TargetsAreOwn(actions') /\ (p # Owner => ByOthers(strokes', p) = ByOthers(strokes, p))
           taken == DOMAIN commands' \ DOMAIN commands = {c} /\ commands'[c].actor = p
<1>1. ASSUME NEW kind, NEW about, Record(p, c, kind, about)  PROVE taken
  BY <1>1 DEF Record
<1>2. UNCHANGED <<strokes, actions>> => good
  BY DEF GuestInv
<1> HIDE DEF good, taken
<1>3. ASSUME NEW r \in RootId, BeginStroke(p, c, r)  PROVE good /\ taken
  BY <1>1, <1>2, <1>3 DEF BeginStroke, historyVars
<1>4. ASSUME NEW i \in DOMAIN active, NEW first, NEW batch, AppendStrokePoints(p, c, i, first, batch)
      PROVE  good /\ taken
  BY <1>1, <1>2, <1>4 DEF AppendStrokePoints, historyVars
<1>5. ASSUME NEW i \in DOMAIN active, CommitStroke(p, c, i)  PROVE good /\ taken
  BY <1>1, <1>5, CommitLeavesOthers DEF CommitStroke, good
<1>6. ASSUME NEW i \in DOMAIN active, CancelStroke(p, c, i)  PROVE good /\ taken
  BY <1>1, <1>2, <1>6 DEF CancelStroke, historyVars
<1>7. ASSUME NEW region \in Region, Erase(p, c, region)  PROVE good /\ taken
  BY <1>1, <1>7, EraseLeavesOthers DEF Erase, good
<1>8. ASSUME NEW region \in Region, EraseNothing(p, c, region)  PROVE good /\ taken
  BY <1>1, <1>2, <1>8 DEF EraseNothing, pageVars, historyVars
<1>9. ASSUME Undo(p, c)  PROVE good /\ taken
  <2>1. good
    BY <1>9, SwitchingLeavesOthers DEF Undo, good
  <2> QED
    BY <1>1, <1>9, <2>1 DEF Undo
<1>10. ASSUME Redo(p, c)  PROVE good /\ taken
  <2>1. good
    BY <1>10, SwitchingLeavesOthers DEF Redo, good
  <2> QED
    BY <1>1, <1>10, <2>1 DEF Redo
<1>11. good /\ taken
  BY <1>3, <1>4, <1>5, <1>6, <1>7, <1>8, <1>9, <1>10 DEF Submit
<1> QED
  BY <1>11 DEF good, taken

(* "Guests may replace only their own strokes": whatever a guest submits,  *)
(* undo and redo of what it did long ago included, the strokes of everyone *)
(* else stay as they were and in their order.                              *)
THEOREM GuestsNeverTouchOthers == Spec => GuestsLeaveOthersAlone
<1> DEFINE Left == \A c \in DOMAIN commands' \ DOMAIN commands :
                     LET p == commands'[c].actor
                     IN  p # Owner => ByOthers(strokes', p) = ByOthers(strokes, p)
<1>1. Init => GuestInv
  <2> SUFFICES ASSUME Init  PROVE GuestInv
    OBVIOUS
  <2>1. DOMAIN actions = {}
    BY DEF Init
  <2> QED
    BY <2>1, InitIsValid, InitBounds DEF GuestInv, PageInv, TargetsAreOwn
<1>2. GuestInv /\ [Next]_vars => GuestInv' /\ [Left]_vars
  <2> SUFFICES ASSUME GuestInv, [Next]_vars  PROVE GuestInv' /\ [Left]_vars
    OBVIOUS
  <2>1. PageInv'
    BY NextBounds DEF GuestInv
  <2>2. CASE UNCHANGED vars
    BY <2>1, <2>2 DEF GuestInv, vars, historyVars
  <2>3. ASSUME NEW p \in Participant, NEW c \in CommandId, Submit(p, c)
        PROVE  GuestInv' /\ Left
    <3>1. TargetsAreOwn(actions') /\ (p # Owner => ByOthers(strokes', p) = ByOthers(strokes, p))
          /\ DOMAIN commands' \ DOMAIN commands = {c} /\ commands'[c].actor = p
      BY <2>3, SubmitLeavesOthers
    <3> QED
      BY <2>1, <3>1 DEF GuestInv
  <2> QED
    BY <2>2, <2>3 DEF Next
<1> HIDE DEF Left
<1>3. Spec => [][Left]_vars
  BY <1>1, <1>2, PTL DEF Spec
<1> QED
  BY <1>3 DEF Left, GuestsLeaveOthersAlone
=============================================================================
