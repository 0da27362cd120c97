------------------------ MODULE XrtThreadListsProofs ------------------------
(***************************************************************************)
(* What inserting by priority and removing do to one list, and what Push   *)
(* and Unlink do to the family of all lists.                               *)
(***************************************************************************)
EXTENDS XrtThreadLists, TLAPS, NaturalsInduction, WellFoundedInduction,
        SequenceTheorems

----------------------------------------------------------------------------
(* Sequences. *)

\* A nonempty set of positions has a first one.
LEMMA SmallestExists ==
    ASSUME NEW S \in SUBSET Nat, S # {}
    PROVE  \E m \in S : \A k \in S : m <= k
<1>1. IsWellFoundedOn(OpToRel(<, Nat), Nat)
  BY NatLessThanWellFounded
<1>2. PICK m \in S : \A k \in S : ~(<<k, m>> \in OpToRel(<, Nat))
  BY <1>1, WFMin
<1>3. ASSUME NEW k \in S PROVE m <= k
  <2>1. ~(k < m)
    BY <1>2 DEF OpToRel
  <2>. QED BY <2>1
<1>. QED BY <1>2, <1>3

\* Min is the least element, as SelectInSeq and RemoveFirst use it.
LEMMA SelectedIsFirst ==
    ASSUME NEW S \in SUBSET Nat, S # {}
    PROVE  /\ Min(S) \in S
           /\ \A k \in S : Min(S) <= k
BY SmallestExists DEF Min

\* InsertAt, position by position.
LEMMA InsertAtShape ==
    ASSUME NEW T, NEW s \in Seq(T), NEW t \in T, NEW i \in 1..Len(s)
    PROVE  /\ InsertAt(s, i, t) \in Seq(T)
           /\ Len(InsertAt(s, i, t)) = Len(s) + 1
           /\ \A j \in 1..Len(s) + 1 :
                 InsertAt(s, i, t)[j] =
                    IF j < i THEN s[j] ELSE IF j = i THEN t ELSE s[j - 1]
BY DEF InsertAt

\* RemoveAt, position by position.
LEMMA RemoveAtShape ==
    ASSUME NEW T, NEW s \in Seq(T), NEW i \in 1..Len(s)
    PROVE  /\ RemoveAt(s, i) \in Seq(T)
           /\ Len(RemoveAt(s, i)) = Len(s) - 1
           /\ \A j \in 1..Len(s) - 1 :
                 RemoveAt(s, i)[j] = IF j < i THEN s[j] ELSE s[j + 1]
<1> DEFINE a == SubSeq(s, 1, i - 1)
           b == SubSeq(s, i + 1, Len(s))
<1>1. /\ a \in Seq(T) /\ Len(a) = i - 1
      /\ \A j \in 1..i - 1 : a[j] = s[j]
  OBVIOUS
<1>2. /\ b \in Seq(T) /\ Len(b) = Len(s) - i
      /\ \A j \in 1..Len(s) - i : b[j] = s[i + j]
  OBVIOUS
<1> HIDE DEF a, b
<1>3. /\ a \o b \in Seq(T)
      /\ Len(a \o b) = Len(a) + Len(b)
  BY <1>1, <1>2, ConcatProperties
<1>4. Len(a \o b) = Len(s) - 1
  BY <1>1, <1>2, <1>3
<1>5. ASSUME NEW j \in 1..Len(s) - 1
      PROVE  (a \o b)[j] = IF j < i THEN s[j] ELSE s[j + 1]
  <2>1. CASE j < i
    <3>1. j \in 1..Len(a)
      BY <1>1, <2>1
    <3>2. (a \o b)[j] = a[j]
      BY <1>1, <1>2, <3>1
    <3>. QED BY <1>1, <2>1, <3>1, <3>2
  <2>2. CASE ~(j < i)
    <3>1. (a \o b)[j] = b[j - Len(a)]
      BY <1>1, <1>2, <2>2
    <3>2. j - (i - 1) \in 1..Len(s) - i
      BY <2>2
    <3>. QED BY <1>1, <1>2, <2>2, <3>1, <3>2
  <2>. QED BY <2>1, <2>2
<1>. QED BY <1>3, <1>4, <1>5 DEF RemoveAt, a, b

----------------------------------------------------------------------------
(* One list. *)

\* What the lemmas say of the list r that s becomes when t comes in.
Gains(r, s, t, T) ==
    /\ r \in Seq(T)
    /\ r # <<>>
    /\ IsInjective(r)
    /\ ToSet(r) = ToSet(s) \cup {t}

\* ... and when t goes.
Loses(r, s, t, T) ==
    /\ r \in Seq(T)
    /\ IsInjective(r)
    /\ ToSet(r) = ToSet(s) \ {t}

\* Appending a new element keeps a sequence injective.
LEMMA AppendGains ==
    ASSUME NEW T, NEW s \in Seq(T), NEW t \in T,
           IsInjective(s), t \notin ToSet(s)
    PROVE  Gains(Append(s, t), s, t, T)
BY DEF Gains, IsInjective, ToSet

\* So does inserting one.
LEMMA InsertAtGains ==
    ASSUME NEW T, NEW s \in Seq(T), NEW t \in T, NEW i \in 1..Len(s),
           IsInjective(s), t \notin ToSet(s)
    PROVE  Gains(InsertAt(s, i, t), s, t, T)
<1> DEFINE r == InsertAt(s, i, t)
<1>1. /\ r \in Seq(T)
      /\ Len(r) = Len(s) + 1
      /\ \A j \in 1..Len(s) + 1 :
            r[j] = IF j < i THEN s[j] ELSE IF j = i THEN t ELSE s[j - 1]
  BY InsertAtShape
<1> HIDE DEF r
<1>2. IsInjective(r)
  BY SMTT(30), <1>1 DEF IsInjective, ToSet
<1>3. ToSet(r) \subseteq ToSet(s) \cup {t}
  BY <1>1 DEF ToSet
<1>4. t \in ToSet(r)
  <2>1. r[i] = t
    BY <1>1
  <2>. QED BY <1>1, <2>1 DEF ToSet
<1>5. ASSUME NEW j \in 1..Len(s) PROVE s[j] \in ToSet(r)
  <2>1. CASE j < i
    <3>1. r[j] = s[j]
      BY <1>1, <2>1
    <3>. QED BY <1>1, <3>1 DEF ToSet
  <2>2. CASE ~(j < i)
    <3>1. r[j + 1] = s[j]
      BY <1>1, <2>2
    <3>. QED BY <1>1, <3>1 DEF ToSet
  <2>. QED BY <2>1, <2>2
<1>6. r # <<>>
  BY <1>1
<1>7. ToSet(s) \subseteq ToSet(r)
  BY <1>5 DEF ToSet
<1>8. Gains(r, s, t, T)
  BY <1>1, <1>2, <1>3, <1>4, <1>6, <1>7 DEF Gains
<1>. QED BY <1>8 DEF r

\* Removing the only occurrence of an element removes it from the range.
LEMMA RemoveAtLoses ==
    ASSUME NEW T, NEW s \in Seq(T), NEW i \in 1..Len(s), IsInjective(s)
    PROVE  Loses(RemoveAt(s, i), s, s[i], T)
<1> DEFINE r == RemoveAt(s, i)
<1>1. /\ r \in Seq(T)
      /\ Len(r) = Len(s) - 1
      /\ \A j \in 1..Len(s) - 1 : r[j] = IF j < i THEN s[j] ELSE s[j + 1]
  BY RemoveAtShape
<1> HIDE DEF r
<1>2. IsInjective(r)
  <2>. SUFFICES ASSUME NEW h \in 1..Len(s) - 1, NEW k \in 1..Len(s) - 1, h < k
                PROVE  r[h] # r[k]
    BY <1>1 DEF IsInjective
  <2>1. PICK x \in 1..Len(s), y \in 1..Len(s) : x < y /\ r[h] = s[x] /\ r[k] = s[y]
    <3>1. CASE k < i
      <4>1. /\ h \in 1..Len(s) /\ k \in 1..Len(s)
            /\ r[h] = s[h] /\ r[k] = s[k]
        BY <1>1, <3>1
      <4>. QED BY <4>1
    <3>2. CASE h < i /\ ~(k < i)
      BY SMTT(30), <1>1, <3>2
    <3>3. CASE ~(h < i)
      BY <1>1, <3>3
    <3>. QED BY <3>1, <3>2, <3>3
  <2>. QED BY <2>1 DEF IsInjective
<1>3. ToSet(r) \subseteq ToSet(s) \ {s[i]}
  BY <1>1 DEF ToSet, IsInjective
<1>4. ASSUME NEW j \in 1..Len(s), j # i PROVE s[j] \in ToSet(r)
  <2>1. CASE j < i
    <3>1. r[j] = s[j]
      BY <1>1, <2>1
    <3>. QED BY <1>1, <2>1, <3>1 DEF ToSet
  <2>2. CASE ~(j < i)
    <3>1. r[j - 1] = s[j]
      BY <1>1, <1>4, <2>2
    <3>. QED BY <1>1, <1>4, <2>2, <3>1 DEF ToSet
  <2>. QED BY <2>1, <2>2
<1>5. ToSet(s) \ {s[i]} \subseteq ToSet(r)
  BY <1>4 DEF ToSet
<1>6. Loses(r, s, s[i], T)
  BY <1>1, <1>2, <1>3, <1>5 DEF Loses
<1>. QED BY <1>6 DEF r

\* Where RemoveFirst removes.
LEMMA RemoveFirstIsRemoveAt ==
    ASSUME NEW T, NEW s \in Seq(T), NEW t \in ToSet(s)
    PROVE  \E i \in 1..Len(s) : s[i] = t /\ RemoveFirst(s, t) = RemoveAt(s, i)
<1> DEFINE I == {i \in 1..Len(s) : s[i] = t}
<1>1. I \in SUBSET Nat /\ I # {}
  BY DEF ToSet
<1>2. Min(I) \in I
  BY <1>1, SelectedIsFirst
<1>3. SelectInSeq(s, LAMBDA v : v = t) = Min(I)
  BY <1>1 DEF SelectInSeq
<1>4. RemoveFirst(s, t) = RemoveAt(s, Min(I))
  BY <1>1, <1>3 DEF RemoveFirst
<1>. QED BY <1>2, <1>4

\* The same of RemoveFirst.
LEMMA RemoveFirstLoses ==
    ASSUME NEW T, NEW s \in Seq(T), NEW t \in ToSet(s), IsInjective(s)
    PROVE  Loses(RemoveFirst(s, t), s, t, T)
BY RemoveFirstIsRemoveAt, RemoveAtLoses

\* Removing keeps the order.
LEMMA RemoveFirstOrdered ==
    ASSUME NEW T, NEW s \in Seq(T), NEW t \in ToSet(s), NEW pr, Ordered(s, pr)
    PROVE  Ordered(RemoveFirst(s, t), pr)
<1>1. PICK i \in 1..Len(s) : RemoveFirst(s, t) = RemoveAt(s, i)
  BY RemoveFirstIsRemoveAt
<1> DEFINE r == RemoveAt(s, i)
<1>2. /\ r \in Seq(T)
      /\ Len(r) = Len(s) - 1
      /\ \A j \in 1..Len(s) - 1 : r[j] = IF j < i THEN s[j] ELSE s[j + 1]
  BY RemoveAtShape
<1> HIDE DEF r
<1>3. ASSUME NEW h \in 1..Len(r), NEW k \in 1..Len(r), h < k
      PROVE  pr[r[h]] >= pr[r[k]]
  <2>1. PICK x \in 1..Len(s), y \in 1..Len(s) : x < y /\ r[h] = s[x] /\ r[k] = s[y]
    <3>1. CASE k < i
      BY SMTT(30), <1>2, <1>3, <3>1
    <3>2. CASE h < i /\ ~(k < i)
      BY SMTT(30), <1>2, <1>3, <3>2
    <3>3. CASE ~(h < i)
      BY <1>2, <1>3, <3>3
    <3>. QED BY <3>1, <3>2, <3>3
  <2>. QED BY <2>1 DEF Ordered
<1>4. Ordered(r, pr)
  BY <1>3 DEF Ordered
<1>. QED BY <1>1, <1>4 DEF r

(***************************************************************************)
(* As committed, an insertion before another thread is not one: these      *)
(* lemmas ask for the repaired call, or that nobody of lower priority is   *)
(* there.                                                                  *)
(***************************************************************************)
Insertable(s, t, pr) == AnchorIsNode \/ \A u \in ToSet(s) : pr[u] >= pr[t]

\* The two cases of an insertion.
LEMMA PushCases ==
    ASSUME NEW T, NEW s \in Seq(T), NEW t \in T, NEW pr \in [T -> Nat],
           Insertable(s, t, pr)
    PROVE  \/ /\ \A i \in 1..Len(s) : pr[s[i]] >= pr[t]
              /\ PushThreadByPriority(s, t, pr) = Append(s, t)
           \/ \E i \in 1..Len(s) :
                 /\ pr[s[i]] < pr[t]
                 /\ \A j \in 1..i - 1 : pr[s[j]] >= pr[t]
                 /\ PushThreadByPriority(s, t, pr) = InsertAt(s, i, t)
<1> DEFINE I == {i \in 1..Len(s) : pr[s[i]] < pr[t]}
           first == SelectInSeq(s, LAMBDA u : pr[u] < pr[t])
<1>1. CASE I = {}
  <2>1. first = 0
    BY <1>1 DEF SelectInSeq
  <2>2. PushThreadByPriority(s, t, pr) = Append(s, t)
    BY <2>1 DEF PushThreadByPriority
  <2>3. ASSUME NEW i \in 1..Len(s) PROVE pr[s[i]] >= pr[t]
    <3>1. s[i] \in T /\ i \notin I
      BY <1>1
    <3>. QED BY <3>1
  <2>. QED BY <2>2, <2>3
<1>2. CASE I # {}
  <2>. I \in SUBSET Nat
    OBVIOUS
  <2>1. PICK m \in I : m = Min(I) /\ \A k \in I : m <= k
    BY <1>2, SelectedIsFirst
  <2>2. first = m
    BY <1>2, <2>1 DEF SelectInSeq
  <2>3. AnchorIsNode = TRUE
    <3>1. s[m] \in ToSet(s)
      BY DEF ToSet
    <3>2. ~(pr[s[m]] >= pr[t])
      <4>1. pr[s[m]] \in Nat /\ pr[t] \in Nat /\ pr[s[m]] < pr[t]
        BY <2>1
      <4>. QED BY <4>1
    <3>. QED BY <3>1, <3>2, AnchorAssumption DEF Insertable
  <2>4. PushThreadByPriority(s, t, pr) = InsertAt(s, m, t)
    BY <2>2, <2>3 DEF PushThreadByPriority
  <2>5. ASSUME NEW j \in 1..m - 1 PROVE pr[s[j]] >= pr[t]
    <3>1. j \in 1..Len(s) /\ s[j] \in T /\ j \notin I
      BY SMTT(30), <2>1
    <3>. QED BY <3>1
  <2>. QED BY <2>1, <2>4, <2>5
<1>. QED BY <1>1, <1>2

\* Inserting by priority adds the thread and nobody else, once.
LEMMA PushGains ==
    ASSUME NEW T, NEW s \in Seq(T), NEW t \in T, NEW pr \in [T -> Nat],
           Insertable(s, t, pr), IsInjective(s), t \notin ToSet(s)
    PROVE  Gains(PushThreadByPriority(s, t, pr), s, t, T)
<1>1. CASE PushThreadByPriority(s, t, pr) = Append(s, t)
  BY <1>1, AppendGains
<1>2. CASE \E i \in 1..Len(s) : PushThreadByPriority(s, t, pr) = InsertAt(s, i, t)
  BY <1>2, InsertAtGains
<1>. QED BY <1>1, <1>2, PushCases

\* Inserting by priority keeps the order.
LEMMA PushOrdered ==
    ASSUME NEW T, NEW s \in Seq(T), NEW t \in T, NEW pr \in [T -> Nat],
           Insertable(s, t, pr), Ordered(s, pr)
    PROVE  Ordered(PushThreadByPriority(s, t, pr), pr)
<1> DEFINE r == PushThreadByPriority(s, t, pr)
<1>1. CASE /\ \A i \in 1..Len(s) : pr[s[i]] >= pr[t]
           /\ r = Append(s, t)
  BY <1>1 DEF Ordered
<1>2. CASE \E i \in 1..Len(s) :
              /\ pr[s[i]] < pr[t]
              /\ \A j \in 1..i - 1 : pr[s[j]] >= pr[t]
              /\ r = InsertAt(s, i, t)
  <2>1. PICK i \in 1..Len(s) :
              /\ pr[s[i]] < pr[t]
              /\ \A j \in 1..i - 1 : pr[s[j]] >= pr[t]
              /\ r = InsertAt(s, i, t)
    BY <1>2
  <2> HIDE DEF r
  <2>2. /\ r \in Seq(T)
        /\ Len(r) = Len(s) + 1
        /\ \A j \in 1..Len(s) + 1 :
              r[j] = IF j < i THEN s[j] ELSE IF j = i THEN t ELSE s[j - 1]
    <3>1. r = InsertAt(s, i, t)
      BY <2>1
    <3>2. /\ InsertAt(s, i, t) \in Seq(T)
          /\ Len(InsertAt(s, i, t)) = Len(s) + 1
          /\ \A j \in 1..Len(s) + 1 :
                InsertAt(s, i, t)[j] =
                   IF j < i THEN s[j] ELSE IF j = i THEN t ELSE s[j - 1]
      BY InsertAtShape
    <3>. QED BY <3>1, <3>2
  <2>3. \A j \in i..Len(s) : pr[s[i]] >= pr[s[j]]
    <3>. SUFFICES ASSUME NEW j \in i..Len(s) PROVE pr[s[i]] >= pr[s[j]]
      OBVIOUS
    <3>1. CASE j = i
      <4>1. pr[s[i]] \in Nat
        OBVIOUS
      <4>. QED BY <3>1, <4>1
    <3>2. CASE i < j
      BY <3>2 DEF Ordered
    <3>. QED BY <3>1, <3>2
  <2>4. ASSUME NEW h \in 1..Len(r), NEW k \in 1..Len(r), h < k
        PROVE  pr[r[h]] >= pr[r[k]]
    <3>. h \in 1..Len(s) + 1 /\ k \in 1..Len(s) + 1
      BY <2>2
    <3>1. CASE k < i
      <4>1. h \in 1..Len(s) /\ k \in 1..Len(s) /\ h < i
        BY <2>4, <3>1
      <4>3. r[h] = s[h] /\ r[k] = s[k]
        BY <2>2, <3>1, <4>1
      <4>2. pr[s[h]] >= pr[s[k]]
        BY <2>4, <4>1 DEF Ordered
      <4>. QED BY <4>2, <4>3
    <3>2. CASE k = i
      <4>1. r[h] = s[h] /\ r[k] = t /\ h \in 1..i - 1
        BY <2>2, <2>4, <3>2
      <4>. QED BY <2>1, <4>1
    <3>3. CASE h < i /\ i < k
      <4>1. h \in 1..Len(s) /\ k - 1 \in 1..Len(s) /\ h < k - 1
        BY <2>4, <3>3
      <4>3. r[h] = s[h] /\ r[k] = s[k - 1]
        BY <2>2, <3>3
      <4>2. pr[s[h]] >= pr[s[k - 1]]
        BY <4>1 DEF Ordered
      <4>. QED BY <4>2, <4>3
    <3>4. CASE h = i
      <4>1. r[h] = t /\ r[k] = s[k - 1] /\ k - 1 \in i..Len(s)
        BY <2>2, <2>4, <3>4
      <4>2. pr[s[i]] >= pr[s[k - 1]]
        BY <2>3, <4>1
      <4>3. pr[s[i]] < pr[t] /\ pr[t] \in Nat /\ pr[s[i]] \in Nat /\ pr[s[k - 1]] \in Nat
        BY <2>1, <4>1
      <4>. QED BY <4>1, <4>2, <4>3
    <3>5. CASE i < h
      <4>1. /\ r[h] = s[h - 1] /\ r[k] = s[k - 1]
            /\ h - 1 \in 1..Len(s) /\ k - 1 \in 1..Len(s) /\ h - 1 < k - 1
        BY <2>2, <2>4, <3>5
      <4>2. pr[s[h - 1]] >= pr[s[k - 1]]
        BY <4>1 DEF Ordered
      <4>. QED BY <4>1, <4>2
    <3>. QED BY <2>2, <2>4, <3>1, <3>2, <3>3, <3>4, <3>5
  <2>. QED BY <2>4 DEF Ordered, r
<1>. QED BY <1>1, <1>2, PushCases

\* A change of priority of threads that are not in the list leaves it ordered.
LEMMA OrderedElsewhere ==
    ASSUME NEW T, NEW s \in Seq(T), NEW pr, NEW qr, Ordered(s, pr),
           \A u \in ToSet(s) : qr[u] = pr[u]
    PROVE  Ordered(s, qr)
BY DEF Ordered, ToSet

\* A list with one element, and the rest of a list.
LEMMA OnlyElement ==
    ASSUME NEW T, NEW s \in Seq(T), NEW t, IsInjective(s), ToSet(s) = {t}
    PROVE  s = <<t>>
<1>1. ASSUME NEW i \in 1..Len(s) PROVE s[i] = t
  BY DEF ToSet
<1>2. Len(s) # 0
  BY SMTT(30) DEF ToSet
<1>3. ~(Len(s) >= 2)
  <2>. SUFFICES ASSUME Len(s) >= 2 PROVE FALSE
    OBVIOUS
  <2>1. 1 \in DOMAIN s /\ 2 \in DOMAIN s /\ s[1] = t /\ s[2] = t
    BY <1>1
  <2>. QED BY <2>1 DEF IsInjective
<1>4. Len(s) = 1
  <2>1. Len(s) \in Nat
    OBVIOUS
  <2>2. \A n \in Nat : n # 0 /\ ~(n >= 2) => n = 1
    OBVIOUS
  <2>. QED BY <1>2, <1>3, <2>1, <2>2
<1>. QED BY <1>1, <1>4

\* A tail has everything but the head.
LEMMA TailLoses ==
    ASSUME NEW T, NEW s \in Seq(T), s # <<>>, IsInjective(s)
    PROVE  /\ Head(s) \in ToSet(s)
           /\ Loses(Tail(s), s, Head(s), T)
<1>1. Len(s) # 0 /\ Head(s) = s[1]
  OBVIOUS
<1>2. /\ Tail(s) \in Seq(T)
      /\ Len(Tail(s)) = Len(s) - 1
      /\ \A i \in 1..Len(s) - 1 : Tail(s)[i] = s[i + 1]
  BY HeadTailProperties
<1>3. Head(s) \in ToSet(s)
  BY <1>1 DEF ToSet
<1>4. IsInjective(Tail(s))
  BY <1>2 DEF IsInjective
<1>5. ToSet(Tail(s)) \subseteq ToSet(s) \ {Head(s)}
  BY <1>1, <1>2 DEF ToSet, IsInjective
<1>6. ASSUME NEW j \in 1..Len(s), j # 1 PROVE s[j] \in ToSet(Tail(s))
  <2>1. j - 1 \in 1..Len(s) - 1 /\ (j - 1) + 1 = j
    BY <1>6
  <2>2. Tail(s)[j - 1] = s[j]
    BY <1>2, <2>1
  <2>3. j - 1 \in DOMAIN Tail(s)
    BY <1>2, <2>1
  <2>. QED BY <2>2, <2>3 DEF ToSet
<1>7. ToSet(s) \ {Head(s)} \subseteq ToSet(Tail(s))
  BY <1>1, <1>6 DEF ToSet
<1>. QED BY <1>2, <1>3, <1>4, <1>5, <1>7 DEF Loses

\* Sequences of at most one element.
LEMMA ShortLists ==
    /\ IsInjective(<<>>) /\ ToSet(<<>>) = {}
    /\ \A t : IsInjective(<<t>>) /\ ToSet(<<t>>) = {t}
BY DEF IsInjective, ToSet

\* The head of a nonempty list is one of its threads.
LEMMA HeadIsIn ==
    ASSUME NEW T, NEW s \in Seq(T), s # <<>>
    PROVE  Head(s) \in ToSet(s) /\ Head(s) \in T
BY DEF ToSet

----------------------------------------------------------------------------
(* The family of all lists.  seat says for each thread of T which of the   *)
(* lists LN holds it.                                                      *)

Placed(ls, seat, LN, T) ==
    /\ ls \in [LN -> Seq(T)]
    /\ \A l \in LN : IsInjective(ls[l]) /\ ToSet(ls[l]) = {t \in T : seat[t] = l}

\* Insertions are safe by the priorities pr.
SafeOrder(pr, T) == AnchorIsNode \/ \A t, u \in T : pr[t] = pr[u]

\* They are by priorities of which InsertionAssumption speaks.
LEMMA SafeInsertable ==
    ASSUME NEW T, NEW s \in Seq(T), NEW t \in T, NEW pr \in [T -> Nat], SafeOrder(pr, T)
    PROVE  Insertable(s, t, pr)
<1>1. ASSUME ~AnchorIsNode, NEW u \in ToSet(s) PROVE pr[u] >= pr[t]
  <2>1. u \in T
    BY DEF ToSet
  <2>2. pr[u] = pr[t] /\ pr[u] \in Nat
    BY <1>1, <2>1 DEF SafeOrder
  <2>. QED BY <2>2
<1>. QED BY <1>1 DEF Insertable

\* A thread in no list of LN goes into one.
LEMMA PushPlaced ==
    ASSUME NEW T, NEW LN, NEW ls, NEW seat, NEW t \in T, NEW l \in LN,
           NEW pr \in [T -> Nat], SafeOrder(pr, T),
           Placed(ls, seat, LN, T), seat[t] \notin LN,
           NEW seat2, \A u \in T : seat2[u] = IF u = t THEN l ELSE seat[u]
    PROVE  /\ Placed(Push(ls, l, t, pr), seat2, LN, T)
           /\ Push(ls, l, t, pr)[l] # <<>>
<1> DEFINE r == PushThreadByPriority(ls[l], t, pr)
<1>1. /\ ls[l] \in Seq(T) /\ IsInjective(ls[l])
      /\ ToSet(ls[l]) = {u \in T : seat[u] = l}
  BY DEF Placed
<1>2. Gains(r, ls[l], t, T)
  BY <1>1, SafeInsertable, PushGains
<1> HIDE DEF r
<1>3. Push(ls, l, t, pr) = [ls EXCEPT ![l] = r]
  BY DEF Push, r
<1>4. ls \in [LN -> Seq(T)]
  BY DEF Placed
<1>5. [ls EXCEPT ![l] = r] \in [LN -> Seq(T)]
  BY <1>2, <1>4 DEF Gains
<1>6. ASSUME NEW k \in LN
      PROVE  /\ IsInjective([ls EXCEPT ![l] = r][k])
             /\ ToSet([ls EXCEPT ![l] = r][k]) = {u \in T : seat2[u] = k}
  <2>1. CASE k = l
    <3>1. [ls EXCEPT ![l] = r][k] = r
      BY <1>4, <2>1
    <3>2. {u \in T : seat2[u] = k} = {u \in T : seat[u] = l} \cup {t}
      BY <2>1
    <3>. QED BY <1>1, <1>2, <3>1, <3>2 DEF Gains
  <2>2. CASE k # l
    <3>1. [ls EXCEPT ![l] = r][k] = ls[k]
      BY <1>4, <2>2
    <3>2. {u \in T : seat2[u] = k} = {u \in T : seat[u] = k}
      BY <2>2
    <3>. QED BY <3>1, <3>2 DEF Placed
  <2>. QED BY <2>1, <2>2
<1>7. [ls EXCEPT ![l] = r][l] # <<>>
  BY <1>2, <1>4 DEF Gains
<1>. QED BY <1>3, <1>5, <1>6, <1>7 DEF Placed

\* A thread leaves its list.
LEMMA UnlinkPlaced ==
    ASSUME NEW T, NEW LN, NEW ls, NEW seat, NEW t \in T,
           Placed(ls, seat, LN, T), seat[t] \in LN,
           NEW none, none \notin LN
    PROVE  Placed(Unlink(ls, seat[t], t), [u \in T |-> IF u = t THEN none ELSE seat[u]], LN, T)
<1> DEFINE l == seat[t]
           r == RemoveFirst(ls[l], t)
           seat2 == [u \in T |-> IF u = t THEN none ELSE seat[u]]
<1>1. /\ ls[l] \in Seq(T) /\ IsInjective(ls[l])
      /\ ToSet(ls[l]) = {u \in T : seat[u] = l}
      /\ t \in ToSet(ls[l])
  BY DEF Placed
<1>2. Loses(r, ls[l], t, T)
  BY <1>1, RemoveFirstLoses
<1> HIDE DEF r
<1>3. Unlink(ls, l, t) = [ls EXCEPT ![l] = r]
  BY DEF Unlink, r
<1>4. ls \in [LN -> Seq(T)]
  BY DEF Placed
<1>5. [ls EXCEPT ![l] = r] \in [LN -> Seq(T)]
  BY <1>2, <1>4 DEF Loses
<1>6. ASSUME NEW k \in LN
      PROVE  /\ IsInjective([ls EXCEPT ![l] = r][k])
             /\ ToSet([ls EXCEPT ![l] = r][k]) = {u \in T : seat2[u] = k}
  <2>1. CASE k = l
    <3>1. [ls EXCEPT ![l] = r][k] = r
      BY <1>4, <2>1
    <3>2. {u \in T : seat2[u] = k} = {u \in T : seat[u] = l} \ {t}
      BY <2>1
    <3>. QED BY <1>1, <1>2, <3>1, <3>2 DEF Loses
  <2>2. CASE k # l
    <3>1. [ls EXCEPT ![l] = r][k] = ls[k]
      BY <1>4, <2>2
    <3>2. {u \in T : seat2[u] = k} = {u \in T : seat[u] = k}
      BY <2>2
    <3>. QED BY <3>1, <3>2 DEF Placed
  <2>. QED BY <2>1, <2>2
<1>. QED BY <1>3, <1>5, <1>6 DEF Placed

\* A thread goes from its list to another, or back into the same.
LEMMA MovePlaced ==
    ASSUME NEW T, NEW LN, NEW ls, NEW seat, NEW t \in T, NEW l \in LN,
           NEW pr \in [T -> Nat], SafeOrder(pr, T),
           Placed(ls, seat, LN, T), seat[t] \in LN,
           NEW none, none \notin LN,
           NEW seat2, \A u \in T : seat2[u] = IF u = t THEN l ELSE seat[u]
    PROVE  /\ Placed(Push(Unlink(ls, seat[t], t), l, t, pr), seat2, LN, T)
           /\ Push(Unlink(ls, seat[t], t), l, t, pr)[l] # <<>>
<1> DEFINE mid == [u \in T |-> IF u = t THEN none ELSE seat[u]]
<1>1. Placed(Unlink(ls, seat[t], t), mid, LN, T)
  BY UnlinkPlaced
<1>2. mid[t] \notin LN /\ \A u \in T : seat2[u] = IF u = t THEN l ELSE mid[u]
  OBVIOUS
<1> HIDE DEF mid
<1>. QED BY <1>1, <1>2, PushPlaced

\* The order of all lists but the exempt ones of X, when only t's priority
\* changed with the move.
AllOrdered(ls, pr, LN, X) == \A l \in LN \ X : Ordered(ls[l], pr)

\* An insertion keeps every list's order.
LEMMA PushKeepsOrder ==
    ASSUME NEW T, NEW LN, NEW X, NEW ls, NEW seat, NEW t \in T, NEW l \in LN,
           NEW pr \in [T -> Nat], SafeOrder(pr, T), Placed(ls, seat, LN, T),
           AllOrdered(ls, pr, LN, X)
    PROVE  AllOrdered(Push(ls, l, t, pr), pr, LN, X)
<1>. SUFFICES ASSUME NEW k \in LN \ X PROVE Ordered(Push(ls, l, t, pr)[k], pr)
  BY DEF AllOrdered
<1>1. ls \in [LN -> Seq(T)] /\ Ordered(ls[k], pr)
  BY DEF Placed, AllOrdered
<1>2. CASE k = l
  <2>1. Push(ls, l, t, pr)[k] = PushThreadByPriority(ls[k], t, pr)
    BY <1>1, <1>2 DEF Push
  <2>2. Insertable(ls[k], t, pr) /\ ls[k] \in Seq(T)
    BY <1>1, SafeInsertable
  <2>. QED BY <1>1, <2>1, <2>2, PushOrdered
<1>3. CASE k # l
  <2>1. Push(ls, l, t, pr)[k] = ls[k]
    BY <1>1, <1>3 DEF Push
  <2>. QED BY <1>1, <2>1
<1>. QED BY <1>2, <1>3

\* Unlinking a thread keeps every list's order.
LEMMA UnlinkKeepsOrder ==
    ASSUME NEW T, NEW LN, NEW X, NEW ls, NEW seat, NEW t \in T,
           NEW pr, NEW qr, Placed(ls, seat, LN, T), seat[t] \in LN,
           \A u \in T : u # t => qr[u] = pr[u],
           AllOrdered(ls, pr, LN, X)
    PROVE  AllOrdered(Unlink(ls, seat[t], t), qr, LN, X)
<1> DEFINE l == seat[t]
<1>. SUFFICES ASSUME NEW k \in LN \ X PROVE Ordered(Unlink(ls, l, t)[k], qr)
  BY DEF AllOrdered
<1>1. /\ ls \in [LN -> Seq(T)] /\ ls[k] \in Seq(T) /\ Ordered(ls[k], pr)
      /\ IsInjective(ls[k]) /\ ToSet(ls[k]) = {u \in T : seat[u] = k}
  BY DEF Placed, AllOrdered
<1>2. CASE k = l
  <2> DEFINE r == RemoveFirst(ls[k], t)
  <2>1. Unlink(ls, l, t)[k] = r
    BY <1>1, <1>2 DEF Unlink
  <2>2. t \in ToSet(ls[k])
    BY <1>1, <1>2
  <2>3. Loses(r, ls[k], t, T) /\ Ordered(r, pr)
    BY <1>1, <2>2, RemoveFirstLoses, RemoveFirstOrdered
  <2> HIDE DEF r
  <2>4. r \in Seq(T) /\ \A u \in ToSet(r) : qr[u] = pr[u]
    BY <1>1, <2>3 DEF Loses
  <2>5. Ordered(r, qr)
    BY <2>3, <2>4, OrderedElsewhere
  <2>. QED BY <2>1, <2>5
<1>3. CASE k # l
  <2>1. Unlink(ls, l, t)[k] = ls[k]
    BY <1>1, <1>3 DEF Unlink
  <2>2. \A u \in ToSet(ls[k]) : qr[u] = pr[u]
    BY <1>1, <1>3
  <2>3. Ordered(ls[k], qr)
    BY <1>1, <2>2, OrderedElsewhere
  <2>. QED BY <2>1, <2>3
<1>. QED BY <1>2, <1>3

\* Moving a thread keeps every list's order.
LEMMA MoveKeepsOrder ==
    ASSUME NEW T, NEW LN, NEW X, NEW ls, NEW seat, NEW t \in T, NEW l \in LN,
           NEW pr, NEW qr \in [T -> Nat], SafeOrder(qr, T),
           Placed(ls, seat, LN, T), seat[t] \in LN, NEW none, none \notin LN,
           \A u \in T : u # t => qr[u] = pr[u],
           AllOrdered(ls, pr, LN, X)
    PROVE  AllOrdered(Push(Unlink(ls, seat[t], t), l, t, qr), qr, LN, X)
<1>1. Placed(Unlink(ls, seat[t], t), [u \in T |-> IF u = t THEN none ELSE seat[u]], LN, T)
  BY UnlinkPlaced
<1>2. AllOrdered(Unlink(ls, seat[t], t), qr, LN, X)
  BY UnlinkKeepsOrder
<1>. QED BY <1>1, <1>2, PushKeepsOrder
=============================================================================
