--------------------------- MODULE SequenceLemmas ---------------------------
(***************************************************************************)
(* What queues of messages and lists of entities are made of: the elements *)
(* of a sequence, and their order, after Append, \o, Tail and RemoveAt.    *)
(***************************************************************************)
EXTENDS SequencesExt, SequenceTheorems, TLAPS

LEMMA ElementsOfSeq ==
    ASSUME NEW S, NEW s \in Seq(S)
    PROVE  /\ Len(s) \in Nat /\ DOMAIN s = 1 .. Len(s)
           /\ \A i \in 1 .. Len(s) : s[i] \in S
           /\ Range(s) = {s[i] : i \in 1 .. Len(s)} /\ Range(s) \subseteq S
BY DEF Range

(* Taking out the element at i: those before it stay, the others move up.  *)
LEMMA RemoveAtProperties ==
    ASSUME NEW S, NEW s \in Seq(S), NEW i \in 1 .. Len(s)
    PROVE  /\ RemoveAt(s, i) \in Seq(S)
           /\ Len(RemoveAt(s, i)) = Len(s) - 1
           /\ \A j \in 1 .. (Len(s) - 1) :
                  RemoveAt(s, i)[j] = IF j < i THEN s[j] ELSE s[j + 1]
<1> DEFINE front == SubSeq(s, 1, i - 1)
           back == SubSeq(s, i + 1, Len(s))
<1>1. /\ front \in Seq(S) /\ Len(front) = i - 1
      /\ \A j \in 1 .. (i - 1) : front[j] = s[j]
  BY SubSeqProperties
<1>2. /\ back \in Seq(S) /\ Len(back) = Len(s) - i
      /\ \A j \in 1 .. (Len(s) - i) : back[j] = s[i + j]
  BY SubSeqProperties
<1>3. RemoveAt(s, i) = front \o back
  BY DEF RemoveAt
<1> HIDE DEF front, back
<1>4. /\ front \o back \in Seq(S) /\ Len(front \o back) = Len(s) - 1
      /\ \A j \in 1 .. (Len(s) - 1) :
            (front \o back)[j] = IF j <= i - 1 THEN front[j] ELSE back[j - (i - 1)]
  BY <1>1, <1>2, ConcatProperties
<1>5. ASSUME NEW j \in 1 .. (Len(s) - 1)
      PROVE  (front \o back)[j] = IF j < i THEN s[j] ELSE s[j + 1]
  <2>1. CASE j < i
    BY <2>1, <1>1, <1>4
  <2>2. CASE ~(j < i)
    <3>1. j - (i - 1) \in 1 .. (Len(s) - i) /\ i + (j - (i - 1)) = j + 1
      BY <2>2
    <3>2. back[j - (i - 1)] = s[j + 1]
      BY <3>1, <1>2
    <3> QED
      BY <2>2, <3>2, <1>4
  <2> QED
    BY <2>1, <2>2
<1> QED
  BY <1>3, <1>4, <1>5

(* A new element at the end.                                               *)
LEMMA AppendElements ==
    ASSUME NEW S, NEW s \in Seq(S), NEW x \in S
    PROVE  /\ Append(s, x) \in Seq(S)
           /\ Range(Append(s, x)) = Range(s) \cup {x}
           /\ IsInjective(s) /\ x \notin Range(s) => IsInjective(Append(s, x))
<1> DEFINE t == Append(s, x)
<1>1. /\ t \in Seq(S) /\ Len(t) = Len(s) + 1 /\ t[Len(s) + 1] = x
      /\ \A i \in 1 .. Len(s) : t[i] = s[i]
  BY AppendProperties
<1> HIDE DEF t
<1>2. /\ Len(s) \in Nat /\ DOMAIN s = 1 .. Len(s) /\ DOMAIN t = 1 .. (Len(s) + 1)
      /\ Range(s) = {s[i] : i \in 1 .. Len(s)}
      /\ Range(t) = {t[i] : i \in 1 .. (Len(s) + 1)}
  BY <1>1, ElementsOfSeq
<1>3. \A i \in 1 .. (Len(s) + 1) : i \in 1 .. Len(s) \/ i = Len(s) + 1
  BY <1>2
<1>4. Range(t) = Range(s) \cup {x}
  <2>1. ASSUME NEW y \in Range(t) PROVE y \in Range(s) \cup {x}
    BY <1>1, <1>2, <1>3
  <2>2. Len(s) + 1 \in 1 .. (Len(s) + 1) /\ \A i \in 1 .. Len(s) : i \in 1 .. (Len(s) + 1)
    BY <1>2
  <2>3. ASSUME NEW y \in Range(s) \cup {x} PROVE y \in Range(t)
    BY <1>1, <1>2, <2>2
  <2> QED
    BY <2>1, <2>3
<1>5. ASSUME IsInjective(s), x \notin Range(s) PROVE IsInjective(t)
  <2> SUFFICES ASSUME NEW i \in DOMAIN t, NEW j \in DOMAIN t, t[i] = t[j] PROVE i = j
    BY DEF IsInjective
  <2>1. CASE i \in 1 .. Len(s) /\ j \in 1 .. Len(s)
    BY <2>1, <1>1, <1>2, <1>5 DEF IsInjective
  <2>2. CASE i = Len(s) + 1 /\ j = Len(s) + 1
    BY <2>2
  <2>3. CASE i \in 1 .. Len(s) /\ j = Len(s) + 1
    BY <2>3, <1>1, <1>2, <1>5
  <2>4. CASE i = Len(s) + 1 /\ j \in 1 .. Len(s)
    BY <2>4, <1>1, <1>2, <1>5
  <2> QED
    BY <2>1, <2>2, <2>3, <2>4, <1>2, <1>3
<1> QED
  BY <1>1, <1>4, <1>5 DEF t

(* Taking an element out of a sequence that has it once.                   *)
LEMMA RemoveElements ==
    ASSUME NEW S, NEW s \in Seq(S), IsInjective(s), NEW i \in 1 .. Len(s)
    PROVE  /\ RemoveAt(s, i) \in Seq(S)
           /\ Range(RemoveAt(s, i)) = Range(s) \ {s[i]}
           /\ IsInjective(RemoveAt(s, i))
<1> DEFINE t == RemoveAt(s, i)
<1>1. /\ t \in Seq(S) /\ Len(t) = Len(s) - 1
      /\ \A j \in 1 .. (Len(s) - 1) : t[j] = IF j < i THEN s[j] ELSE s[j + 1]
  BY RemoveAtProperties
<1> HIDE DEF t
<1>2. /\ Len(s) \in Nat /\ DOMAIN s = 1 .. Len(s) /\ DOMAIN t = 1 .. (Len(s) - 1)
      /\ Range(s) = {s[j] : j \in 1 .. Len(s)}
      /\ Range(t) = {t[j] : j \in 1 .. (Len(s) - 1)}
  BY <1>1, ElementsOfSeq
<1>3. \A j, k \in 1 .. Len(s) : s[j] = s[k] => j = k
  BY <1>2 DEF IsInjective
<1>4. ASSUME NEW y \in Range(t) PROVE y \in Range(s) \ {s[i]}
  <2>1. PICK j \in 1 .. (Len(s) - 1) : y = t[j]
    BY <1>2
  <2>2. CASE j < i
    <3>1. j \in 1 .. Len(s) /\ y = s[j] /\ j # i
      BY <2>1, <2>2, <1>1, <1>2
    <3> QED
      BY <3>1, <1>2, <1>3
  <2>3. CASE ~(j < i)
    <3>1. j + 1 \in 1 .. Len(s) /\ y = s[j + 1] /\ j + 1 # i
      BY <2>1, <2>3, <1>1, <1>2
    <3> QED
      BY <3>1, <1>2, <1>3
  <2> QED
    BY <2>2, <2>3
<1>5. ASSUME NEW y \in Range(s) \ {s[i]} PROVE y \in Range(t)
  <2>1. PICK k \in 1 .. Len(s) : y = s[k]
    BY <1>2
  <2>2. k # i
    BY <2>1
  <2>3. CASE k < i
    <3>1. k \in 1 .. (Len(s) - 1) /\ t[k] = s[k]
      BY <2>1, <2>3, <1>1, <1>2
    <3> QED
      BY <3>1, <2>1, <1>2
  <2>4. CASE k > i
    <3>1. k - 1 \in 1 .. (Len(s) - 1) /\ ~(k - 1 < i) /\ k - 1 + 1 = k
      BY <2>1, <2>4, <1>2
    <3>2. t[k - 1] = s[k]
      BY <3>1, <1>1
    <3> QED
      BY <3>1, <3>2, <2>1, <1>2
  <2> QED
    BY <2>2, <2>3, <2>4, <1>2
<1>6. IsInjective(t)
  <2> SUFFICES ASSUME NEW j \in 1 .. (Len(s) - 1), NEW k \in 1 .. (Len(s) - 1), t[j] = t[k]
               PROVE  j = k
    BY <1>2 DEF IsInjective
  <2> DEFINE j1 == IF j < i THEN j ELSE j + 1
             k1 == IF k < i THEN k ELSE k + 1
  <2>1. j1 \in 1 .. Len(s) /\ k1 \in 1 .. Len(s) /\ t[j] = s[j1] /\ t[k] = s[k1]
    BY <1>1, <1>2
  <2>2. j1 = k1
    BY <2>1, <1>3
  <2> QED
    BY <2>2, <1>2
<1> QED
  BY <1>1, <1>4, <1>5, <1>6 DEF t

(* The oldest element and the others.                                      *)
LEMMA TailElements ==
    ASSUME NEW S, NEW s \in Seq(S), s # <<>>
    PROVE  /\ Head(s) = s[1] /\ Head(s) \in S /\ Tail(s) \in Seq(S)
           /\ Range(s) = {Head(s)} \cup Range(Tail(s))
<1> DEFINE t == Tail(s)
<1>1. /\ t \in Seq(S) /\ Len(t) = Len(s) - 1
      /\ \A i \in 1 .. (Len(s) - 1) : t[i] = s[i + 1]
      /\ Head(s) = s[1] /\ Head(s) \in S /\ Len(s) \in Nat \ {0}
  BY HeadTailProperties, EmptySeq
<1> HIDE DEF t
<1>2. /\ Range(s) = {s[i] : i \in 1 .. Len(s)}
      /\ Range(t) = {t[i] : i \in 1 .. (Len(s) - 1)}
  BY <1>1, ElementsOfSeq
<1>3. ASSUME NEW y \in Range(s) PROVE y = s[1] \/ y \in Range(t)
  <2>1. PICK i \in 1 .. Len(s) : y = s[i]
    BY <1>2
  <2>2. CASE i > 1
    <3>1. i - 1 \in 1 .. (Len(s) - 1) /\ t[i - 1] = s[i]
      BY <2>2, <1>1
    <3> QED
      BY <3>1, <2>1, <1>2
  <2> QED
    BY <2>1, <2>2, <1>1
<1>4. ASSUME NEW y \in Range(t) PROVE y \in Range(s)
  <2>1. PICK i \in 1 .. (Len(s) - 1) : y = t[i]
    BY <1>2
  <2>2. i + 1 \in 1 .. Len(s) /\ y = s[i + 1]
    BY <2>1, <1>1
  <2> QED
    BY <2>2, <1>2
<1>5. s[1] \in Range(s)
  <2>1. 1 \in 1 .. Len(s)
    BY <1>1
  <2> QED
    BY <2>1, <1>2
<1> QED
  BY <1>1, <1>3, <1>4, <1>5 DEF t

-----------------------------------------------------------------------------
(* Every element of s is related by R to those behind it.                  *)
Along(s, R) == \A i, j \in DOMAIN s : i < j => <<s[i], s[j]>> \in R

LEMMA AlongWider ==
    ASSUME NEW s, NEW R1, NEW R2, Along(s, R1),
           \A i, j \in DOMAIN s : <<s[i], s[j]>> \in R1 => <<s[i], s[j]>> \in R2
    PROVE  Along(s, R2)
BY DEF Along

(* A concatenation: what is in front is related to what is behind.         *)
LEMMA ConcatElements ==
    ASSUME NEW S, NEW s \in Seq(S), NEW t \in Seq(S)
    PROVE  /\ s \o t \in Seq(S) /\ Range(s \o t) = Range(s) \cup Range(t)
           /\ \A R : /\ Along(s, R) /\ Along(t, R)
                     /\ \A x \in Range(s), y \in Range(t) : <<x, y>> \in R
                     => Along(s \o t, R)
<1> DEFINE u == s \o t
<1>1. /\ u \in Seq(S) /\ Len(u) = Len(s) + Len(t)
      /\ \A i \in 1 .. Len(s) + Len(t) : u[i] = IF i <= Len(s) THEN s[i] ELSE t[i - Len(s)]
  BY ConcatProperties
<1> HIDE DEF u
<1>2. /\ Len(s) \in Nat /\ Len(t) \in Nat
      /\ DOMAIN s = 1 .. Len(s) /\ DOMAIN t = 1 .. Len(t) /\ DOMAIN u = 1 .. (Len(s) + Len(t))
      /\ Range(s) = {s[i] : i \in 1 .. Len(s)} /\ Range(t) = {t[i] : i \in 1 .. Len(t)}
      /\ Range(u) = {u[i] : i \in 1 .. (Len(s) + Len(t))}
  BY <1>1, ElementsOfSeq
<1>3. ASSUME NEW i \in 1 .. (Len(s) + Len(t))
      PROVE  \/ i \in 1 .. Len(s) /\ u[i] = s[i]
             \/ i - Len(s) \in 1 .. Len(t) /\ u[i] = t[i - Len(s)] /\ i > Len(s)
  <2>1. CASE i <= Len(s)
    BY <2>1, <1>1, <1>2
  <2>2. CASE ~(i <= Len(s))
    <3>1. i - Len(s) \in 1 .. Len(t)
      BY <2>2, <1>2
    <3> QED
      BY <3>1, <2>2, <1>1, <1>2
  <2> QED
    BY <2>1, <2>2
<1>4. ASSUME NEW i \in 1 .. Len(s) PROVE s[i] \in Range(u)
  <2>1. i \in 1 .. (Len(s) + Len(t)) /\ u[i] = s[i]
    BY <1>1, <1>2
  <2> QED
    BY <2>1, <1>2
<1>5. ASSUME NEW i \in 1 .. Len(t) PROVE t[i] \in Range(u)
  <2>1. i + Len(s) \in 1 .. (Len(s) + Len(t)) /\ ~(i + Len(s) <= Len(s)) /\ i + Len(s) - Len(s) = i
    BY <1>2
  <2>2. u[i + Len(s)] = t[i]
    BY <2>1, <1>1
  <2> QED
    BY <2>1, <2>2, <1>2
<1>6. Range(u) = Range(s) \cup Range(t)
  <2>1. ASSUME NEW y \in Range(u) PROVE y \in Range(s) \cup Range(t)
    <3>1. PICK i \in 1 .. (Len(s) + Len(t)) : y = u[i]
      BY <1>2
    <3> QED
      BY <3>1, <1>3, <1>2
  <2> QED
    BY <2>1, <1>4, <1>5, <1>2
<1>7. ASSUME NEW R, Along(s, R), Along(t, R), \A x \in Range(s), y \in Range(t) : <<x, y>> \in R
      PROVE  Along(u, R)
  <2> SUFFICES ASSUME NEW i \in 1 .. (Len(s) + Len(t)), NEW j \in 1 .. (Len(s) + Len(t)), i < j
               PROVE  <<u[i], u[j]>> \in R
    BY <1>2 DEF Along
  <2>1. CASE i \in 1 .. Len(s) /\ u[i] = s[i] /\ j \in 1 .. Len(s) /\ u[j] = s[j]
    BY <2>1, <1>7, <1>2 DEF Along
  <2>2. CASE i \in 1 .. Len(s) /\ u[i] = s[i] /\ j - Len(s) \in 1 .. Len(t) /\ u[j] = t[j - Len(s)]
    BY <2>2, <1>7, <1>2
  <2>3. CASE /\ i - Len(s) \in 1 .. Len(t) /\ u[i] = t[i - Len(s)]
             /\ j - Len(s) \in 1 .. Len(t) /\ u[j] = t[j - Len(s)]
    <3>1. i - Len(s) < j - Len(s)
      BY <1>2
    <3> QED
      BY <3>1, <2>3, <1>7, <1>2 DEF Along
  <2>4. ~(i > Len(s) /\ j \in 1 .. Len(s))
    BY <1>2
  <2> QED
    BY <2>1, <2>2, <2>3, <2>4, <1>3
<1> QED
  BY <1>1, <1>6, <1>7 DEF u

LEMMA SingletonElements ==
    ASSUME NEW S, NEW x \in S
    PROVE  /\ <<x>> \in Seq(S) /\ Range(<<x>>) = {x} /\ <<x>> # <<>>
           /\ \A R : Along(<<x>>, R)
BY DEF Range, Along

(* The oldest element is related to the others.                            *)
LEMMA AlongTail ==
    ASSUME NEW S, NEW s \in Seq(S), s # <<>>, NEW R, Along(s, R)
    PROVE  Along(Tail(s), R) /\ \A y \in Range(Tail(s)) : <<Head(s), y>> \in R
<1> DEFINE t == Tail(s)
<1>1. /\ t \in Seq(S) /\ Len(t) = Len(s) - 1
      /\ \A i \in 1 .. (Len(s) - 1) : t[i] = s[i + 1]
      /\ Head(s) = s[1] /\ Len(s) \in Nat \ {0} /\ DOMAIN s = 1 .. Len(s)
  BY HeadTailProperties, EmptySeq
<1> HIDE DEF t
<1>2. DOMAIN t = 1 .. (Len(s) - 1) /\ Range(t) = {t[i] : i \in 1 .. (Len(s) - 1)}
  BY <1>1, ElementsOfSeq
<1>3. ASSUME NEW i \in 1 .. (Len(s) - 1)
      PROVE  i + 1 \in 1 .. Len(s) /\ t[i] = s[i + 1] /\ 1 \in 1 .. Len(s) /\ 1 < i + 1
  BY <1>1
<1>4. Along(t, R)
  <2> SUFFICES ASSUME NEW i \in 1 .. (Len(s) - 1), NEW j \in 1 .. (Len(s) - 1), i < j
               PROVE  <<t[i], t[j]>> \in R
    BY <1>2 DEF Along
  <2>1. i + 1 < j + 1
    OBVIOUS
  <2> QED
    BY <2>1, <1>3, <1>1 DEF Along
<1>5. ASSUME NEW i \in 1 .. (Len(s) - 1) PROVE <<s[1], t[i]>> \in R
  BY <1>1, <1>3 DEF Along
<1> QED
  BY <1>1, <1>2, <1>4, <1>5 DEF t

-----------------------------------------------------------------------------
(* A queue in two parts: what is done to one of them is done to the whole. *)

LEMMA TailInjective ==
    ASSUME NEW S, NEW s \in Seq(S), s # <<>>, IsInjective(s)
    PROVE  IsInjective(Tail(s)) /\ Head(s) \notin Range(Tail(s))
<1> DEFINE t == Tail(s)
<1>1. /\ t \in Seq(S) /\ Len(t) = Len(s) - 1
      /\ \A i \in 1 .. (Len(s) - 1) : t[i] = s[i + 1]
      /\ Head(s) = s[1] /\ Len(s) \in Nat \ {0} /\ DOMAIN s = 1 .. Len(s)
  BY HeadTailProperties, EmptySeq
<1> HIDE DEF t
<1>2. DOMAIN t = 1 .. (Len(s) - 1) /\ Range(t) = {t[i] : i \in 1 .. (Len(s) - 1)}
  BY <1>1, ElementsOfSeq
<1>3. ASSUME NEW i \in 1 .. (Len(s) - 1)
      PROVE  i + 1 \in 1 .. Len(s) /\ t[i] = s[i + 1] /\ 1 \in 1 .. Len(s) /\ 1 # i + 1
  BY <1>1
<1>4. ASSUME NEW i \in 1 .. (Len(s) - 1), NEW j \in 1 .. (Len(s) - 1), t[i] = t[j]
      PROVE  i = j
  <2>1. s[i + 1] = s[j + 1] /\ i + 1 \in DOMAIN s /\ j + 1 \in DOMAIN s
    BY <1>4, <1>3, <1>1
  <2>2. i + 1 = j + 1
    BY <2>1 DEF IsInjective
  <2> QED
    BY <2>2
<1>5. ASSUME NEW i \in 1 .. (Len(s) - 1) PROVE s[1] # t[i]
  BY <1>1, <1>3 DEF IsInjective
<1> QED
  BY <1>1, <1>2, <1>4, <1>5 DEF t, IsInjective

LEMMA AppendToConcat ==
    ASSUME NEW S, NEW s \in Seq(S), NEW t \in Seq(S), NEW x \in S
    PROVE  s \o Append(t, x) = Append(s \o t, x)
<1>1. /\ <<x>> \in Seq(S) /\ Append(t, x) = t \o <<x>>
      /\ s \o t \in Seq(S) /\ Append(s \o t, x) = (s \o t) \o <<x>>
  BY AppendIsConcat, ConcatProperties
<1> QED
  BY <1>1, ConcatAssociative

LEMMA TailOfConcat ==
    ASSUME NEW S, NEW s \in Seq(S), NEW t \in Seq(S), s # <<>>
    PROVE  /\ s \o t # <<>> /\ Head(s \o t) = Head(s)
           /\ Tail(s \o t) = Tail(s) \o t
<1>1. s = <<Head(s)>> \o Tail(s) /\ Head(s) \in S /\ Tail(s) \in Seq(S)
  BY HeadTailProperties
<1>2. s \o t = <<Head(s)>> \o (Tail(s) \o t) /\ Tail(s) \o t \in Seq(S)
  BY <1>1, ConcatAssociative, ConcatProperties
<1> QED
  BY <1>1, <1>2

LEMMA RemoveFromConcat ==
    ASSUME NEW S, NEW s \in Seq(S), NEW t \in Seq(S), NEW i \in 1 .. Len(t)
    PROVE  /\ Len(s) + i \in DOMAIN (s \o t) /\ (s \o t)[Len(s) + i] = t[i]
           /\ RemoveAt(s \o t, Len(s) + i) = s \o RemoveAt(t, i)
<1> DEFINE u == s \o t
           r == RemoveAt(t, i)
           v == RemoveAt(u, Len(s) + i)
           w == s \o r
<1>1. Len(s) \in Nat /\ Len(t) \in Nat
  OBVIOUS
<1>2. /\ u \in Seq(S) /\ Len(u) = Len(s) + Len(t)
      /\ \A j \in 1 .. Len(s) + Len(t) : u[j] = IF j <= Len(s) THEN s[j] ELSE t[j - Len(s)]
  BY ConcatProperties
<1>3. /\ r \in Seq(S) /\ Len(r) = Len(t) - 1
      /\ \A j \in 1 .. (Len(t) - 1) : r[j] = IF j < i THEN t[j] ELSE t[j + 1]
  BY RemoveAtProperties
<1> HIDE DEF u, r
<1>4. Len(s) + i \in 1 .. Len(u)
  BY <1>1, <1>2
<1>5. /\ v \in Seq(S) /\ Len(v) = Len(u) - 1
      /\ \A j \in 1 .. (Len(u) - 1) : v[j] = IF j < Len(s) + i THEN u[j] ELSE u[j + 1]
  BY <1>2, <1>4, RemoveAtProperties
<1>6. /\ w \in Seq(S) /\ Len(w) = Len(s) + Len(r)
      /\ \A j \in 1 .. Len(s) + Len(r) : w[j] = IF j <= Len(s) THEN s[j] ELSE r[j - Len(s)]
  BY <1>3, ConcatProperties
<1> HIDE DEF v, w
<1>7. Len(v) = Len(w) /\ Len(v) = Len(s) + Len(t) - 1
  BY <1>1, <1>2, <1>3, <1>5, <1>6
<1>8. ASSUME NEW j \in 1 .. Len(v) PROVE v[j] = w[j]
  <2>1. CASE j <= Len(s)
    <3>1. v[j] = u[j] /\ u[j] = s[j]
      BY <2>1, <1>1, <1>2, <1>5, <1>7
    <3> QED
      BY <2>1, <3>1, <1>6, <1>7
  <2>2. CASE ~(j <= Len(s)) /\ j < Len(s) + i
    <3>a. j \in 1 .. Len(s) + Len(t) /\ j \in 1 .. (Len(u) - 1)
      BY <1>1, <1>2, <1>7
    <3>1. v[j] = u[j] /\ u[j] = t[j - Len(s)]
      BY <2>2, <3>a, <1>2, <1>5
    <3>2. j - Len(s) \in 1 .. (Len(t) - 1) /\ j - Len(s) < i
      BY <2>2, <1>1, <1>7
    <3>3. r[j - Len(s)] = t[j - Len(s)]
      BY <3>2, <1>3
    <3> QED
      BY <2>2, <3>1, <3>3, <1>6, <1>7
  <2>3. CASE ~(j < Len(s) + i)
    <3>1. /\ j + 1 \in 1 .. Len(s) + Len(t) /\ ~(j + 1 <= Len(s)) /\ ~(j <= Len(s))
          /\ j \in 1 .. (Len(u) - 1)
      BY <2>3, <1>1, <1>2, <1>5, <1>7
    <3>2. v[j] = u[j + 1] /\ u[j + 1] = t[j + 1 - Len(s)]
      BY <3>1, <2>3, <1>2, <1>5
    <3>3. /\ j - Len(s) \in 1 .. (Len(t) - 1) /\ ~(j - Len(s) < i)
          /\ j - Len(s) + 1 = j + 1 - Len(s)
      BY <2>3, <1>1, <1>7
    <3>4. r[j - Len(s)] = t[j + 1 - Len(s)]
      BY <3>3, <1>3
    <3>5. w[j] = r[j - Len(s)]
      BY <3>1, <1>6, <1>7
    <3> QED
      BY <3>2, <3>4, <3>5
  <2> QED
    BY <2>1, <2>2, <2>3, <1>1
<1>9. v = w
  BY <1>5, <1>6, <1>7, <1>8, SeqEqual
<1>10. u[Len(s) + i] = t[i]
  <2>1. ~(Len(s) + i <= Len(s)) /\ Len(s) + i - Len(s) = i
    BY <1>1
  <2> QED
    BY <2>1, <1>2, <1>4
<1> QED
  BY <1>2, <1>4, <1>9, <1>10 DEF u, r, v, w
=============================================================================
