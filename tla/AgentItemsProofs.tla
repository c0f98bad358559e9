--------------------------- MODULE AgentItemsProofs ---------------------------
(***************************************************************************)
(* What becomes of the items of an agent loop, for every number of pushes, *)
(* stops and turns and every checkpoint: the loop handles items only, an   *)
(* item is in one place at most and keeps its order, none is lost but by a *)
(* stop of an idle loop or of a resume, and a saved checkpoint is complete.*)
(*                                                                         *)
(* Sequences first, then what a step can do to the items, then the steps.  *)
(***************************************************************************)
EXTENDS AgentLoopProofs, SequenceTheorems

-----------------------------------------------------------------------------
(* Sequences *)

LEMMA SeqFacts ==
  ASSUME NEW S, NEW s \in Seq(S)
  PROVE  /\ Len(s) \in Nat /\ DOMAIN s = 1..Len(s)
         /\ \A n \in DOMAIN s : s[n] \in S /\ n \in Nat /\ s[n] \in Elements(s)
         /\ Elements(s) \subseteq S
         /\ Elements(s) = {} <=> s = <<>>
  <1>1. Len(s) \in Nat /\ DOMAIN s = 1..Len(s) /\ s \in [1..Len(s) -> S]
    BY LenProperties
  <1>2. \A n \in DOMAIN s : s[n] \in S /\ n \in Nat /\ s[n] \in Elements(s)
    BY <1>1 DEF Elements
  <1>3. Elements(s) \subseteq S
    BY <1>2 DEF Elements
  <1>4. Elements(s) = {} => s = <<>>
    <2> SUFFICES ASSUME s # <<>> PROVE Elements(s) # {}
      OBVIOUS
    <2>1. Len(s) \in Nat \ {0}
      BY EmptySeq
    <2>2. 1 \in DOMAIN s
      BY <1>1, <2>1
    <2> QED
      BY <1>2, <2>2
  <1>5. Elements(<<>>) = {}
    BY DEF Elements
  <1> QED
    BY <1>1, <1>2, <1>3, <1>4, <1>5

LEMMA EmptyFacts ==
  /\ \A S : <<>> \in Seq(S)
  /\ Elements(<<>>) = {} /\ Distinct(<<>>)
  /\ \A t : Follows(<<>>, t)
  BY EmptySeq DEF Elements, Distinct, Follows

\* Where the elements of a concatenation come from.
LEMMA ConcatFacts ==
  ASSUME NEW S, NEW s \in Seq(S), NEW t \in Seq(S)
  PROVE  /\ s \o t \in Seq(S)
         /\ \A n \in DOMAIN s : n \in DOMAIN (s \o t) /\ (s \o t)[n] = s[n]
         /\ \A n \in DOMAIN t : Len(s) + n \in DOMAIN (s \o t) /\ (s \o t)[Len(s) + n] = t[n]
         /\ \A n \in DOMAIN (s \o t) : n \in DOMAIN s \/ n - Len(s) \in DOMAIN t
         /\ Elements(s \o t) = Elements(s) \cup Elements(t)
         /\ s \o <<>> = s /\ <<>> \o s = s
  <1>1. /\ s \o t \in Seq(S) /\ Len(s \o t) = Len(s) + Len(t)
        /\ \A i \in 1 .. Len(s) + Len(t) : (s \o t)[i] =
                     IF i <= Len(s) THEN s[i] ELSE t[i - Len(s)]
    BY ConcatProperties
  <1>2. /\ Len(s) \in Nat /\ DOMAIN s = 1..Len(s) /\ Len(t) \in Nat /\ DOMAIN t = 1..Len(t)
        /\ DOMAIN (s \o t) = 1..(Len(s) + Len(t))
    BY <1>1, SeqFacts
  <1>3. \A n \in DOMAIN s : n \in DOMAIN (s \o t) /\ (s \o t)[n] = s[n]
    BY <1>1, <1>2
  <1>4. \A n \in DOMAIN t : Len(s) + n \in DOMAIN (s \o t) /\ (s \o t)[Len(s) + n] = t[n]
    BY <1>1, <1>2
  <1>5. \A n \in DOMAIN (s \o t) : n \in DOMAIN s \/ n - Len(s) \in DOMAIN t
    BY <1>2
  <1>6. Elements(s \o t) \subseteq Elements(s) \cup Elements(t)
    <2> SUFFICES ASSUME NEW n \in DOMAIN (s \o t)
                 PROVE  (s \o t)[n] \in Elements(s) \cup Elements(t)
      BY DEF Elements
    <2>1. CASE n \in DOMAIN s
      BY <1>3, <2>1 DEF Elements
    <2>2. CASE n - Len(s) \in DOMAIN t
      <3>1. Len(s) + (n - Len(s)) = n
        BY <1>2
      <3>2. (s \o t)[n] = t[n - Len(s)]
        BY <1>4, <2>2, <3>1
      <3> QED
        BY <2>2, <3>2 DEF Elements
    <2> QED
      BY <1>5, <2>1, <2>2
  <1>7. Elements(s) \cup Elements(t) \subseteq Elements(s \o t)
    <2>1. \A n \in DOMAIN s : s[n] \in Elements(s \o t)
      <3> TAKE n \in DOMAIN s
      <3>1. n \in DOMAIN (s \o t) /\ (s \o t)[n] = s[n]
        BY <1>3
      <3> QED
        BY <3>1 DEF Elements
    <2>2. \A n \in DOMAIN t : t[n] \in Elements(s \o t)
      <3> TAKE n \in DOMAIN t
      <3>1. Len(s) + n \in DOMAIN (s \o t) /\ (s \o t)[Len(s) + n] = t[n]
        BY <1>4
      <3> QED
        BY <3>1 DEF Elements
    <2> QED
      BY <2>1, <2>2 DEF Elements
  <1> QED
    BY <1>1, <1>3, <1>4, <1>5, <1>6, <1>7, ConcatEmptySeq

LEMMA AppendFacts ==
  ASSUME NEW S, NEW s \in Seq(S), NEW e \in S
  PROVE  /\ Append(s, e) \in Seq(S)
         /\ DOMAIN Append(s, e) = 1..(Len(s) + 1)
         /\ \A n \in DOMAIN s : Append(s, e)[n] = s[n]
         /\ Append(s, e)[Len(s) + 1] = e
         /\ Elements(Append(s, e)) = Elements(s) \cup {e}
  <1>1. /\ Append(s, e) \in Seq(S) /\ Len(Append(s, e)) = Len(s) + 1
        /\ \A n \in 1..Len(s) : Append(s, e)[n] = s[n]
        /\ Append(s, e)[Len(s) + 1] = e
    BY AppendProperties
  <1>2. /\ Len(s) \in Nat /\ DOMAIN s = 1..Len(s)
        /\ DOMAIN Append(s, e) = 1..(Len(s) + 1)
    BY <1>1, SeqFacts
  <1>3. Elements(Append(s, e)) \subseteq Elements(s) \cup {e}
    <2> SUFFICES ASSUME NEW n \in 1..(Len(s) + 1)
                 PROVE  Append(s, e)[n] \in Elements(s) \cup {e}
      BY <1>2 DEF Elements
    <2>1. n \in 1..Len(s) \/ n = Len(s) + 1
      BY <1>2
    <2> QED
      BY <1>1, <1>2, <2>1 DEF Elements
  <1>4. Elements(s) \cup {e} \subseteq Elements(Append(s, e))
    <2>1. \A n \in DOMAIN s : n \in DOMAIN Append(s, e) /\ Append(s, e)[n] = s[n]
      BY <1>1, <1>2
    <2>2. Len(s) + 1 \in DOMAIN Append(s, e)
      BY <1>2
    <2> QED
      BY <1>1, <2>1, <2>2 DEF Elements
  <1> QED
    BY <1>1, <1>2, <1>3, <1>4

LEMMA ConcatAppend ==
  ASSUME NEW S, NEW s \in Seq(S), NEW t \in Seq(S), NEW e \in S,
         NEW t2, t2 = Append(t, e)
  PROVE  s \o t2 = Append(s \o t, e)
  <1>1. PICK x : x = <<e>>
    OBVIOUS
  <1>2. x \in Seq(S)
    BY <1>1
  <1>3. (s \o t) \o x = s \o (t \o x)
    BY <1>2, ConcatAssociative
  <1>4. s \o t \in Seq(S)
    BY ConcatFacts
  <1>5. t2 = t \o x /\ Append(s \o t, e) = (s \o t) \o x
    BY <1>1, <1>4, AppendIsConcat
  <1> QED
    BY <1>3, <1>5

\* Order: a sequence that follows t names no element twice, and neither does a
\* part of it that keeps the order.
LEMMA FollowsDistinct ==
  ASSUME NEW S, NEW s \in Seq(S), NEW t \in Seq(S), Follows(s, t)
  PROVE  Distinct(s)
  <1> SUFFICES ASSUME NEW m \in DOMAIN s, NEW n \in DOMAIN s, s[m] = s[n], m < n
               PROVE  FALSE
    BY SeqFacts DEF Distinct
  <1>1. PICK i \in DOMAIN t : s[m] = t[i]
    BY DEF Follows, Elements
  <1>2. i < i
    BY <1>1 DEF Follows
  <1> QED
    BY <1>2, SeqFacts

LEMMA PartFollows ==
  ASSUME NEW S, NEW s \in Seq(S), NEW q \in Seq(S), NEW t \in Seq(S), NEW f,
         \A n \in DOMAIN s : f[n] \in DOMAIN q /\ s[n] = q[f[n]],
         \A m, n \in DOMAIN s : m < n => f[m] < f[n],
         Follows(q, t)
  PROVE  Follows(s, t) /\ Elements(s) \subseteq Elements(q)
  <1>1. Elements(s) \subseteq Elements(q)
    BY DEF Elements
  <1>2. ASSUME NEW m \in DOMAIN s, NEW n \in DOMAIN s, NEW i \in DOMAIN t, NEW j \in DOMAIN t,
               m < n, s[m] = t[i], s[n] = t[j]
        PROVE  i < j
    <2>1. /\ f[m] \in DOMAIN q /\ f[n] \in DOMAIN q /\ f[m] < f[n]
          /\ q[f[m]] = t[i] /\ q[f[n]] = t[j]
      BY <1>2
    <2> QED
      BY <2>1 DEF Follows
  <1>3. Elements(s) \subseteq Elements(t)
    BY <1>1 DEF Follows
  <1> QED
    BY <1>1, <1>2, <1>3 DEF Follows

LEMMA SuffixFollows ==
  ASSUME NEW S, NEW h \in Seq(S), NEW b \in Seq(S), NEW t \in Seq(S), Follows(h \o b, t)
  PROVE  Follows(b, t) /\ Elements(b) \subseteq Elements(h \o b)
  <1> DEFINE f == [n \in DOMAIN b |-> Len(h) + n]
  <1>1. \A n \in DOMAIN b : f[n] \in DOMAIN (h \o b) /\ b[n] = (h \o b)[f[n]]
    BY ConcatFacts
  <1>2. \A m, n \in DOMAIN b : m < n => f[m] < f[n]
    BY SeqFacts
  <1>3. h \o b \in Seq(S)
    BY ConcatFacts
  <1> HIDE DEF f
  <1> QED
    BY <1>1, <1>2, <1>3, PartFollows

\* The sequence t that is followed may grow, at its end ...
LEMMA GrownFollows ==
  ASSUME NEW S, NEW s \in Seq(S), NEW t \in Seq(S), NEW e \in S,
         e \notin Elements(t), Follows(s, t)
  PROVE  /\ Follows(s, Append(t, e)) /\ Follows(Append(s, e), Append(t, e))
  <1> DEFINE s2 == Append(s, e)
             t2 == Append(t, e)
  <1>1. /\ Len(s) \in Nat /\ Len(t) \in Nat
        /\ DOMAIN s = 1..Len(s) /\ DOMAIN t = 1..Len(t)
    BY SeqFacts
  <1>2. /\ DOMAIN s2 = 1..(Len(s) + 1) /\ DOMAIN t2 = 1..(Len(t) + 1)
        /\ \A n \in DOMAIN s : s2[n] = s[n]
        /\ \A n \in DOMAIN t : t2[n] = t[n]
        /\ s2[Len(s) + 1] = e /\ t2[Len(t) + 1] = e
        /\ Elements(s2) = Elements(s) \cup {e} /\ Elements(t2) = Elements(t) \cup {e}
    BY AppendFacts
  <1> HIDE DEF s2, t2
  <1>3. \A n \in DOMAIN s : s[n] # e
    BY DEF Follows, Elements
  <1>4. \A n \in DOMAIN t : t[n] # e
    BY DEF Elements
  <1>5. ASSUME NEW m \in DOMAIN s, NEW n \in DOMAIN s, NEW i \in DOMAIN t2, NEW j \in DOMAIN t2,
               m < n, s[m] = t2[i], s[n] = t2[j]
        PROVE  i < j
    <2>1. i \in DOMAIN t /\ j \in DOMAIN t
      BY <1>1, <1>2, <1>3, <1>5
    <2>2. s[m] = t[i] /\ s[n] = t[j]
      BY <1>2, <1>5, <2>1
    <2> QED
      BY <1>5, <2>1, <2>2 DEF Follows
  <1>6. Follows(s, t2)
    BY <1>2, <1>5 DEF Follows
  <1>7. ASSUME NEW m \in DOMAIN s2, NEW n \in DOMAIN s2, NEW i \in DOMAIN t2, NEW j \in DOMAIN t2,
               m < n, s2[m] = t2[i], s2[n] = t2[j]
        PROVE  i < j
    <2>1. m \in DOMAIN s
      BY <1>1, <1>2, <1>7
    <2>2. i \in DOMAIN t /\ s[m] = t2[i]
      BY <1>1, <1>2, <1>3, <1>7, <2>1
    <2>3. CASE n \in DOMAIN s
      BY <1>2, <1>5, <1>7, <2>1, <2>2, <2>3
    <2>4. CASE n \notin DOMAIN s
      <3>1. n = Len(s) + 1
        BY <1>1, <1>2, <2>4
      <3>2. j = Len(t) + 1
        BY <1>1, <1>2, <1>4, <1>7, <3>1
      <3> QED
        BY <1>1, <2>2, <3>2
    <2> QED
      BY <2>3, <2>4
  <1>8. Follows(s2, t2)
    BY <1>2, <1>7 DEF Follows
  <1> QED
    BY <1>6, <1>8 DEF s2, t2

\* ... and both may at their front.
LEMMA PrefixedFollows ==
  ASSUME NEW S, NEW l \in Seq(S), NEW s \in Seq(S), NEW t \in Seq(S),
         Distinct(l), Elements(l) \cap Elements(t) = {}, Follows(s, t)
  PROVE  Follows(l \o s, l \o t)
  <1> DEFINE s2 == l \o s
             t2 == l \o t
  <1>1. /\ Len(l) \in Nat /\ DOMAIN l = 1..Len(l)
        /\ Len(s) \in Nat /\ DOMAIN s = 1..Len(s)
        /\ Len(t) \in Nat /\ DOMAIN t = 1..Len(t)
    BY SeqFacts
  <1>2. /\ \A n \in DOMAIN l : s2[n] = l[n] /\ t2[n] = l[n]
        /\ \A n \in DOMAIN s : s2[Len(l) + n] = s[n]
        /\ \A n \in DOMAIN t : t2[Len(l) + n] = t[n]
        /\ \A n \in DOMAIN s2 : n \in DOMAIN l \/ n - Len(l) \in DOMAIN s
        /\ \A n \in DOMAIN t2 : n \in DOMAIN l \/ n - Len(l) \in DOMAIN t
        /\ Elements(s2) = Elements(l) \cup Elements(s)
        /\ Elements(t2) = Elements(l) \cup Elements(t)
    BY ConcatFacts
  <1> HIDE DEF s2, t2
  <1>3. \A n \in DOMAIN s2 : n \in Int /\ (n \notin DOMAIN l => s2[n] = s[n - Len(l)])
    <2> TAKE n \in DOMAIN s2
    <2>1. CASE n \in DOMAIN l
      BY <1>1, <2>1
    <2>2. CASE n \notin DOMAIN l
      <3>1. n - Len(l) \in DOMAIN s
        BY <1>2, <2>2
      <3>2. n \in Int
        BY <1>1, <3>1, <1>2, ConcatProperties, SeqFacts DEF s2
      <3>3. Len(l) + (n - Len(l)) = n
        BY <1>1, <3>2
      <3> QED
        BY <1>2, <3>1, <3>2, <3>3
    <2> QED
      BY <2>1, <2>2
  <1>4. \A n \in DOMAIN t2 : n \in Int /\ (n \notin DOMAIN l => t2[n] = t[n - Len(l)])
    <2> TAKE n \in DOMAIN t2
    <2>1. CASE n \in DOMAIN l
      BY <1>1, <2>1
    <2>2. CASE n \notin DOMAIN l
      <3>1. n - Len(l) \in DOMAIN t
        BY <1>2, <2>2
      <3>2. n \in Int
        BY <1>1, <3>1, <1>2, ConcatProperties, SeqFacts DEF t2
      <3>3. Len(l) + (n - Len(l)) = n
        BY <1>1, <3>2
      <3> QED
        BY <1>2, <3>1, <3>2, <3>3
    <2> QED
      BY <2>1, <2>2
  <1>5. \A n \in DOMAIN l, k \in DOMAIN t : l[n] # t[k]
    BY DEF Elements
  <1>6. \A n \in DOMAIN l, k \in DOMAIN s : l[n] # s[k]
    BY DEF Elements, Follows
  <1>7. ASSUME NEW m \in DOMAIN s2, NEW n \in DOMAIN s2, NEW i \in DOMAIN t2, NEW j \in DOMAIN t2,
               m < n, s2[m] = t2[i], s2[n] = t2[j]
        PROVE  i < j
    <2>1. CASE n \in DOMAIN l
      <3>1. m \in DOMAIN l
        BY <1>1, <1>2, <1>3, <1>7, <2>1
      <3>2. i \in DOMAIN l /\ j \in DOMAIN l
        BY <1>2, <1>4, <1>5, <1>7, <2>1, <3>1
      <3>3. i = m /\ j = n
        BY <1>2, <1>7, <2>1, <3>1, <3>2 DEF Distinct
      <3> QED
        BY <1>7, <3>3
    <2>2. CASE n \notin DOMAIN l
      <3>1. n - Len(l) \in DOMAIN s /\ s2[n] = s[n - Len(l)]
        BY <1>2, <1>3, <2>2
      <3>2. j \notin DOMAIN l
        BY <1>2, <1>6, <1>7, <3>1
      <3>3. j - Len(l) \in DOMAIN t /\ t2[j] = t[j - Len(l)]
        BY <1>2, <1>4, <3>2
      <3>4. CASE m \in DOMAIN l
        <4>1. i \in DOMAIN l
          BY <1>2, <1>4, <1>5, <1>7, <3>4
        <4> QED
          BY <1>1, <1>4, <3>3, <4>1
      <3>5. CASE m \notin DOMAIN l
        <4>1. m - Len(l) \in DOMAIN s /\ s2[m] = s[m - Len(l)]
          BY <1>2, <1>3, <3>5
        <4>2. i \notin DOMAIN l
          BY <1>2, <1>6, <1>7, <4>1
        <4>3. i - Len(l) \in DOMAIN t /\ t2[i] = t[i - Len(l)]
          BY <1>2, <1>4, <4>2
        <4>4. m - Len(l) < n - Len(l)
          BY <1>1, <1>3, <1>7
        <4>5. i - Len(l) < j - Len(l)
          BY <1>7, <3>1, <3>3, <4>1, <4>3, <4>4 DEF Follows
        <4> QED
          BY <1>1, <1>4, <4>5
      <3> QED
        BY <3>4, <3>5
    <2> QED
      BY <2>1, <2>2
  <1>8. Elements(s2) \subseteq Elements(t2)
    BY <1>2 DEF Follows
  <1> QED
    BY <1>7, <1>8 DEF Follows, s2, t2

LEMMA DistinctFollows ==
  ASSUME NEW s, Distinct(s)
  PROVE  Follows(s, s)
  BY DEF Distinct, Follows

-----------------------------------------------------------------------------
(* What a step can do to the items: q is the queue, a what was accepted, u the *)
(* late items, and c what each turn consumed.                                  *)

ItemTypes(q, a, u, c) ==
    q \in Seq(AllItems) /\ a \in Seq(AllItems) /\ u \in Seq(AllItems)
    /\ c \in [Turns -> Seq(AllItems)]

Apart(q, a, u, c) ==
    /\ Distinct(a) /\ Follows(q, a) /\ Follows(u, a)
    /\ Elements(q) \cap Elements(u) = {}
    /\ \A k \in Turns :
          /\ Follows(c[k], a)
          /\ Elements(c[k]) \cap Elements(q) = {}
          /\ Elements(c[k]) \cap Elements(u) = {}
          /\ \A j \in Turns \ {k} : Elements(c[j]) \cap Elements(c[k]) = {}

AllHeld(q, a, u, c) ==
    \A i \in Elements(a) :
        \/ i \in Elements(q) \cup Elements(u)
        \/ \E k \in Turns : i \in Elements(c[k])

\* TrySend: a new item at the end of both.
LEMMA AcceptApart ==
  ASSUME NEW q, NEW a, NEW u, NEW c, NEW p \in AllItems,
         ItemTypes(q, a, u, c), Apart(q, a, u, c), p \notin Elements(a)
  PROVE  /\ Apart(Append(q, p), Append(a, p), u, c)
         /\ AllHeld(q, a, u, c) => AllHeld(Append(q, p), Append(a, p), u, c)
  <1> DEFINE q2 == Append(q, p)
             a2 == Append(a, p)
  <1>0. q \in Seq(AllItems) /\ a \in Seq(AllItems) /\ u \in Seq(AllItems)
        /\ \A k \in Turns : c[k] \in Seq(AllItems)
    BY DEF ItemTypes
  <1>1. Elements(q2) = Elements(q) \cup {p} /\ Elements(a2) = Elements(a) \cup {p}
    BY <1>0, AppendFacts
  <1>2. a2 \in Seq(AllItems)
    BY <1>0, AppendFacts
  <1>3. Follows(q2, a2) /\ Follows(u, a2) /\ \A k \in Turns : Follows(c[k], a2)
    BY <1>0, GrownFollows DEF Apart
  <1>4. Distinct(a2)
    <2>1. Follows(a2, a2)
      BY <1>0, GrownFollows, DistinctFollows DEF Apart
    <2> QED
      BY <1>2, <2>1, FollowsDistinct
  <1>5. p \notin Elements(u) /\ \A k \in Turns : p \notin Elements(c[k])
    BY DEF Apart, Follows
  <1> HIDE DEF q2, a2
  <1>6. Apart(q2, a2, u, c)
    BY <1>1, <1>3, <1>4, <1>5 DEF Apart
  <1>7. AllHeld(q, a, u, c) => AllHeld(q2, a2, u, c)
    BY <1>1 DEF AllHeld
  <1> QED
    BY <1>6, <1>7 DEF q2, a2

\* LoadCheckpoint: the items of the checkpoint at the front of both.
LEMMA LoadApart ==
  ASSUME NEW q, NEW a, NEW u, NEW c, NEW l \in Seq(AllItems),
         ItemTypes(q, a, u, c), Apart(q, a, u, c),
         Distinct(l), Elements(l) \cap Elements(a) = {},
         u = <<>>, \A k \in Turns : c[k] = <<>>
  PROVE  /\ Apart(l \o q, l \o a, u, c)
         /\ AllHeld(q, a, u, c) => AllHeld(l \o q, l \o a, u, c)
  <1> DEFINE q2 == l \o q
             a2 == l \o a
  <1>0. q \in Seq(AllItems) /\ a \in Seq(AllItems)
    BY DEF ItemTypes
  <1>1. Elements(q2) = Elements(l) \cup Elements(q) /\ Elements(a2) = Elements(l) \cup Elements(a)
        /\ a2 \in Seq(AllItems)
    BY <1>0, ConcatFacts
  <1>2. Follows(q2, a2)
    BY <1>0, PrefixedFollows DEF Apart
  <1>3. Distinct(a2)
    <2>1. Follows(a2, a2)
      BY <1>0, PrefixedFollows, DistinctFollows DEF Apart
    <2> QED
      BY <1>1, <2>1, FollowsDistinct
  <1> HIDE DEF q2, a2
  <1>4. Apart(q2, a2, u, c)
    BY <1>2, <1>3, EmptyFacts DEF Apart
  <1>5. AllHeld(q, a, u, c) => AllHeld(q2, a2, u, c)
    BY <1>1 DEF AllHeld
  <1> QED
    BY <1>4, <1>5 DEF q2, a2

\* run returns with items in hand.
LEMMA DropApart ==
  ASSUME NEW h \in Seq(AllItems), NEW b \in Seq(AllItems), NEW a, NEW u, NEW c,
         ItemTypes(h \o b, a, u, c), Apart(h \o b, a, u, c)
  PROVE  Apart(b, a, u, c)
  <1>1. Follows(b, a) /\ Elements(b) \subseteq Elements(h \o b)
    BY SuffixFollows DEF ItemTypes, Apart
  <1> QED
    BY <1>1 DEF Apart

\* cleanup takes the queue for the late items.
LEMMA LateApart ==
  ASSUME NEW q, NEW a, NEW u, NEW c,
         ItemTypes(q, a, u, c), Apart(q, a, u, c), u = <<>>
  PROVE  /\ Apart(<<>>, a, q, c)
         /\ AllHeld(q, a, u, c) => AllHeld(<<>>, a, q, c)
  BY EmptyFacts DEF Apart, AllHeld

\* A choice of positions of s.
LEMMA PickFacts ==
  ASSUME NEW S, NEW s \in Seq(S), NEW f \in Positions(s)
  PROVE  /\ Pick(s, f) \in Seq(S)
         /\ DOMAIN Pick(s, f) = DOMAIN f
         /\ \A n \in DOMAIN f : f[n] \in DOMAIN s /\ Pick(s, f)[n] = s[f[n]] /\ f[n] \in Nat
         /\ \A m, n \in DOMAIN f : m < n => f[m] < f[n]
         /\ f \in Seq(Nat)
         /\ Len(Pick(s, f)) = Len(f)
  <1>1. PICK n \in Nat : f \in [1..n -> DOMAIN s]
    BY SeqFacts DEF Positions
  <1>2. DOMAIN f = 1..n /\ \A m \in 1..n : f[m] \in DOMAIN s
    BY <1>1
  <1>3. \A m \in DOMAIN s : m \in Nat /\ s[m] \in S
    BY SeqFacts
  <1>4. Pick(s, f) \in [1..n -> S]
    BY <1>2, <1>3 DEF Pick
  <1>5. f \in [1..n -> Nat]
    BY <1>1, <1>2, <1>3
  <1>6. Pick(s, f) \in Seq(S) /\ f \in Seq(Nat)
    BY <1>1, <1>4, <1>5, SeqDef
  <1>7. Len(Pick(s, f)) = Len(f)
    BY <1>2, <1>4, <1>6, LenProperties
  <1> QED
    BY <1>2, <1>3, <1>4, <1>6, <1>7 DEF Pick, Positions

\* GenInput splits the items: the order is kept, and each goes one way.
LEMMA SplitApart ==
  ASSUME NEW h \in Seq(AllItems), NEW b \in Seq(AllItems), NEW a, NEW u, NEW c,
         ItemTypes(h \o b, a, u, c), Apart(h \o b, a, u, c),
         NEW k \in Turns, c[k] = <<>>, NEW parts \in Splits(h),
         NEW c2, c2 = [c EXCEPT ![k] = Pick(h, parts.taken)]
  PROVE  /\ Apart(Pick(h, parts.left) \o b, a, u, c2)
         /\ AllHeld(h \o b, a, u, c) => AllHeld(Pick(h, parts.left) \o b, a, u, c2)
  <1> DEFINE q == h \o b
             rest == Pick(h, parts.left)
             taken == Pick(h, parts.taken)
             q2 == rest \o b
  <1>0. /\ parts.taken \in Positions(h) /\ parts.left \in Positions(h)
        /\ Elements(parts.taken) \cap Elements(parts.left) = {}
        /\ Elements(parts.taken) \cup Elements(parts.left) = DOMAIN h
    BY DEF Splits
  <1> DEFINE lf == parts.left
             tk == parts.taken
  <1>1. /\ rest \in Seq(AllItems) /\ DOMAIN rest = DOMAIN lf /\ Len(rest) = Len(lf)
        /\ \A n \in DOMAIN lf : lf[n] \in DOMAIN h /\ rest[n] = h[lf[n]] /\ lf[n] \in Nat
        /\ \A m, n \in DOMAIN lf : m < n => lf[m] < lf[n]
    BY <1>0, PickFacts
  <1>2. /\ taken \in Seq(AllItems) /\ DOMAIN taken = DOMAIN tk
        /\ \A n \in DOMAIN tk : tk[n] \in DOMAIN h /\ taken[n] = h[tk[n]] /\ tk[n] \in Nat
        /\ \A m, n \in DOMAIN tk : m < n => tk[m] < tk[n]
    BY <1>0, PickFacts
  <1>3. /\ q \in Seq(AllItems) /\ a \in Seq(AllItems) /\ c \in [Turns -> Seq(AllItems)]
        /\ Follows(q, a)
    BY DEF ItemTypes, Apart
  <1>4. /\ \A n \in DOMAIN h : n \in DOMAIN q /\ q[n] = h[n]
        /\ \A n \in DOMAIN b : Len(h) + n \in DOMAIN q /\ q[Len(h) + n] = b[n]
        /\ Elements(q) = Elements(h) \cup Elements(b)
    BY ConcatFacts
  <1>5. /\ q2 \in Seq(AllItems)
        /\ \A n \in DOMAIN rest : n \in DOMAIN q2 /\ q2[n] = rest[n]
        /\ \A n \in DOMAIN b : Len(rest) + n \in DOMAIN q2 /\ q2[Len(rest) + n] = b[n]
        /\ \A n \in DOMAIN q2 : n \in DOMAIN rest \/ n - Len(rest) \in DOMAIN b
        /\ Elements(q2) = Elements(rest) \cup Elements(b)
    BY <1>1, ConcatFacts
  <1>6. /\ Len(h) \in Nat /\ DOMAIN h = 1..Len(h)
        /\ Len(rest) \in Nat /\ DOMAIN rest = 1..Len(rest)
        /\ Len(b) \in Nat /\ DOMAIN b = 1..Len(b)
        /\ \A n \in DOMAIN q2 : n \in Nat
    BY <1>1, <1>5, SeqFacts
  <1> HIDE DEF rest, taken, q, q2
  <1>7. Distinct(q)
    BY <1>3, FollowsDistinct
  <1>8. Follows(taken, a) /\ Elements(taken) \subseteq Elements(q)
    <2>1. \A n \in DOMAIN taken : tk[n] \in DOMAIN q /\ taken[n] = q[tk[n]]
      BY <1>2, <1>4
    <2> QED
      BY <1>2, <1>3, <2>1, PartFollows
  <1>9. Follows(q2, a) /\ Elements(q2) \subseteq Elements(q)
    <2> DEFINE f == [n \in DOMAIN q2 |-> IF n \in DOMAIN rest THEN lf[n]
                                         ELSE Len(h) + (n - Len(rest))]
    <2>1. ASSUME NEW n \in DOMAIN q2
          PROVE  /\ f[n] \in DOMAIN q /\ q2[n] = q[f[n]]
                 /\ n \in DOMAIN rest => f[n] = lf[n] /\ f[n] \in DOMAIN h
                 /\ n \notin DOMAIN rest => f[n] = Len(h) + (n - Len(rest))
      <3>1. CASE n \in DOMAIN rest
        <4>1. f[n] = lf[n] /\ lf[n] \in DOMAIN h
          BY <1>1, <3>1
        <4> QED
          BY <1>1, <1>4, <1>5, <3>1, <4>1
      <3>2. CASE n \notin DOMAIN rest
        <4>1. n - Len(rest) \in DOMAIN b /\ f[n] = Len(h) + (n - Len(rest))
          BY <1>5, <3>2
        <4>2. Len(rest) + (n - Len(rest)) = n
          BY <1>6
        <4>3. q2[n] = b[n - Len(rest)]
          BY <1>5, <4>1, <4>2
        <4> QED
          BY <1>4, <3>2, <4>1, <4>3
      <3> QED
        BY <3>1, <3>2
    <2> HIDE DEF f
    <2>2. ASSUME NEW m \in DOMAIN q2, NEW n \in DOMAIN q2, m < n
          PROVE  f[m] < f[n]
      <3>1. CASE n \in DOMAIN rest
        <4>1. m \in DOMAIN rest
          BY <1>5, <1>6, <2>2, <3>1
        <4> QED
          BY <1>1, <2>1, <2>2, <3>1, <4>1
      <3>2. CASE n \notin DOMAIN rest /\ m \in DOMAIN rest
        <4>1. f[m] \in 1..Len(h)
          BY <1>6, <2>1, <3>2
        <4>2. n - Len(rest) \in 1..Len(b) /\ f[n] = Len(h) + (n - Len(rest))
          BY <1>5, <1>6, <2>1, <3>2
        <4> QED
          BY <1>6, <4>1, <4>2
      <3>3. CASE n \notin DOMAIN rest /\ m \notin DOMAIN rest
        BY <1>6, <2>1, <2>2, <3>3
      <3> QED
        BY <3>1, <3>2, <3>3
    <2> QED
      BY <1>3, <1>5, <2>1, <2>2, PartFollows
  <1>10. Elements(taken) \cap Elements(q2) = {}
    <2> SUFFICES ASSUME NEW n \in DOMAIN tk, taken[n] \in Elements(q2)
                 PROVE  FALSE
      BY <1>2 DEF Elements
    <2>1. tk[n] \in DOMAIN h /\ tk[n] \in DOMAIN q /\ taken[n] = q[tk[n]]
      BY <1>2, <1>4
    <2>2. CASE taken[n] \in Elements(rest)
      <3>1. PICK m \in DOMAIN lf : taken[n] = h[lf[m]] /\ lf[m] \in DOMAIN h
        BY <1>1, <2>2 DEF Elements
      <3>2. taken[n] = q[lf[m]] /\ lf[m] \in DOMAIN q
        BY <1>4, <3>1
      <3>3. lf[m] = tk[n]
        BY <1>7, <2>1, <3>2 DEF Distinct
      <3> QED
        BY <1>0, <3>3 DEF Elements
    <2>3. CASE taken[n] \in Elements(b)
      <3>1. PICK m \in DOMAIN b : taken[n] = b[m]
        BY <2>3 DEF Elements
      <3>2. Len(h) + m \in DOMAIN q /\ taken[n] = q[Len(h) + m]
        BY <1>4, <3>1
      <3>3. tk[n] = Len(h) + m
        BY <1>7, <2>1, <3>2 DEF Distinct
      <3> QED
        BY <1>6, <2>1, <3>3
    <2> QED
      BY <1>5, <2>2, <2>3
  <1>11. \A j \in Turns : /\ j # k => c2[j] = c[j]
                          /\ j = k => c2[j] = taken
    BY <1>3 DEF taken
  <1>12. Apart(q2, a, u, c2)
    <2>1. \A j \in Turns : /\ Follows(c2[j], a)
                           /\ Elements(c2[j]) \cap Elements(q2) = {}
                           /\ Elements(c2[j]) \cap Elements(u) = {}
      BY <1>8, <1>9, <1>10, <1>11 DEF Apart, q
    <2>2. \A j \in Turns : \A i \in Turns \ {j} : Elements(c2[i]) \cap Elements(c2[j]) = {}
      BY <1>8, <1>11 DEF Apart, q
    <2> QED
      BY <1>9, <2>1, <2>2 DEF Apart, q
  <1>13. Elements(h) \subseteq Elements(taken) \cup Elements(rest)
    <2> SUFFICES ASSUME NEW n \in DOMAIN h PROVE h[n] \in Elements(taken) \cup Elements(rest)
      BY DEF Elements
    <2>1. CASE n \in Elements(tk)
      <3>1. PICK m \in DOMAIN tk : n = tk[m]
        BY <2>1 DEF Elements
      <3> QED
        BY <1>2, <3>1 DEF Elements
    <2>2. CASE n \in Elements(lf)
      <3>1. PICK m \in DOMAIN lf : n = lf[m]
        BY <2>2 DEF Elements
      <3> QED
        BY <1>1, <3>1 DEF Elements
    <2> QED
      BY <1>0, <2>1, <2>2
  <1>14. AllHeld(q, a, u, c) => AllHeld(q2, a, u, c2)
    <2> SUFFICES ASSUME AllHeld(q, a, u, c), NEW i \in Elements(a)
                 PROVE  \/ i \in Elements(q2) \cup Elements(u)
                        \/ \E j \in Turns : i \in Elements(c2[j])
      BY DEF AllHeld
    <2>1. CASE i \in Elements(h)
      BY <1>5, <1>11, <1>13, <2>1
    <2>2. CASE i \in Elements(b) \cup Elements(u)
      BY <1>5, <2>2
    <2>3. CASE \E j \in Turns : i \in Elements(c[j])
      <3>1. PICK j \in Turns : i \in Elements(c[j])
        BY <2>3
      <3>2. j # k
        BY <3>1, EmptyFacts
      <3> QED
        BY <1>11, <3>1, <3>2
    <2> QED
      BY <1>4, <2>1, <2>2, <2>3 DEF AllHeld
  <1> QED
    BY <1>12, <1>14 DEF q, q2, rest

-----------------------------------------------------------------------------
(* The steps of the other goroutines *)

Eaten == [k \in Turns |-> turn[k].consumed]

\* What of the items is where, in the terms of the lemmas above.
LEMMA ItemsAre ==
  ASSUME SeqsType
  PROVE  /\ ItemTypes(Queue, result.accepted, result.unhandled, Eaten)
         /\ \A k \in Turns : Eaten[k] = turn[k].consumed
         /\ ItemsApart <=> Apart(Queue, result.accepted, result.unhandled, Eaten)
         /\ (\A i \in Elements(result.accepted) : Placed(i)) <=>
                AllHeld(Queue, result.accepted, result.unhandled, Eaten)
  <1>1. Queue \in Seq(AllItems)
    BY ConcatFacts DEF SeqsType, Queue
  <1>2. Eaten \in [Turns -> Seq(AllItems)] /\ \A k \in Turns : Eaten[k] = turn[k].consumed
    BY DEF SeqsType, Eaten
  <1>3. ItemTypes(Queue, result.accepted, result.unhandled, Eaten)
    BY <1>1, <1>2 DEF ItemTypes, SeqsType
  <1>4. ItemsApart <=> Apart(Queue, result.accepted, result.unhandled, Eaten)
    BY <1>2 DEF ItemsApart, Apart
  <1>5. (\A i \in Elements(result.accepted) : Placed(i)) <=>
            AllHeld(Queue, result.accepted, result.unhandled, Eaten)
    BY <1>2 DEF Placed, AllHeld
  <1> QED
    BY <1>2, <1>3, <1>4, <1>5

LEMMA ItemsAreNext ==
  ASSUME SeqsType'
  PROVE  /\ \A k \in Turns : Eaten'[k] = turn'[k].consumed
         /\ Eaten' \in [Turns -> Seq(AllItems)]
         /\ ItemsApart' <=> Apart(Queue', result'.accepted, result'.unhandled, Eaten')
         /\ (\A i \in Elements(result.accepted) : Placed(i))' <=>
                AllHeld(Queue', result'.accepted, result'.unhandled, Eaten')
  <1>1. Eaten' \in [Turns -> Seq(AllItems)] /\ \A k \in Turns : Eaten'[k] = turn'[k].consumed
    BY DEF SeqsType, Eaten
  <1>2. ItemsApart' <=> Apart(Queue', result'.accepted, result'.unhandled, Eaten')
    BY <1>1 DEF ItemsApart, Apart
  <1>3. (\A i \in Elements(result.accepted) : Placed(i))' <=>
            AllHeld(Queue', result'.accepted, result'.unhandled, Eaten')
    BY <1>1 DEF Placed, AllHeld
  <1> QED
    BY <1>1, <1>2, <1>3

\* No turn consumes anything, or is replaced by another.
SameMeals ==
    /\ preemptCtrl'.turnID = preemptCtrl.turnID
    /\ \A k \in Turns : turn'[k].consumed = turn[k].consumed

\* The items stay where they are, and run where it is.
Still ==
    /\ UNCHANGED <<loop, result, store, runnerBytes>> /\ buffer'.buf = buffer.buf
    /\ SameMeals
    /\ \A p \in Items : Unsent(p)' => Unsent(p)
    /\ NoIdleStops => (stopCtrl'.phase = "idleWaiting" => stopCtrl.phase = "idleWaiting")

\* All of ItemsInv but for how turns go.
PlacesInv ==
    /\ SeqsType /\ RunHolds /\ NotLoaded
    /\ ItemsApart /\ StoreDistinct
    /\ NoIdleStops => NeverIdle /\ ItemsPlaced
    /\ "save" \notin Faults => Saved

LEMMA ItemsInvParts ==
  ItemsInv <=> PlacesInv /\ TurnsAhead /\ ("early" \notin Faults => EventsRead)
  BY DEF ItemsInv, PlacesInv

LEMMA ItemsInvPartsNext ==
  ASSUME PlacesInv', TurnsAhead', "early" \notin Faults => EventsRead'
  PROVE  ItemsInv'
  BY DEF ItemsInv, PlacesInv

LEMMA SameEaten ==
  ASSUME \A k \in Turns : turn'[k].consumed = turn[k].consumed
  PROVE  Eaten' = Eaten
  BY DEF Eaten

LEMMA StillKeeps ==
  ASSUME PlacesInv, Still
  PROVE  PlacesInv'
  <1> USE DEF PlacesInv, Still, SameMeals
  <1>1. SeqsType'
    BY DEF SeqsType
  <1>2. RunHolds'
    BY DEF RunHolds
  <1>3. NotLoaded'
    BY DEF NotLoaded
  <1>4. Queue' = Queue /\ Eaten' = Eaten
    BY SameEaten DEF Queue
  <1>5. ItemsApart'
    BY <1>1, <1>4, ItemsAre, ItemsAreNext
  <1>6. StoreDistinct'
    BY DEF StoreDistinct
  <1>7. NoIdleStops => NeverIdle'
    BY DEF NeverIdle
  <1>8. NoIdleStops => ItemsPlaced'
    <2>1. ResumeForgotten => ResumeForgotten'
      BY DEF ResumeForgotten
    <2>2. (\A i \in Elements(result.accepted) : Placed(i)) =>
              (\A i \in Elements(result.accepted) : Placed(i))'
      BY <1>1, <1>4, ItemsAre, ItemsAreNext
    <2> QED
      BY <2>1, <2>2 DEF ItemsPlaced
  <1>9. "save" \notin Faults => Saved'
    BY DEF Saved
  <1> QED
    BY <1>1, <1>2, <1>3, <1>5, <1>6, <1>7, <1>8, <1>9

\* Where the turns are does not change.
SameTurns ==
    /\ UNCHANGED <<turn, captured, runnerBytes>> /\ preemptCtrl'.turnID = preemptCtrl.turnID

LEMMA SameTurnsKeep ==
  ASSUME TurnsAhead, "early" \notin Faults => EventsRead, SameTurns,
         UNCHANGED loop, result'.interrupted = result.interrupted
  PROVE  TurnsAhead' /\ ("early" \notin Faults => EventsRead')
  <1> USE DEF SameTurns
  <1>1. TurnsAhead'
    BY DEF TurnsAhead, NotStarted, NotBegun
  <1>2. ASSUME "early" \notin Faults PROVE EventsRead'
    <2>1. AgentAndEvents'
      BY <1>2 DEF EventsRead, AgentAndEvents, Notable
    <2>2. TurnInCourse'
      BY <1>2 DEF EventsRead, TurnInCourse, Notable
    <2>3. TurnSettled'
      BY <1>2 DEF EventsRead, TurnSettled, Notable
    <2> QED
      BY <2>1, <2>2, <2>3 DEF EventsRead
  <1> QED
    BY <1>1, <1>2

\* The callers of Stop, the timers and the context.
LEMMA StoppersKeepItems ==
  ASSUME IInv, ItemsInv, StopperSteps
  PROVE  ItemsInv'
  <1>1. Untouched
    BY StoppersEffect DEF IInv
  <1>0. StateType
    BY DEF IInv
  <1>2. UNCHANGED result /\ buffer'.buf = buffer.buf
    <2> USE DEF TrySend, stopVars, pushVars, turnVars, saveVars
    <2>1. ASSUME NEW s \in Stoppers, NEW kind \in StopKinds, RequestStop(s, kind)
          PROVE  UNCHANGED <<result, buffer>>
      BY <2>1 DEF RequestStop
    <2>2. ASSUME NEW s \in Stoppers \cup {Timer}, StopStep(s)
          PROVE  UNCHANGED result /\ buffer'.buf = buffer.buf
      BY <1>0, <2>2 DEF StopStep, WakeIdle, StoreStopped, FinishStop, Wakeup, CloseBuffer,
                        StateType, BufferType
    <2>3. TimerFires \/ CommitStop \/ TakeLateItems \/ CancelCtx => UNCHANGED <<result, buffer>>
      BY DEF TimerFires, CommitStop, TakeLateItems, CancelCtx
    <2>4. WatchCtx => UNCHANGED result /\ buffer'.buf = buffer.buf
      BY <1>0 DEF WatchCtx, CloseBuffer, StateType, BufferType
    <2> QED
      BY <2>1, <2>2, <2>3, <2>4 DEF StopperSteps
  <1>3. ASSUME NoIdleStops, stopCtrl'.phase = "idleWaiting"
        PROVE  stopCtrl.phase = "idleWaiting"
    <2> USE <1>0, <1>3 DEF StateType, CtrlType
    <2>1. ASSUME NEW s \in Stoppers, NEW kind \in StopKinds, RequestStop(s, kind)
          PROVE  stopCtrl.phase = "idleWaiting"
      <3>1. kind \notin {"idle", "timeout"}
        BY DEF NoIdleStops
      <3>2. stopCtrl' = stopCtrl \/ stopCtrl'.phase = "committed"
        BY <2>1, <3>1 DEF RequestStop
      <3> QED
        BY <3>2
    <2>2. ASSUME NEW s \in Stoppers \cup {Timer}, StopStep(s)
          PROVE  UNCHANGED stopCtrl
      BY <2>2 DEF StopStep, WakeIdle, StoreStopped, FinishStop
    <2>3. CommitStop => stopCtrl' = stopCtrl \/ stopCtrl'.phase = "committed"
      BY DEF CommitStop
    <2>4. TimerFires \/ TakeLateItems \/ CancelCtx \/ WatchCtx => UNCHANGED stopCtrl
      BY DEF TimerFires, TakeLateItems, CancelCtx, WatchCtx
    <2> QED
      BY <2>1, <2>2, <2>3, <2>4 DEF StopperSteps
  <1>4. Still
    <2>1. SameMeals /\ UNCHANGED <<loop, result, store, runnerBytes>>
      BY <1>1, <1>2 DEF Untouched, SameMeals
    <2>2. \A p \in Items : Unsent(p)' => Unsent(p)
      BY <1>1 DEF Untouched, Unsent
    <2> QED
      BY <1>2, <1>3, <2>1, <2>2 DEF Still
  <1>5. TurnsAhead' /\ ("early" \notin Faults => EventsRead')
    <2>1. SameTurns /\ UNCHANGED loop
      BY <1>1 DEF Untouched, SameTurns
    <2>2. TurnsAhead /\ ("early" \notin Faults => EventsRead)
      BY ItemsInvParts
    <2> QED
      BY <1>2, <2>1, <2>2, SameTurnsKeep
  <1> QED
    BY <1>4, <1>5, StillKeeps, ItemsInvParts, ItemsInvPartsNext

\* TrySend: a new item at the end of the queue.
LEMMA AcceptKeeps ==
  ASSUME IInv, ItemsInv, NEW p \in Items, Unsent(p), ~Unsent(p)',
         \A o \in Items : Unsent(o)' => Unsent(o),
         buffer'.buf = Append(buffer.buf, p),
         result' = [result EXCEPT !.accepted = Append(@, p)],
         UNCHANGED <<loop, stopCtrl, store, turn, captured, runnerBytes, preemptCtrl>>
  PROVE  ItemsInv'
  <1> USE DEF ItemsInv
  <1>0. p \in AllItems /\ p \notin Elements(result.accepted)
    BY DEF RunHolds, AllItems
  <1>1. /\ result'.accepted = Append(result.accepted, p)
        /\ result'.unhandled = result.unhandled /\ result'.interrupted = result.interrupted
        /\ result.accepted \in Seq(AllItems) /\ buffer.buf \in Seq(AllItems)
        /\ loop.hand \in Seq(AllItems)
    BY DEF SeqsType
  <1>2. SeqsType'
    <2>1. result'.accepted \in Seq(AllItems) /\ buffer'.buf \in Seq(AllItems)
      BY <1>0, <1>1, AppendFacts
    <2> QED
      BY <1>1, <2>1 DEF SeqsType
  <1>3. Elements(result'.accepted) = Elements(result.accepted) \cup {p}
    BY <1>0, <1>1, AppendFacts
  <1>4. RunHolds'
    <2>1. \A o \in Items : Unsent(o)' => o \notin Elements(result'.accepted)
      BY <1>3 DEF RunHolds
    <2> QED
      BY <1>1, <2>1 DEF RunHolds
  <1>5. NotLoaded'
    BY <1>3 DEF NotLoaded
  <1>6. Queue' = Append(Queue, p)
    <2>1. PICK h, b, b2 : h = loop.hand /\ b = buffer.buf /\ b2 = buffer'.buf
      OBVIOUS
    <2>2. h \in Seq(AllItems) /\ b \in Seq(AllItems) /\ b2 = Append(b, p)
      BY <1>1, <2>1
    <2>3. h \o b2 = Append(h \o b, p)
      BY <1>0, <2>2, ConcatAppend
    <2> QED
      BY <2>1, <2>3 DEF Queue
  <1>7. Eaten' = Eaten
    BY SameEaten
  <1>8. /\ ItemsApart'
        /\ (\A i \in Elements(result.accepted) : Placed(i)) =>
               (\A i \in Elements(result.accepted) : Placed(i))'
    BY <1>0, <1>1, <1>2, <1>6, <1>7, ItemsAre, ItemsAreNext, AcceptApart
  <1>9. ResumeForgotten => ResumeForgotten'
    BY <1>1 DEF ResumeForgotten
  <1>10. NoIdleStops => NeverIdle' /\ ItemsPlaced'
    BY <1>8, <1>9 DEF NeverIdle, ItemsPlaced
  <1>11. StoreDistinct' /\ ("save" \notin Faults => Saved')
    BY <1>1 DEF StoreDistinct, Saved
  <1>12. TurnsAhead' /\ ("early" \notin Faults => EventsRead')
    BY <1>1, SameTurnsKeep DEF SameTurns
  <1> QED
    BY <1>2, <1>4, <1>5, <1>8, <1>10, <1>11, <1>12

\* Only TrySend offers an item to the buffer.
LEMMA PushersMove ==
  ASSUME IInv, NEW p \in Items,
         PushStep(p) \/ \E kind \in PushKinds : Push(p, kind)
  PROVE  /\ PushFrame /\ SameTurn
         /\ \A o \in Items \ {p} : pusher'[o] = pusher[o]
         /\ ~TrySend(p) => /\ UNCHANGED <<buffer, result>>
                           /\ Unsent(p)' => Unsent(p)
         /\ TrySend(p) => UNCHANGED preemptCtrl /\ Unsent(p) /\ ~Unsent(p)'
  <1>0. StateType
    BY DEF IInv
  <1>1. ASSUME NEW kind \in PushKinds, Push(p, kind)
        PROVE  /\ PushFrame /\ UNCHANGED <<preemptCtrl, buffer, result>> /\ ~TrySend(p)
               /\ \A o \in Items \ {p} : pusher'[o] = pusher[o]
               /\ Unsent(p)
    <2>1. /\ UNCHANGED <<buffer, preemptCtrl, ack, late>> /\ PushFrame
          /\ \/ kind \in {"strategy", "strategyPreempt"} /\ Moves(p, "idle", "begin")
             \/ kind \in {"plain", "preempt", "delayed"} /\ Moves(p, "idle", "start")
      BY <1>0, <1>1, PushEffect
    <2>2. UNCHANGED result
      BY <1>1 DEF Push
    <2>3. pusher[p].pc = "idle" /\ \A o \in Items \ {p} : pusher'[o] = pusher[o]
      BY <2>1 DEF Moves
    <2> QED
      BY <2>1, <2>2, <2>3 DEF Unsent, TrySend, PusherAt
  <1>2. ASSUME CheckStopped(p)
        PROVE  /\ PushFrame /\ UNCHANGED <<preemptCtrl, buffer, result>> /\ ~TrySend(p)
               /\ \A o \in Items \ {p} : pusher'[o] = pusher[o]
               /\ Unsent(p)
    <2>1. /\ PushFrame /\ UNCHANGED <<preemptCtrl, buffer>>
          /\ pusher[p].pc \in {"start", "check"}
          /\ \E next : Moves(p, pusher[p].pc, next)
      BY <1>0, <1>2, CheckStoppedEffect
    <2>2. UNCHANGED result
      BY <1>2 DEF CheckStopped
    <2>3. \A o \in Items \ {p} : pusher'[o] = pusher[o]
      BY <2>1 DEF Moves
    <2> QED
      BY <2>1, <2>2, <2>3 DEF Unsent, TrySend, PusherAt
  <1>3. ASSUME BeginPush(p)
        PROVE  /\ PushFrame /\ SameTurn /\ UNCHANGED <<buffer, result>> /\ ~TrySend(p)
               /\ \A o \in Items \ {p} : pusher'[o] = pusher[o]
               /\ Unsent(p)
    <2>1. /\ PushFrame /\ SameTurn /\ UNCHANGED buffer
          /\ \E next : Moves(p, "begin", next)
      BY <1>0, <1>3, BeginPushEffect
    <2>2. UNCHANGED result
      BY <1>3 DEF BeginPush
    <2>3. pusher[p].pc = "begin" /\ \A o \in Items \ {p} : pusher'[o] = pusher[o]
      BY <2>1 DEF Moves
    <2> QED
      BY <2>1, <2>2, <2>3 DEF Unsent, TrySend, PusherAt
  <1>4. ASSUME RequestPreempt(p)
        PROVE  /\ PushFrame /\ SameTurn /\ UNCHANGED <<buffer, result>> /\ ~TrySend(p)
               /\ \A o \in Items \ {p} : pusher'[o] = pusher[o]
               /\ ~Unsent(p)'
    <2>1. /\ PushFrame /\ SameTurn /\ UNCHANGED buffer
          /\ Moves(p, "delay", "done") \/ Moves(p, "request", "end")
      BY <1>0, <1>4, RequestPreemptEffect
    <2>2. UNCHANGED result
      BY <1>4 DEF RequestPreempt
    <2>3. /\ pusher[p].pc \in {"delay", "request"} /\ pusher'[p].pc \in {"done", "end"}
          /\ \A o \in Items \ {p} : pusher'[o] = pusher[o]
      BY <2>1 DEF Moves
    <2> QED
      BY <2>1, <2>2, <2>3 DEF Unsent, TrySend, PusherAt
  <1>5. ASSUME DelayCancelled(p)
        PROVE  /\ PushFrame /\ UNCHANGED <<preemptCtrl, buffer, result>> /\ ~TrySend(p)
               /\ \A o \in Items \ {p} : pusher'[o] = pusher[o]
               /\ ~Unsent(p)'
    <2>1. /\ PushFrame /\ UNCHANGED <<preemptCtrl, buffer>>
          /\ Moves(p, "delay", "done")
      BY <1>0, <1>5, DelayCancelledEffect
    <2>2. UNCHANGED result
      BY <1>5 DEF DelayCancelled
    <2>3. /\ pusher[p].pc = "delay" /\ pusher'[p].pc = "done"
          /\ \A o \in Items \ {p} : pusher'[o] = pusher[o]
      BY <2>1 DEF Moves
    <2> QED
      BY <2>1, <2>2, <2>3 DEF Unsent, TrySend, PusherAt
  <1>6. ASSUME EndPush(p)
        PROVE  /\ PushFrame /\ SameTurn /\ UNCHANGED <<buffer, result>> /\ ~TrySend(p)
               /\ \A o \in Items \ {p} : pusher'[o] = pusher[o]
               /\ ~Unsent(p)'
    <2>1. pusher \in [Items -> PusherRec] /\ preemptCtrl \in PreemptRec
      BY <1>0, PusherTypes, PreemptType
    <2>2. PICK pc \in {"panic", "delay", "done"} : pusher' = [pusher EXCEPT ![p].pc = pc]
      BY <1>6 DEF EndPush
    <2>3. pusher'[p].pc = pc /\ \A o \in Items \ {p} : pusher'[o] = pusher[o]
      BY <2>1, <2>2 DEF PusherRec
    <2>4. preemptCtrl' = [preemptCtrl EXCEPT !.pushInFlight = CountDown(@)]
      BY <1>6 DEF EndPush
    <2>5. CountDown(preemptCtrl.pushInFlight) \in Nat
      BY <2>1 DEF CountDown, PreemptRec
    <2>6. SameTurn
      BY <2>1, <2>4, <2>5 DEF SameTurn, PreemptRec
    <2>7. /\ PushFrame /\ UNCHANGED <<buffer, result>> /\ pusher[p].pc = "end"
      BY <1>6 DEF EndPush, PushFrame, stopVars, turnVars, saveVars, PusherAt
    <2> QED
      BY <2>3, <2>6, <2>7 DEF Unsent, TrySend, PusherAt
  <1>7. ASSUME TrySend(p)
        PROVE  /\ PushFrame /\ UNCHANGED preemptCtrl
               /\ \A o \in Items \ {p} : pusher'[o] = pusher[o]
               /\ Unsent(p) /\ ~Unsent(p)'
    <2>1. /\ PushFrame /\ UNCHANGED preemptCtrl
          /\ \E next \in {AfterLate(p), "done", "request", "end"} : Moves(p, "send", next)
      BY <1>0, <1>7, TrySendEffect
    <2>2. AfterLate(p) \in {"done", "end"}
      BY DEF AfterLate
    <2>3. PICK next \in {"done", "request", "end"} : Moves(p, "send", next)
      BY <2>1, <2>2
    <2> QED
      BY <2>1, <2>3 DEF Moves, Unsent
  <1>8. UNCHANGED preemptCtrl => SameTurn
    BY <1>0, PreemptType DEF SameTurn
  <1> QED
    BY <1>1, <1>2, <1>3, <1>4, <1>5, <1>6, <1>7, <1>8 DEF PushStep

LEMMA PushersKeepItems ==
  ASSUME IInv, ItemsInv, PusherSteps
  PROVE  ItemsInv'
  <1>0. StateType
    BY DEF IInv
  <1>1. PICK p \in Items : PushStep(p) \/ \E kind \in PushKinds : Push(p, kind)
    BY DEF PusherSteps
  <1>2. PushFrame /\ SameTurn /\ \A o \in Items \ {p} : pusher'[o] = pusher[o]
    BY <1>1, PushersMove
  <1>3. CASE UNCHANGED <<buffer, result>> /\ (Unsent(p)' => Unsent(p))
    <2>1. \A o \in Items : Unsent(o)' => Unsent(o)
      BY <1>2, <1>3 DEF Unsent
    <2>2. Still
      BY <1>2, <1>3, <2>1 DEF Still, PushFrame, SameTurn, SameMeals
    <2>3. SameTurns /\ UNCHANGED loop
      BY <1>2 DEF PushFrame, SameTurn, SameTurns
    <2>4. TurnsAhead' /\ ("early" \notin Faults => EventsRead')
      BY <1>3, <2>3, ItemsInvParts, SameTurnsKeep
    <2> QED
      BY <2>2, <2>4, StillKeeps, ItemsInvParts, ItemsInvPartsNext
  <1>4. CASE TrySend(p) /\ ~UNCHANGED <<buffer, result>>
    <2>1. UNCHANGED preemptCtrl /\ Unsent(p) /\ ~Unsent(p)'
      BY <1>1, <1>4, PushersMove
    <2>2. /\ buffer' = [buffer EXCEPT !.buf = Append(@, p)]
          /\ result' = [result EXCEPT !.accepted = Append(@, p)]
      BY <1>4 DEF TrySend
    <2>3. buffer'.buf = Append(buffer.buf, p)
      BY <1>0, <2>2 DEF StateType, BufferType
    <2>4. \A o \in Items : Unsent(o)' => Unsent(o)
      BY <1>2, <2>1 DEF Unsent
    <2> QED
      BY <1>2, <2>1, <2>2, <2>3, <2>4, AcceptKeeps DEF PushFrame
  <1>5. TrySend(p) => ~Unsent(p)'
    BY <1>1, PushersMove
  <1>6. ~TrySend(p) => UNCHANGED <<buffer, result>> /\ (Unsent(p)' => Unsent(p))
    BY <1>1, PushersMove
  <1> QED
    BY <1>3, <1>4, <1>5, <1>6

-----------------------------------------------------------------------------
(* The steps of the goroutines of a turn *)

\* Only turn k changes, and consumes nothing; run does not move.
OnlyTurn(k) ==
    /\ UNCHANGED <<loop, result, store, runnerBytes, pusher>> /\ buffer'.buf = buffer.buf
    /\ preemptCtrl'.turnID = preemptCtrl.turnID /\ stopCtrl'.phase = stopCtrl.phase
    /\ \A j \in Turns \ {k} : turn'[j] = turn[j]
    /\ turn'[k].consumed = turn[k].consumed

\* The watchers leave the agent and its events alone.
SameAgent(k) ==
    /\ turn'[k].agent = turn[k].agent /\ turn'[k].event = turn[k].event
    /\ turn'[k].iterClosed = turn[k].iterClosed
    /\ turn'[k].proxy = turn[k].proxy /\ turn'[k].handler = turn[k].handler

LEMMA WatchersOnly ==
  ASSUME StateType, NEW k \in Turns, WatchStep(k)
  PROVE  OnlyTurn(k) /\ SameAgent(k) /\ UNCHANGED captured
  <1>0. TurnType /\ turn[k] \in TurnRec(turn[k].consumed)
    BY TurnIs DEF StateType
  <1>1. preemptCtrl \in PreemptRec
    BY PreemptType
  <1> DEFINE Ctrl == preemptCtrl'.turnID = preemptCtrl.turnID /\ stopCtrl'.phase = stopCtrl.phase
             Rest == UNCHANGED <<loop, result, store, runnerBytes, pusher, buffer, captured>>
             Kept == /\ Ctrl /\ Rest /\ SameAgent(k)
                     /\ \A j \in Turns \ {k} : turn'[j] = turn[j]
                     /\ turn'[k].consumed = turn[k].consumed
  <1>a. ASSUME NEW r, turn' = [turn EXCEPT ![k] = r], r.consumed = turn[k].consumed,
               r.agent = turn[k].agent, r.event = turn[k].event,
               r.iterClosed = turn[k].iterClosed, r.proxy = turn[k].proxy,
               r.handler = turn[k].handler
        PROVE  /\ SameAgent(k) /\ turn'[k].consumed = turn[k].consumed
               /\ \A j \in Turns \ {k} : turn'[j] = turn[j]
    <2>1. turn'[k] = r /\ \A j \in Turns \ {k} : turn'[j] = turn[j]
      BY <1>0, <1>a DEF TurnType
    <2> QED
      BY <1>a, <2>1 DEF SameAgent
  <1>2. ASSUME WatchPreempt(k) PROVE Kept
    <2>1. PICK next \in WatcherPcs : turn' = [turn EXCEPT ![k].watchPreempt = next]
      BY <1>2 DEF WatchPreempt, WatcherPcs
    <2> DEFINE r == [turn[k] EXCEPT !.watchPreempt = next]
    <2>2. turn' = [turn EXCEPT ![k] = r]
      BY <2>1
    <2>3. /\ r.consumed = turn[k].consumed
          /\ r.agent = turn[k].agent /\ r.event = turn[k].event
          /\ r.iterClosed = turn[k].iterClosed /\ r.proxy = turn[k].proxy
          /\ r.handler = turn[k].handler
      BY <1>0 DEF TurnRec
    <2>4. Ctrl
      <3>1. preemptCtrl' = preemptCtrl \/ preemptCtrl' = [preemptCtrl EXCEPT !.notify = FALSE]
        BY <1>2 DEF WatchPreempt
      <3>2. UNCHANGED stopCtrl
        BY <1>2 DEF WatchPreempt
      <3> QED
        BY <1>1, <3>1, <3>2 DEF PreemptRec
    <2>5. Rest
      BY <1>2 DEF WatchPreempt, pushVars, saveVars
    <2> HIDE DEF r, Ctrl, Rest
    <2> QED
      BY <1>a, <2>2, <2>3, <2>4, <2>5
  <1>3. ASSUME ReceivePreempt(k) PROVE Kept
    <2> DEFINE received == preemptCtrl.phase = "active" /\ preemptCtrl.pending # {}
               next == IF received THEN "submit" ELSE "select"
               request == IF received THEN preemptCtrl.pending ELSE {}
               r == [turn[k] EXCEPT !.watchPreempt = next, !.request = request]
    <2>1. turn' = [turn EXCEPT ![k] = r]
      BY <1>3 DEF ReceivePreempt
    <2>2. next \in WatcherPcs /\ request \in SUBSET Items
      BY <1>1 DEF WatcherPcs, PreemptRec
    <2> HIDE DEF next, request
    <2>3. /\ r.consumed = turn[k].consumed
          /\ r.agent = turn[k].agent /\ r.event = turn[k].event
          /\ r.iterClosed = turn[k].iterClosed /\ r.proxy = turn[k].proxy
          /\ r.handler = turn[k].handler
      BY <1>0 DEF TurnRec
    <2>4. Ctrl
      <3>1. preemptCtrl' = preemptCtrl \/ preemptCtrl' = [preemptCtrl EXCEPT !.pending = {}]
        BY <1>3 DEF ReceivePreempt
      <3>2. UNCHANGED stopCtrl
        BY <1>3 DEF ReceivePreempt
      <3> QED
        BY <1>1, <3>1, <3>2 DEF PreemptRec
    <2>5. Rest
      BY <1>3 DEF ReceivePreempt, pushVars, saveVars
    <2> HIDE DEF r, Ctrl, Rest
    <2> QED
      BY <1>a, <2>1, <2>3, <2>4, <2>5
  <1>4. ASSUME SubmitPreempt(k) PROVE Kept
    <2>1. PICK next \in {"close", "ack"}, cancel \in {"cancelling", "handled"} :
             turn' = [turn EXCEPT ![k] = [turn[k] EXCEPT
                !.watchPreempt = next, !.cancel = cancel]]
      <3>1. Cancelled(k) \in {"cancelling", "handled"}
        BY DEF Cancelled
      <3> QED
        BY <1>4, <3>1 DEF SubmitPreempt
    <2> DEFINE r == [turn[k] EXCEPT !.watchPreempt = next, !.cancel = cancel]
    <2>2. turn' = [turn EXCEPT ![k] = r]
      BY <2>1
    <2>3. /\ r.consumed = turn[k].consumed
          /\ r.agent = turn[k].agent /\ r.event = turn[k].event
          /\ r.iterClosed = turn[k].iterClosed /\ r.proxy = turn[k].proxy
          /\ r.handler = turn[k].handler
      BY <1>0 DEF TurnRec
    <2>4. Ctrl
      BY <1>4 DEF SubmitPreempt
    <2>5. Rest
      BY <1>4 DEF SubmitPreempt, pushVars, saveVars
    <2> HIDE DEF r, Ctrl, Rest
    <2> QED
      BY <1>a, <2>2, <2>3, <2>4, <2>5
  <1>8. ASSUME ClosePreemptDone(k) PROVE Kept
    <2> DEFINE r == [turn[k] EXCEPT !.watchPreempt = "ack", !.preempted = TRUE]
    <2>1. turn' = [turn EXCEPT ![k] = r]
      BY <1>8 DEF ClosePreemptDone
    <2>2. /\ r.consumed = turn[k].consumed
          /\ r.agent = turn[k].agent /\ r.event = turn[k].event
          /\ r.iterClosed = turn[k].iterClosed /\ r.proxy = turn[k].proxy
          /\ r.handler = turn[k].handler
      BY <1>0 DEF TurnRec
    <2>3. Ctrl
      BY <1>8 DEF ClosePreemptDone
    <2>4. Rest
      BY <1>8 DEF ClosePreemptDone, pushVars, saveVars
    <2> HIDE DEF r, Ctrl, Rest
    <2> QED
      BY <1>a, <2>1, <2>2, <2>3, <2>4
  <1>9. ASSUME AckPreempt(k) PROVE Kept
    <2> DEFINE r == [turn[k] EXCEPT !.watchPreempt = "select", !.request = {}]
    <2>1. turn' = [turn EXCEPT ![k] = r]
      BY <1>9 DEF AckPreempt
    <2>2. /\ r.consumed = turn[k].consumed
          /\ r.agent = turn[k].agent /\ r.event = turn[k].event
          /\ r.iterClosed = turn[k].iterClosed /\ r.proxy = turn[k].proxy
          /\ r.handler = turn[k].handler
      BY <1>0 DEF TurnRec
    <2>3. Ctrl
      BY <1>9 DEF AckPreempt
    <2>4. Rest
      BY <1>9 DEF AckPreempt, saveVars
    <2> HIDE DEF r, Ctrl, Rest
    <2> QED
      BY <1>a, <2>1, <2>2, <2>3, <2>4
  <1>5. ASSUME WatchStop(k) PROVE Kept
    <2>1. PICK next \in WatcherPcs : turn' = [turn EXCEPT ![k].watchStop = next]
      BY <1>5 DEF WatchStop, WatcherPcs
    <2> DEFINE r == [turn[k] EXCEPT !.watchStop = next]
    <2>2. turn' = [turn EXCEPT ![k] = r]
      BY <2>1
    <2>3. /\ r.consumed = turn[k].consumed
          /\ r.agent = turn[k].agent /\ r.event = turn[k].event
          /\ r.iterClosed = turn[k].iterClosed /\ r.proxy = turn[k].proxy
          /\ r.handler = turn[k].handler
      BY <1>0 DEF TurnRec
    <2>4. Ctrl
      <3>1. stopCtrl' = stopCtrl \/ stopCtrl' = [stopCtrl EXCEPT !.notify = FALSE]
        BY <1>5 DEF WatchStop
      <3>2. UNCHANGED preemptCtrl
        BY <1>5 DEF WatchStop
      <3> QED
        BY <3>1, <3>2 DEF StateType, CtrlType
    <2>5. Rest
      BY <1>5 DEF WatchStop, pushVars, saveVars
    <2> HIDE DEF r, Ctrl, Rest
    <2> QED
      BY <1>a, <2>2, <2>3, <2>4, <2>5
  <1>6. ASSUME ReceiveCancel(k) PROVE Kept
    <2>1. PICK next \in WatcherPcs : turn' = [turn EXCEPT ![k].watchStop = next]
      BY <1>6 DEF ReceiveCancel, WatcherPcs
    <2> DEFINE r == [turn[k] EXCEPT !.watchStop = next]
    <2>2. turn' = [turn EXCEPT ![k] = r]
      BY <2>1
    <2>3. /\ r.consumed = turn[k].consumed
          /\ r.agent = turn[k].agent /\ r.event = turn[k].event
          /\ r.iterClosed = turn[k].iterClosed /\ r.proxy = turn[k].proxy
          /\ r.handler = turn[k].handler
      BY <1>0 DEF TurnRec
    <2>4. Ctrl
      <3>1. stopCtrl' = stopCtrl \/ stopCtrl' = [stopCtrl EXCEPT !.pending = FALSE]
        BY <1>6 DEF ReceiveCancel
      <3>2. UNCHANGED preemptCtrl
        BY <1>6 DEF ReceiveCancel
      <3> QED
        BY <3>1, <3>2 DEF StateType, CtrlType
    <2>5. Rest
      BY <1>6 DEF ReceiveCancel, pushVars, saveVars
    <2> HIDE DEF r, Ctrl, Rest
    <2> QED
      BY <1>a, <2>2, <2>3, <2>4, <2>5
  <1>7. ASSUME SubmitCancel(k) PROVE Kept
    <2>0. turn[k].stopped \in BOOLEAN /\ Cancelled(k) \in {"cancelling", "handled"}
      BY <1>0 DEF Cancelled, TurnRec
    <2>1. PICK stopped \in BOOLEAN, cancel \in {"cancelling", "handled"} :
             turn' = [turn EXCEPT ![k] = [turn[k] EXCEPT
                !.watchStop = "select", !.cancel = cancel, !.stopped = stopped]]
      BY <1>7, <2>0 DEF SubmitCancel
    <2> DEFINE r == [turn[k] EXCEPT !.watchStop = "select", !.cancel = cancel,
                                    !.stopped = stopped]
    <2>2. turn' = [turn EXCEPT ![k] = r]
      BY <2>1
    <2>3. /\ r.consumed = turn[k].consumed
          /\ r.agent = turn[k].agent /\ r.event = turn[k].event
          /\ r.iterClosed = turn[k].iterClosed /\ r.proxy = turn[k].proxy
          /\ r.handler = turn[k].handler
      BY <1>0 DEF TurnRec
    <2>4. Ctrl
      BY <1>7 DEF SubmitCancel
    <2>5. Rest
      BY <1>7 DEF SubmitCancel, pushVars, saveVars
    <2> HIDE DEF r, Ctrl, Rest
    <2> QED
      BY <1>a, <2>2, <2>3, <2>4, <2>5
  <1> QED
    BY <1>2, <1>3, <1>4, <1>5, <1>6, <1>7, <1>8, <1>9 DEF WatchStep, OnlyTurn

LEMMA OnlyTurnKeeps ==
  ASSUME PlacesInv, NEW k \in Turns, OnlyTurn(k)
  PROVE  PlacesInv'
  <1>1. SameMeals
    BY DEF OnlyTurn, SameMeals
  <1>2. \A p \in Items : Unsent(p)' => Unsent(p)
    BY DEF OnlyTurn, Unsent
  <1>3. Still
    BY <1>1, <1>2 DEF OnlyTurn, Still
  <1> QED
    BY <1>3, StillKeeps

\* A turn that has not begun stays so.
LEMMA OnlyTurnAhead ==
  ASSUME TurnsAhead, NEW k \in Turns, OnlyTurn(k),
         NotStarted(k) => NotBegun(turn'[k])
  PROVE  TurnsAhead'
  <1>1. \A j \in Turns : NotStarted(j)' <=> NotStarted(j)
    BY DEF OnlyTurn, NotStarted
  <1>2. \A j \in Turns : turn'[j].consumed = turn[j].consumed
    BY DEF OnlyTurn
  <1>3. \A j \in Turns : NotStarted(j) => NotBegun(turn'[j])
    BY DEF OnlyTurn, TurnsAhead
  <1> QED
    BY <1>1, <1>2, <1>3 DEF TurnsAhead, OnlyTurn

LEMMA WatchersKeepEvents ==
  ASSUME EventsRead, NEW k \in Turns, OnlyTurn(k), SameAgent(k), UNCHANGED captured
  PROVE  EventsRead'
  <1>1. \A j \in Turns : /\ turn'[j].agent = turn[j].agent /\ turn'[j].event = turn[j].event
                         /\ turn'[j].iterClosed = turn[j].iterClosed
                         /\ turn'[j].proxy = turn[j].proxy /\ turn'[j].handler = turn[j].handler
                         /\ turn'[j].consumed = turn[j].consumed
    BY DEF OnlyTurn, SameAgent
  <1>2. \A j \in Turns : Notable(j)' = Notable(j)
    BY <1>1 DEF Notable
  <1>3. UNCHANGED <<loop, captured, runnerBytes, result>> /\ preemptCtrl'.turnID = preemptCtrl.turnID
    BY DEF OnlyTurn
  <1>4. AgentAndEvents'
    BY <1>1, <1>2, <1>3 DEF EventsRead, AgentAndEvents
  <1>5. TurnInCourse'
    <2>1. CASE preemptCtrl.turnID \in Turns
      BY <1>1, <1>2, <1>3, <2>1 DEF EventsRead, TurnInCourse
    <2>2. CASE preemptCtrl.turnID \notin Turns
      BY <1>3, <2>2 DEF EventsRead, TurnInCourse, ActivePcs
    <2> QED
      BY <2>1, <2>2
  <1>6. TurnSettled'
    BY <1>1, <1>2, <1>3 DEF EventsRead, TurnSettled
  <1> QED
    BY <1>4, <1>5, <1>6 DEF EventsRead

\* The agent ends: the events of its turn are not copied yet.
LEMMA AgentEndsKeepsEvents ==
  ASSUME EventsRead, NEW k \in Turns, OnlyTurn(k), UNCHANGED captured,
         turn[k].agent = "run", turn'[k].agent = "over",
         turn'[k].iterClosed = turn[k].iterClosed,
         turn'[k].proxy = turn[k].proxy, turn'[k].handler = turn[k].handler
  PROVE  EventsRead'
  <1>1. \A j \in Turns \ {k} : turn'[j] = turn[j] /\ Notable(j)' = Notable(j)
    BY DEF OnlyTurn, Notable
  <1>2. turn[k].event = "none" /\ Notable(k) = {}
    BY DEF EventsRead, AgentAndEvents, Notable
  <1>3. UNCHANGED <<loop, captured, runnerBytes, result>> /\ preemptCtrl'.turnID = preemptCtrl.turnID
    BY DEF OnlyTurn
  <1>4. AgentAndEvents'
    <2>1. ASSUME NEW j \in Turns, j # k
          PROVE  /\ turn'[j].agent # "over" => turn'[j].event = "none"
                 /\ turn'[j].handler = "done" => turn'[j].proxy = "over"
                 /\ turn'[j].proxy = "run" =>
                        j = preemptCtrl'.turnID /\ loop'.pc \in {"active", "preempting"}
                 /\ turn'[j].iterClosed /\ j = preemptCtrl'.turnID => loop'.pc # "active"
                 /\ turn'[j].proxy = "over" /\ ~turn'[j].iterClosed /\ j = preemptCtrl'.turnID
                    /\ loop'.pc \in ActivePcs \cup {"after"} =>
                        turn'[j].agent = "over" /\ Notable(j)' \subseteq captured'
      BY <1>1, <1>3, <2>1 DEF EventsRead, AgentAndEvents
    <2>2. ~(turn[k].proxy = "over" /\ ~turn[k].iterClosed /\ k = preemptCtrl.turnID
            /\ loop.pc \in ActivePcs \cup {"after"})
      BY DEF EventsRead, AgentAndEvents
    <2>3. /\ turn'[k].agent # "over" => turn'[k].event = "none"
          /\ turn'[k].handler = "done" => turn'[k].proxy = "over"
          /\ turn'[k].proxy = "run" =>
                 k = preemptCtrl'.turnID /\ loop'.pc \in {"active", "preempting"}
          /\ turn'[k].iterClosed /\ k = preemptCtrl'.turnID => loop'.pc # "active"
          /\ ~(turn'[k].proxy = "over" /\ ~turn'[k].iterClosed /\ k = preemptCtrl'.turnID
               /\ loop'.pc \in ActivePcs \cup {"after"})
      BY <1>3, <2>2 DEF EventsRead, AgentAndEvents
    <2> QED
      BY <2>1, <2>3 DEF AgentAndEvents
  <1>5. TurnInCourse'
    <2>1. CASE preemptCtrl.turnID = k
      <3>1. loop.pc \in ActivePcs \cup {"after"} => captured = {}
        BY <1>2, <2>1 DEF EventsRead, TurnInCourse
      <3>2. loop.pc \in {"endStop", "endPreempt", "after"} => ~runnerBytes /\ loop.err = "none"
        BY <2>1 DEF EventsRead, TurnInCourse
      <3> QED
        BY <1>3, <2>1, <3>1, <3>2 DEF EventsRead, TurnInCourse
    <2>2. CASE preemptCtrl.turnID # k
      BY <1>1, <1>3, <2>2 DEF EventsRead, TurnInCourse, ActivePcs
    <2> QED
      BY <2>1, <2>2
  <1>6. TurnSettled'
    <2>1. CASE preemptCtrl.turnID = k
      BY <1>3, <2>1 DEF EventsRead, TurnSettled
    <2>2. CASE preemptCtrl.turnID # k
      BY <1>1, <1>3, <2>2 DEF EventsRead, TurnSettled
    <2> QED
      BY <2>1, <2>2
  <1> QED
    BY <1>4, <1>5, <1>6 DEF EventsRead

\* The events are copied, while the turn is active.
LEMMA CopyKeepsEvents ==
  ASSUME EventsRead, NEW k \in Turns, OnlyTurn(k),
         turn[k].proxy = "run", turn'[k].proxy = "over",
         turn[k].agent = "over" \/ turn[k].iterClosed,
         turn'[k].agent = turn[k].agent, turn'[k].event = turn[k].event,
         turn'[k].iterClosed = turn[k].iterClosed, turn'[k].handler = turn[k].handler,
         captured' = captured \cup (IF turn[k].agent = "over" THEN Notable(k) ELSE {})
  PROVE  EventsRead'
  <1>1. \A j \in Turns \ {k} : turn'[j] = turn[j] /\ Notable(j)' = Notable(j)
    BY DEF OnlyTurn, Notable
  <1>2. k = preemptCtrl.turnID /\ loop.pc \in {"active", "preempting"} /\ Notable(k)' = Notable(k)
    BY DEF EventsRead, AgentAndEvents, Notable
  <1>3. UNCHANGED <<loop, runnerBytes, result>> /\ preemptCtrl'.turnID = preemptCtrl.turnID
    BY DEF OnlyTurn
  <1>4. AgentAndEvents'
    <2>1. ASSUME NEW j \in Turns, j # k
          PROVE  /\ turn'[j].agent # "over" => turn'[j].event = "none"
                 /\ turn'[j].handler = "done" => turn'[j].proxy = "over"
                 /\ turn'[j].proxy = "run" =>
                        j = preemptCtrl'.turnID /\ loop'.pc \in {"active", "preempting"}
                 /\ j # preemptCtrl'.turnID
      BY <1>1, <1>2, <1>3, <2>1 DEF EventsRead, AgentAndEvents
    <2>2. /\ turn'[k].agent # "over" => turn'[k].event = "none"
          /\ turn'[k].proxy = "over"
          /\ turn'[k].iterClosed /\ k = preemptCtrl'.turnID => loop'.pc # "active"
      BY <1>3 DEF EventsRead, AgentAndEvents
    <2>3. ~turn'[k].iterClosed => turn'[k].agent = "over" /\ Notable(k)' \subseteq captured'
      BY <1>2
    <2> QED
      BY <2>1, <2>2, <2>3 DEF AgentAndEvents
  <1>5. TurnInCourse'
    <2>1. captured \subseteq Notable(k) /\ ~runnerBytes
      BY <1>2 DEF EventsRead, TurnInCourse, ActivePcs
    <2>2. captured' \subseteq Notable(k)'
      BY <1>2, <2>1
    <2> QED
      BY <1>2, <1>3, <2>1, <2>2 DEF TurnInCourse
  <1>6. TurnSettled'
    BY <1>2, <1>3 DEF TurnSettled, ActivePcs
  <1> QED
    BY <1>4, <1>5, <1>6 DEF EventsRead

\* The handler returns.
LEMMA HandlerKeepsEvents ==
  ASSUME EventsRead, NEW k \in Turns, OnlyTurn(k), UNCHANGED captured,
         turn[k].proxy = "over",
         turn'[k].agent = turn[k].agent, turn'[k].event = turn[k].event,
         turn'[k].iterClosed = turn[k].iterClosed, turn'[k].proxy = turn[k].proxy
  PROVE  EventsRead'
  <1>1. \A j \in Turns : /\ turn'[j].agent = turn[j].agent /\ turn'[j].event = turn[j].event
                         /\ turn'[j].iterClosed = turn[j].iterClosed
                         /\ turn'[j].proxy = turn[j].proxy
                         /\ turn'[j].consumed = turn[j].consumed
                         /\ turn'[j].handler = "done" => turn'[j].proxy = "over"
    BY DEF OnlyTurn, EventsRead, AgentAndEvents
  <1>2. \A j \in Turns : Notable(j)' = Notable(j)
    BY <1>1 DEF Notable
  <1>3. UNCHANGED <<loop, captured, runnerBytes, result>> /\ preemptCtrl'.turnID = preemptCtrl.turnID
    BY DEF OnlyTurn
  <1>4. AgentAndEvents'
    BY <1>1, <1>2, <1>3 DEF EventsRead, AgentAndEvents
  <1>5. TurnInCourse'
    <2>1. CASE preemptCtrl.turnID \in Turns
      BY <1>1, <1>2, <1>3, <2>1 DEF EventsRead, TurnInCourse
    <2>2. CASE preemptCtrl.turnID \notin Turns
      BY <1>3, <2>2 DEF EventsRead, TurnInCourse, ActivePcs
    <2> QED
      BY <2>1, <2>2
  <1>6. TurnSettled'
    BY <1>1, <1>2, <1>3 DEF EventsRead, TurnSettled
  <1> QED
    BY <1>4, <1>5, <1>6 DEF EventsRead

LEMMA TurnsKeepItems ==
  ASSUME IInv, ItemsInv, TurnSteps
  PROVE  ItemsInv'
  <1>0. StateType /\ TurnType
    BY DEF IInv, StateType
  <1>a. PlacesInv /\ TurnsAhead /\ ("early" \notin Faults => EventsRead)
    BY ItemsInvParts
  <1>b. \A k \in Turns : turn[k] \in TurnRec(turn[k].consumed)
    BY <1>0, TurnIs
  <1> DEFINE Kept == PlacesInv' /\ TurnsAhead' /\ ("early" \notin Faults => EventsRead')
  <1>1. ASSUME NEW k \in Turns, NEW ev \in Events \cup {"cancel"}, AgentEnds(k, ev) PROVE Kept
    <2>1. PICK bytes, cancel :
             turn' = [turn EXCEPT ![k] = [turn[k] EXCEPT
                !.agent = "over", !.event = ev, !.bytes = bytes, !.cancel = cancel]]
      BY <1>1 DEF AgentEnds
    <2>2. /\ turn[k].agent = "run"
          /\ UNCHANGED <<loop, buffer, preemptCtrl, stopCtrl, result, store, runnerBytes, pusher,
                         captured>>
      BY <1>1 DEF AgentEnds, TurnAt, pushVars, saveVars
    <2>3. /\ turn'[k].agent = "over"
          /\ turn'[k].consumed = turn[k].consumed
          /\ turn'[k].iterClosed = turn[k].iterClosed
          /\ turn'[k].proxy = turn[k].proxy /\ turn'[k].handler = turn[k].handler
          /\ \A j \in Turns \ {k} : turn'[j] = turn[j]
      BY <1>0, <1>b, <2>1 DEF TurnRec, TurnType
    <2>4. OnlyTurn(k)
      BY <2>2, <2>3 DEF OnlyTurn
    <2>5. ~NotStarted(k)
      BY <1>a, <2>2 DEF TurnsAhead, NotBegun
    <2> QED
      BY <1>a, <2>2, <2>3, <2>4, <2>5, OnlyTurnKeeps, OnlyTurnAhead, AgentEndsKeepsEvents
  <1>2. ASSUME NEW k \in Turns, CopyEvents(k) PROVE Kept
    <2>1. /\ turn[k].proxy = "run" /\ (turn[k].agent = "over" \/ turn[k].iterClosed)
          /\ captured' = captured \cup (IF turn[k].agent = "over" THEN Notable(k) ELSE {})
          /\ UNCHANGED <<loop, buffer, preemptCtrl, stopCtrl, result, store, runnerBytes, pusher>>
          /\ turn' = [turn EXCEPT ![k].proxy = "over"]
      BY <1>2 DEF CopyEvents, TurnAt, Notable, pushVars, saveVars
    <2>2. /\ turn'[k].agent = turn[k].agent /\ turn'[k].event = turn[k].event
          /\ turn'[k].consumed = turn[k].consumed
          /\ turn'[k].iterClosed = turn[k].iterClosed
          /\ turn'[k].proxy = "over" /\ turn'[k].handler = turn[k].handler
          /\ \A j \in Turns \ {k} : turn'[j] = turn[j]
      BY <1>0, <1>b, <2>1 DEF TurnRec, TurnType
    <2>3. OnlyTurn(k)
      BY <2>1, <2>2 DEF OnlyTurn
    <2>4. ~NotStarted(k)
      BY <1>a, <2>1 DEF TurnsAhead, NotBegun
    <2> QED
      BY <1>a, <2>1, <2>2, <2>3, <2>4, OnlyTurnKeeps, OnlyTurnAhead, CopyKeepsEvents
  <1>3. ASSUME NEW k \in Turns, HandlerReturns(k) PROVE Kept
    <2>1. PICK err : turn' = [turn EXCEPT ![k] = [turn[k] EXCEPT !.handler = "done", !.err = err]]
      BY <1>3 DEF HandlerReturns
    <2>2. /\ UNCHANGED <<loop, buffer, preemptCtrl, stopCtrl, result, store, runnerBytes, pusher,
                         captured>>
          /\ "early" \notin Faults => turn[k].proxy = "over"
      BY <1>3 DEF HandlerReturns, pushVars, saveVars
    <2>3. /\ turn'[k].agent = turn[k].agent /\ turn'[k].event = turn[k].event
          /\ turn'[k].consumed = turn[k].consumed
          /\ turn'[k].iterClosed = turn[k].iterClosed
          /\ turn'[k].proxy = turn[k].proxy
          /\ \A j \in Turns \ {k} : turn'[j] = turn[j]
      BY <1>0, <1>b, <2>1 DEF TurnRec, TurnType
    <2>4. OnlyTurn(k)
      BY <2>2, <2>3 DEF OnlyTurn
    <2>5. NotStarted(k) => NotBegun(turn'[k])
      BY <1>a, <2>3 DEF TurnsAhead, NotBegun
    <2> QED
      BY <1>a, <2>2, <2>3, <2>4, <2>5, OnlyTurnKeeps, OnlyTurnAhead, HandlerKeepsEvents
  <1>4. ASSUME NEW k \in Turns, WatchStep(k) PROVE Kept
    <2>1. OnlyTurn(k) /\ SameAgent(k) /\ UNCHANGED captured
      BY <1>0, <1>4, WatchersOnly
    <2>2. NotStarted(k) => NotBegun(turn'[k])
      BY <1>a, <2>1 DEF TurnsAhead, NotBegun, SameAgent
    <2> QED
      BY <1>a, <2>1, <2>2, OnlyTurnKeeps, OnlyTurnAhead, WatchersKeepEvents
  <1> HIDE DEF Kept
  <1>5. Kept
    BY <1>1, <1>2, <1>3, <1>4 DEF TurnSteps
  <1> QED
    BY <1>5, ItemsInvPartsNext DEF Kept

-----------------------------------------------------------------------------
(* The steps of run: what they have in common *)

LEMMA GotoOnly ==
  ASSUME LoopType, NEW pc, Goto(pc)
  PROVE  /\ loop'.pc = pc /\ loop'.hand = loop.hand /\ loop'.resume = loop.resume
         /\ loop'.idle = loop.idle /\ loop'.err = loop.err
  BY DEF LoopType, Goto

LEMMA LeaveOnly ==
  ASSUME LoopType, NEW err, Leave(err)
  PROVE  /\ loop'.pc = "cleanup" /\ loop'.hand = <<>> /\ loop'.resume = loop.resume
         /\ loop'.idle = loop.idle /\ loop'.err = err
  BY DEF LoopType, Leave

\* The events, while no turn is active ...
LEMMA EventsOutside ==
  ASSUME EventsRead, loop.pc \notin ActivePcs \cup {"after"},
         loop'.pc \notin ActivePcs \cup {"after"},
         UNCHANGED <<turn, runnerBytes>>, preemptCtrl'.turnID = preemptCtrl.turnID,
         result'.interrupted = result.interrupted
  PROVE  EventsRead'
  <1>1. \A j \in Turns : Notable(j)' = Notable(j)
    BY DEF Notable
  <1>2. AgentAndEvents'
    <2>1. \A k \in Turns : turn[k].proxy # "run"
      BY DEF EventsRead, AgentAndEvents, ActivePcs
    <2>2. loop'.pc # "active"
      BY DEF ActivePcs
    <2> QED
      BY <1>1, <2>1, <2>2 DEF EventsRead, AgentAndEvents
  <1>3. TurnInCourse'
    BY DEF TurnInCourse, ActivePcs
  <1>4. TurnSettled'
    BY <1>1 DEF EventsRead, TurnSettled
  <1> QED
    BY <1>2, <1>3, <1>4 DEF EventsRead

\* ... when a turn is planned, and has not begun ...
LEMMA EventsNotBegun ==
  ASSUME EventsRead, TurnsAhead', loop.pc \notin ActivePcs \cup {"after"},
         loop'.pc \in {"planning", "begin", "beginStop"}, preemptCtrl'.turnID \in Turns,
         \A j \in Turns : SameAgent(j),
         loop'.pc = "beginStop" => captured' = {} /\ ~runnerBytes'
  PROVE  EventsRead'
  <1> PICK k \in Turns : k = preemptCtrl'.turnID
    OBVIOUS
  <1>1. NotBegun(turn'[k])
    BY DEF TurnsAhead, NotStarted
  <1>2. Notable(k)' = {}
    BY <1>1 DEF Notable, NotBegun
  <1>3. \A j \in Turns : turn'[j].proxy # "run"
    BY DEF EventsRead, AgentAndEvents, ActivePcs, SameAgent
  <1>4. AgentAndEvents'
    <2>1. ASSUME NEW j \in Turns
          PROVE  /\ turn'[j].agent # "over" => turn'[j].event = "none"
                 /\ turn'[j].handler = "done" => turn'[j].proxy = "over"
      BY DEF EventsRead, AgentAndEvents, SameAgent
    <2>2. turn'[k].proxy = "off" /\ loop'.pc # "active"
      BY <1>1 DEF NotBegun
    <2> QED
      BY <1>3, <2>1, <2>2 DEF AgentAndEvents
  <1>5. TurnInCourse'
    BY DEF TurnInCourse, ActivePcs
  <1>6. TurnSettled'
    BY <1>1, <1>2 DEF TurnSettled, NotBegun
  <1> QED
    BY <1>4, <1>5, <1>6 DEF EventsRead

\* ... and once its handler is done and its events are copied.
LEMMA EventsEnding ==
  ASSUME EventsRead, loop.pc \in ActivePcs, loop'.pc \in {"endStop", "endPreempt", "after"},
         preemptCtrl.turnID \in Turns => turn[preemptCtrl.turnID].proxy # "run",
         UNCHANGED <<turn, captured>>, preemptCtrl'.turnID = preemptCtrl.turnID,
         LET k == preemptCtrl.turnID
         IN  \/ ~runnerBytes' /\ loop'.err = "none"
             \/ /\ turn[k].agent # "run" /\ Notable(k) \subseteq captured
                /\ "cancel" \in captured => loop'.err # "none"
  PROVE  EventsRead'
  <1>1. \A j \in Turns : Notable(j)' = Notable(j)
    BY DEF Notable
  <1>2. AgentAndEvents'
    <2>1. \A k \in Turns : turn[k].proxy # "run"
      BY DEF EventsRead, AgentAndEvents
    <2>2. loop'.pc # "active"
      OBVIOUS
    <2> QED
      BY <1>1, <2>1, <2>2 DEF EventsRead, AgentAndEvents
  <1>3. TurnInCourse'
    <2>1. preemptCtrl.turnID \in Turns /\ captured \subseteq Notable(preemptCtrl.turnID)
      BY DEF EventsRead, TurnInCourse
    <2> QED
      BY <1>1, <2>1 DEF TurnInCourse
  <1>4. TurnSettled'
    BY DEF TurnSettled, ActivePcs
  <1> QED
    BY <1>2, <1>3, <1>4 DEF EventsRead

\* The steps that only move on.
Walks ==
    /\ loop'.hand = loop.hand /\ loop'.resume = loop.resume /\ loop'.idle = loop.idle
    /\ loop'.err = loop.err
    /\ UNCHANGED <<result, store, captured, runnerBytes, turn, pusher>>
    /\ buffer'.buf = buffer.buf
    /\ preemptCtrl'.turnID = preemptCtrl.turnID /\ stopCtrl'.phase = stopCtrl.phase

LEMMA SameUnsent == ASSUME UNCHANGED pusher PROVE \A p \in Items : Unsent(p)' <=> Unsent(p)
  BY DEF Unsent

LEMMA WalksKeep ==
  ASSUME IInv, ItemsInv, Walks, RunHolds',
         loop'.pc \notin {"new", "planning", "begin", "beginStop", "disarm", "closeStop"},
         loop'.pc = "load" => loop.pc = "new",
         loop'.pc = "idleCheck" => loop.pc = "disarm",
         loop.pc \in CleanupPcs => loop'.pc \in CleanupPcs,
         "early" \notin Faults => EventsRead'
  PROVE  ItemsInv'
  <1> USE DEF Walks
  <1>1. SeqsType'
    BY DEF ItemsInv, SeqsType
  <1>2. NotLoaded'
    BY DEF ItemsInv, NotLoaded
  <1>3. TurnsAhead'
    BY DEF ItemsInv, TurnsAhead, NotStarted, NotBegun
  <1>4. Queue' = Queue /\ Eaten' = Eaten
    BY DEF Queue, Eaten
  <1>5. SeqsType
    BY DEF ItemsInv
  <1>6. ItemsApart'
    BY <1>1, <1>4, <1>5, ItemsAre, ItemsAreNext DEF ItemsInv
  <1>7. StoreDistinct'
    BY DEF ItemsInv, StoreDistinct
  <1>8. NoIdleStops => NeverIdle' /\ ItemsPlaced'
    <2>1. NoIdleStops => NeverIdle'
      BY DEF ItemsInv, NeverIdle
    <2>2. ResumeForgotten => ResumeForgotten'
      BY DEF ResumeForgotten
    <2>3. (\A i \in Elements(result.accepted) : Placed(i)) =>
              (\A i \in Elements(result.accepted) : Placed(i))'
      BY <1>1, <1>4, <1>5, ItemsAre, ItemsAreNext
    <2> QED
      BY <2>1, <2>2, <2>3 DEF ItemsInv, ItemsPlaced
  <1>9. "save" \notin Faults => Saved'
    BY DEF Saved
  <1> QED
    BY <1>1, <1>2, <1>3, <1>6, <1>7, <1>8, <1>9 DEF ItemsInv

\* run leaves its loop.
Leaves ==
    /\ loop'.pc = "cleanup" /\ loop'.hand = <<>> /\ loop'.resume = loop.resume
    /\ loop'.idle = loop.idle
    /\ UNCHANGED <<result, store, captured, runnerBytes, turn, pusher>>
    /\ preemptCtrl'.turnID = preemptCtrl.turnID /\ stopCtrl'.phase = stopCtrl.phase

LEMMA LeavesKeep ==
  ASSUME IInv, ItemsInv, Leaves,
         loop.pc \in {"load", "top", "empty", "idleCheck", "got", "planning"},
         \/ buffer'.buf = loop.hand \o buffer.buf
         \/ buffer'.buf = buffer.buf /\ loop.pc \notin {"got", "planning"}
  PROVE  ItemsInv'
  <1> USE DEF Leaves
  <1>a. SeqsType /\ RunHolds /\ ItemsApart
    BY DEF ItemsInv
  <1>b. loop.pc \notin CleanupPcs /\ loop.pc \notin ActivePcs \cup {"after"}
        /\ loop'.pc \in CleanupPcs /\ loop'.pc \notin ActivePcs \cup {"after"}
    BY DEF CleanupPcs, ActivePcs
  <1>c. Queue \in Seq(AllItems) /\ loop.hand \in Seq(AllItems) /\ buffer.buf \in Seq(AllItems)
    BY <1>a, ItemsAre DEF ItemTypes, SeqsType
  <1>1. SeqsType'
    <2>1. loop'.hand \in Seq(AllItems)
      BY EmptyFacts
    <2>2. buffer'.buf \in Seq(AllItems)
      BY <1>c DEF Queue
    <2> QED
      BY <1>a, <2>1, <2>2 DEF SeqsType
  <1>2. RunHolds'
    BY <1>a, <1>b, SameUnsent DEF RunHolds
  <1>3. NotLoaded'
    BY DEF NotLoaded
  <1>4. TurnsAhead'
    BY DEF ItemsInv, TurnsAhead, NotStarted, NotBegun
  <1>5. Eaten' = Eaten
    BY DEF Eaten
  <1>6. Queue' = buffer'.buf
    <2>1. buffer'.buf \in Seq(AllItems)
      BY <1>1 DEF SeqsType
    <2> QED
      BY <2>1, ConcatFacts DEF Queue
  <1>7. ASSUME Queue' = Queue
        PROVE  ItemsApart' /\ (NoIdleStops => NeverIdle' /\ ItemsPlaced')
    <2>1. ItemsApart'
      BY <1>1, <1>5, <1>7, <1>a, ItemsAre, ItemsAreNext
    <2>2. NoIdleStops => NeverIdle' /\ ItemsPlaced'
      <3>1. NoIdleStops => NeverIdle'
        BY DEF ItemsInv, NeverIdle
      <3>2. ~ResumeForgotten
        BY <1>b DEF ResumeForgotten
      <3>3. (\A i \in Elements(result.accepted) : Placed(i)) =>
                (\A i \in Elements(result.accepted) : Placed(i))'
        BY <1>1, <1>5, <1>7, <1>a, ItemsAre, ItemsAreNext
      <3> QED
        BY <3>1, <3>2, <3>3 DEF ItemsInv, ItemsPlaced
    <2> QED
      BY <2>1, <2>2
  <1>8. ASSUME Queue' # Queue
        PROVE  ItemsApart' /\ (NoIdleStops => NeverIdle' /\ ItemsPlaced')
    <2>1. buffer'.buf = buffer.buf /\ loop.pc \notin {"got", "planning"} /\ loop.hand # <<>>
      BY <1>6, <1>8, <1>c, ConcatFacts DEF Queue
    <2>2. ItemsApart'
      <3>1. Apart(buffer.buf, result.accepted, result.unhandled, Eaten)
        BY <1>a, <1>c, ItemsAre, DropApart DEF Queue
      <3> QED
        BY <1>1, <1>5, <1>6, <2>1, <3>1, ItemsAreNext
    <2>3. NoIdleStops => NeverIdle' /\ ItemsPlaced'
      <3>1. NoIdleStops => NeverIdle' /\ loop.pc # "idleCheck"
        BY DEF ItemsInv, NeverIdle
      <3>2. loop.pc # "idleCheck" => loop.pc = "top" /\ loop.resume = "pending"
        BY <1>a, <2>1 DEF RunHolds
      <3>3. loop.pc # "idleCheck" => ResumeForgotten'
        BY <1>a, <1>b, <3>2 DEF RunHolds, ResumeForgotten
      <3> QED
        BY <3>1, <3>3 DEF ItemsPlaced
    <2> QED
      BY <2>2, <2>3
  <1>9. StoreDistinct'
    BY DEF ItemsInv, StoreDistinct
  <1>10. "early" \notin Faults => EventsRead'
    BY <1>b, EventsOutside DEF ItemsInv
  <1>11. "save" \notin Faults => Saved'
    BY DEF Saved
  <1> QED
    BY <1>1, <1>2, <1>3, <1>4, <1>7, <1>8, <1>9, <1>10, <1>11 DEF ItemsInv

-----------------------------------------------------------------------------
(* The steps of run, one after the other *)

\* A step to next that leaves all else but flags and timers alone.
Onward(next) ==
    /\ Goto(next)
    /\ UNCHANGED <<buffer, preemptCtrl, stopCtrl, pusher, turn, captured, result, runnerBytes,
                   store>>

LEMMA OnwardWalks ==
  ASSUME IInv, NEW next, Onward(next)
  PROVE  Walks /\ loop'.pc = next
  <1>1. LoopType
    BY DEF IInv, StateType
  <1>2. /\ loop'.pc = next /\ loop'.hand = loop.hand /\ loop'.resume = loop.resume
        /\ loop'.idle = loop.idle /\ loop'.err = loop.err
    BY <1>1, GotoOnly DEF Onward
  <1> QED
    BY <1>2 DEF Onward, Walks

\* Before and after the turns.
LEMMA OutsideKeeps ==
  ASSUME IInv, ItemsInv, Walks, RunHolds',
         loop.pc \notin ActivePcs \cup {"after"},
         loop'.pc \notin ActivePcs \cup {"after"},
         loop'.pc \notin {"new", "planning", "begin", "disarm", "closeStop"},
         loop'.pc = "load" => loop.pc = "new",
         loop'.pc = "idleCheck" => loop.pc = "disarm",
         loop.pc \in CleanupPcs => loop'.pc \in CleanupPcs
  PROVE  ItemsInv'
  <1>1. "early" \notin Faults => EventsRead'
    BY EventsOutside DEF ItemsInv, Walks
  <1>2. loop'.pc # "beginStop"
    BY DEF ActivePcs
  <1> QED
    BY <1>1, <1>2, WalksKeep

LEMMA RunKeepsItems ==
  ASSUME IInv, ItemsInv, Run
  PROVE  ItemsInv'
  <1>1. Onward("load")
    BY DEF Run, Onward, pushVars, turnVars, saveVars
  <1>2. loop.pc = "new"
    BY DEF Run, IInv, Stages
  <1>3. Walks /\ loop'.pc = "load"
    BY <1>1, OnwardWalks
  <1>4. RunHolds'
    BY <1>2, <1>3, SameUnsent DEF ItemsInv, RunHolds, Walks, CleanupPcs
  <1> QED
    BY <1>2, <1>3, <1>4, OutsideKeeps DEF ActivePcs, CleanupPcs

LEMMA TopKeepsItems ==
  ASSUME IInv, ItemsInv, Top
  PROVE  ItemsInv'
  <1>0. loop.pc = "top" /\ LoopType
    BY DEF Top, At, IInv, StateType
  <1>1. CASE Committed /\ Leave("none")
    <2>1. Leaves /\ buffer'.buf = buffer.buf
      BY <1>0, <1>1, LeaveOnly DEF Top, Leaves, pushVars, turnVars, saveVars
    <2> QED
      BY <1>0, <2>1, LeavesKeep
  <1>2. CASE ~Committed /\ Goto(IF loop.resume = "pending" THEN "wait" ELSE "mode")
    <2> DEFINE next == IF loop.resume = "pending" THEN "wait" ELSE "mode"
    <2>1. Onward(next)
      BY <1>2 DEF Top, Onward, pushVars, turnVars, saveVars
    <2>2. Walks /\ loop'.pc = next
      BY <2>1, OnwardWalks
    <2>3. RunHolds'
      BY <1>0, <2>2, SameUnsent DEF ItemsInv, RunHolds, Walks, CleanupPcs
    <2> QED
      BY <1>0, <2>2, <2>3, OutsideKeeps DEF ActivePcs, CleanupPcs
  <1> QED
    BY <1>1, <1>2 DEF Top

LEMMA NothingReceivedKeepsItems ==
  ASSUME IInv, ItemsInv, NothingReceived
  PROVE  ItemsInv'
  <1>0. loop.pc = "empty" /\ LoopType
    BY DEF NothingReceived, At, IInv, StateType
  <1>1. CASE Goto("top")
    <2>1. Onward("top")
      BY <1>1 DEF NothingReceived, Onward, pushVars, turnVars, saveVars
    <2>2. Walks /\ loop'.pc = "top"
      BY <2>1, OnwardWalks
    <2>3. RunHolds'
      BY <1>0, <2>2, SameUnsent DEF ItemsInv, RunHolds, Walks, CleanupPcs
    <2> QED
      BY <1>0, <2>2, <2>3, OutsideKeeps DEF ActivePcs, CleanupPcs
  <1>2. CASE Leave(CtxErr)
    <2>1. Leaves /\ buffer'.buf = buffer.buf
      BY <1>0, <1>2, LeaveOnly DEF NothingReceived, Leaves, pushVars, turnVars, saveVars
    <2> QED
      BY <1>0, <2>1, LeavesKeep
  <1> QED
    BY <1>1, <1>2 DEF NothingReceived

LEMMA DisarmKeepsItems ==
  ASSUME IInv, ItemsInv, DisarmIdleTimer
  PROVE  ItemsInv'
  <1>0. loop.pc = "disarm"
    BY DEF DisarmIdleTimer, At
  <1>1. Onward("idleCheck")
    BY DEF DisarmIdleTimer, Onward, pushVars, turnVars, saveVars
  <1>2. Walks /\ loop'.pc = "idleCheck"
    BY <1>1, OnwardWalks
  <1>3. RunHolds'
    BY <1>0, <1>2, SameUnsent DEF ItemsInv, RunHolds, Walks, CleanupPcs
  <1> QED
    BY <1>0, <1>2, <1>3, OutsideKeeps DEF ActivePcs, CleanupPcs

LEMMA IdleCheckKeepsItems ==
  ASSUME IInv, ItemsInv, IdleCheck
  PROVE  ItemsInv'
  <1>0. loop.pc = "idleCheck" /\ LoopType
    BY DEF IdleCheck, At, IInv, StateType
  <1>1. ASSUME NEW err, Leave(err) PROVE ItemsInv'
    <2>1. Leaves /\ buffer'.buf = buffer.buf
      BY <1>0, <1>1, LeaveOnly DEF IdleCheck, Leaves, pushVars, turnVars, saveVars
    <2> QED
      BY <1>0, <2>1, LeavesKeep
  <1>2. ASSUME NEW next \in {"top", "got"}, Goto(next), next = "top" => loop.hand = <<>>
        PROVE  ItemsInv'
    <2>1. Onward(next)
      BY <1>2 DEF IdleCheck, Onward, pushVars, turnVars, saveVars
    <2>2. Walks /\ loop'.pc = next
      BY <2>1, OnwardWalks
    <2>3. RunHolds'
      BY <1>0, <1>2, <2>2, SameUnsent DEF ItemsInv, RunHolds, Walks, CleanupPcs
    <2> QED
      BY <1>0, <2>2, <2>3, OutsideKeeps DEF ActivePcs, CleanupPcs
  <1>3. \/ Leave("ctx") \/ Leave("none") \/ Leave(CtxErr)
        \/ Goto("got") \/ (Goto("top") /\ loop.hand = <<>>)
    BY DEF IdleCheck
  <1> QED
    BY <1>1, <1>2, <1>3

LEMMA ReceivedKeepsItems ==
  ASSUME IInv, ItemsInv, Received
  PROVE  ItemsInv'
  <1>0. loop.pc = "got" /\ LoopType /\ BufferType
    BY DEF Received, At, IInv, StateType
  <1>1. ASSUME NEW err, Leave(err), PushFront(loop.hand) PROVE ItemsInv'
    <2>1. Leaves
      BY <1>0, <1>1, LeaveOnly DEF Received, Leaves, pushVars, turnVars, saveVars
    <2>2. buffer'.buf = loop.hand \o buffer.buf
      BY <1>0, <1>1 DEF PushFront, BufferType
    <2> QED
      BY <1>0, <2>1, <2>2, LeavesKeep
  <1>2. CASE Goto("wait") /\ UNCHANGED buffer
    <2>1. Onward("wait")
      BY <1>2 DEF Received, Onward, pushVars, turnVars, saveVars
    <2>2. Walks /\ loop'.pc = "wait"
      BY <2>1, OnwardWalks
    <2>3. RunHolds'
      BY <1>0, <2>2, SameUnsent DEF ItemsInv, RunHolds, Walks, CleanupPcs
    <2> QED
      BY <1>0, <2>2, <2>3, OutsideKeeps DEF ActivePcs, CleanupPcs
  <1> QED
    BY <1>1, <1>2 DEF Received

LEMMA WaitKeepsItems ==
  ASSUME IInv, ItemsInv, WaitForPushes
  PROVE  ItemsInv'
  <1>0. loop.pc = "wait"
    BY DEF WaitForPushes, At
  <1>1. Onward("take")
    BY DEF WaitForPushes, Onward, pushVars, turnVars, saveVars
  <1>2. Walks /\ loop'.pc = "take"
    BY <1>1, OnwardWalks
  <1>3. RunHolds'
    BY <1>0, <1>2, SameUnsent DEF ItemsInv, RunHolds, Walks, CleanupPcs
  <1> QED
    BY <1>0, <1>2, <1>3, OutsideKeeps DEF ActivePcs, CleanupPcs

\* A failed callback, or a stop, hands the items back.
LEMMA AbortKeepsItems ==
  ASSUME IInv, ItemsInv, AbortPlanningTurn
  PROVE  ItemsInv'
  <1>0. loop.pc = "planning" /\ LoopType /\ BufferType /\ preemptCtrl \in PreemptRec
    BY PreemptType DEF AbortPlanningTurn, At, IInv, StateType
  <1>1. PICK err : Leave(err)
    BY DEF AbortPlanningTurn
  <1>2. buffer'.buf = loop.hand \o buffer.buf
    BY <1>0 DEF AbortPlanningTurn, PushFront, BufferType
  <1>3. preemptCtrl'.turnID = preemptCtrl.turnID
    BY <1>0 DEF AbortPlanningTurn, PreemptRec
  <1>4. UNCHANGED <<stopCtrl, pusher, turn, captured, result, runnerBytes, store>>
    BY DEF AbortPlanningTurn, turnVars, saveVars
  <1>5. Leaves
    BY <1>0, <1>1, <1>3, <1>4, LeaveOnly DEF Leaves
  <1> QED
    BY <1>0, <1>2, <1>5, LeavesKeep

\* The items stay where they are; what else changes is shown by the caller.
LEMMA PlacesKeep ==
  ASSUME IInv, ItemsInv, SeqsType', RunHolds', NotLoaded', TurnsAhead', StoreDistinct',
         NoIdleStops => NeverIdle', "early" \notin Faults => EventsRead',
         "save" \notin Faults => Saved',
         Queue' = Queue, \A k \in Turns : turn'[k].consumed = turn[k].consumed,
         result'.accepted = result.accepted, result'.unhandled = result.unhandled,
         ResumeForgotten => ResumeForgotten'
  PROVE  ItemsInv'
  <1>0. SeqsType /\ ItemsApart /\ (NoIdleStops => ItemsPlaced)
    BY DEF ItemsInv
  <1>1. Eaten' = Eaten
    BY SameEaten
  <1>2. ItemsApart'
    BY <1>0, <1>1, ItemsAre, ItemsAreNext
  <1>3. (\A i \in Elements(result.accepted) : Placed(i)) =>
            (\A i \in Elements(result.accepted) : Placed(i))'
    BY <1>0, <1>1, ItemsAre, ItemsAreNext
  <1>4. NoIdleStops => ItemsPlaced'
    BY <1>0, <1>3 DEF ItemsPlaced
  <1> QED
    BY <1>2, <1>4 DEF ItemsInv

\* A step of the turn at hand, or to it.
LEMMA CourseKeeps ==
  ASSUME IInv, ItemsInv, RunHolds', TurnsAhead', "early" \notin Faults => EventsRead',
         loop.pc \notin CleanupPcs,
         loop'.pc \notin {"new", "load", "disarm", "idleCheck", "closeStop"},
         loop'.hand = loop.hand, loop'.idle = loop.idle, buffer'.buf = buffer.buf,
         UNCHANGED <<result, store>>, SameMeals, stopCtrl'.phase = stopCtrl.phase
  PROVE  ItemsInv'
  <1> USE DEF SameMeals
  <1>1. SeqsType'
    BY DEF ItemsInv, SeqsType
  <1>2. NotLoaded' /\ Saved'
    BY DEF NotLoaded, Saved
  <1>3. StoreDistinct'
    BY DEF ItemsInv, StoreDistinct
  <1>4. NoIdleStops => NeverIdle'
    BY DEF ItemsInv, NeverIdle
  <1>5. Queue' = Queue
    BY DEF Queue
  <1>6. ~ResumeForgotten
    BY DEF ResumeForgotten
  <1> QED
    BY <1>1, <1>2, <1>3, <1>4, <1>5, <1>6, PlacesKeep

LEMMA WalksInTurn ==
  ASSUME IInv, ItemsInv, Walks, loop.pc \in ActivePcs,
         loop'.pc \in {"endStop", "endPreempt", "after"},
         "early" \notin Faults => EventsRead'
  PROVE  ItemsInv'
  <1>1. RunHolds'
    BY SameUnsent, StageAt DEF ItemsInv, RunHolds, Walks, CleanupPcs, ActivePcs
  <1> QED
    BY <1>1, WalksKeep DEF CleanupPcs, ActivePcs

LEMMA FinishTurnKeepsItems ==
  ASSUME IInv, ItemsInv, FinishTurn
  PROVE  ItemsInv'
  <1> DEFINE k == preemptCtrl.turnID
  <1>0. /\ loop.pc = "active" /\ LoopType /\ TurnType
        /\ k \in Turns /\ turn[k].handler = "done" /\ k # 0
        /\ RunHolds /\ TurnsAhead /\ loop.err = "none"
    BY StageAt, TurnNumbers
       DEF FinishTurn, At, IInv, StateType, ActivePcs, ItemsInv, RunHolds, CleanupPcs
  <1>1. "early" \notin Faults =>
            /\ EventsRead /\ turn[k].proxy = "over" /\ turn[k].agent = "over"
            /\ Notable(k) \subseteq captured /\ ~runnerBytes
    <2> SUFFICES ASSUME "early" \notin Faults
                 PROVE  /\ EventsRead /\ turn[k].proxy = "over" /\ turn[k].agent = "over"
                        /\ Notable(k) \subseteq captured /\ ~runnerBytes
      OBVIOUS
    <2>1. AgentAndEvents /\ TurnInCourse /\ EventsRead
      BY DEF ItemsInv, EventsRead
    <2>2. turn[k].proxy = "over" /\ ~turn[k].iterClosed
      BY <1>0, <2>1 DEF AgentAndEvents
    <2>3. turn[k].agent = "over" /\ Notable(k) \subseteq captured
      BY <1>0, <2>1, <2>2 DEF AgentAndEvents, ActivePcs
    <2>4. ~runnerBytes
      BY <1>0, <2>1 DEF TurnInCourse
    <2> QED
      BY <2>1, <2>2, <2>3, <2>4
  <1>2. CASE Goto("endStop") /\ UNCHANGED runnerBytes
    <2>1. Onward("endStop")
      BY <1>2 DEF FinishTurn, Onward, pushVars, turnVars
    <2>2. Walks /\ loop'.pc = "endStop"
      BY <2>1, OnwardWalks
    <2>3. "early" \notin Faults => EventsRead'
      BY <1>0, <1>1, <2>2, EventsEnding DEF Walks, ActivePcs
    <2> QED
      BY <1>0, <2>2, <2>3, WalksInTurn DEF ActivePcs
  <1>3. CASE loop' = [loop EXCEPT !.pc = "endStop",
                    !.err = CASE turn[k].err # "none"        -> turn[k].err
                              [] turn[k].err = "none" /\ "cancel" \in captured -> "cancel"
                              [] OTHER                 -> "none"]
    <2>1. /\ loop'.pc = "endStop" /\ loop'.hand = loop.hand /\ loop'.resume = loop.resume
          /\ loop'.idle = loop.idle
          /\ "cancel" \in captured => loop'.err # "none"
      BY <1>0, <1>3 DEF LoopType
    <2>2. UNCHANGED <<buffer, preemptCtrl, stopCtrl, pusher, turn, captured, result, store>>
      BY DEF FinishTurn, pushVars, turnVars
    <2>3. "early" \notin Faults => EventsRead'
      BY <1>0, <1>1, <2>1, <2>2, EventsEnding DEF ActivePcs
    <2>4. RunHolds'
      BY <1>0, <2>1, <2>2, SameUnsent DEF RunHolds, CleanupPcs
    <2>5. TurnsAhead'
      BY <1>0, <2>1, <2>2 DEF TurnsAhead, NotStarted, NotBegun
    <2>6. SameMeals
      BY <2>2 DEF SameMeals
    <2> QED
      BY <1>0, <2>1, <2>2, <2>3, <2>4, <2>5, <2>6, CourseKeeps DEF CleanupPcs
  <1> QED
    BY <1>2, <1>3 DEF FinishTurn

LEMMA CloseIteratorKeepsItems ==
  ASSUME IInv, ItemsInv, CloseIterator
  PROVE  ItemsInv'
  <1> DEFINE k == preemptCtrl.turnID
  <1>0. /\ loop.pc = "active" /\ LoopType /\ TurnType
        /\ k \in Turns /\ RunHolds /\ TurnsAhead
    BY StageAt DEF CloseIterator, At, IInv, StateType, ActivePcs, ItemsInv
  <1>1. /\ loop'.pc = "preempting" /\ loop'.hand = loop.hand /\ loop'.resume = loop.resume
        /\ loop'.idle = loop.idle /\ loop'.err = loop.err
    BY <1>0, GotoOnly DEF CloseIterator
  <1>2. UNCHANGED <<buffer, preemptCtrl, stopCtrl, pusher, captured, result, runnerBytes, store>>
    BY DEF CloseIterator, pushVars, saveVars
  <1>3. PICK closed \in BOOLEAN : turn' = [turn EXCEPT ![k].iterClosed = closed]
    BY DEF CloseIterator
  <1>4. /\ \A j \in Turns \ {k} : turn'[j] = turn[j]
        /\ turn'[k].consumed = turn[k].consumed
        /\ turn'[k].agent = turn[k].agent /\ turn'[k].event = turn[k].event
        /\ turn'[k].proxy = turn[k].proxy /\ turn'[k].handler = turn[k].handler
    <2>1. turn[k] \in TurnRec(turn[k].consumed)
      BY <1>0, TurnIs
    <2> QED
      BY <1>0, <1>3, <2>1 DEF TurnType, TurnRec
  <1>5. SameMeals
    BY <1>2, <1>4 DEF SameMeals
  <1>6. RunHolds'
    BY <1>0, <1>1, <1>2, SameUnsent DEF RunHolds, CleanupPcs
  <1>7. TurnsAhead'
    <2>1. k \in Nat
      BY <1>0, TurnNumbers
    <2>2. \A j \in Turns : NotStarted(j)' => NotStarted(j) /\ j # k
      BY <1>0, <1>1, <1>2, <2>1, TurnNumbers DEF NotStarted
    <2>3. \A j \in Turns : j > k => NotStarted(j)
      BY DEF NotStarted
    <2> QED
      BY <1>0, <1>1, <1>2, <1>4, <2>2, <2>3 DEF TurnsAhead
  <1>8. "early" \notin Faults => EventsRead'
    <2> SUFFICES ASSUME "early" \notin Faults PROVE EventsRead'
      OBVIOUS
    <2>1. AgentAndEvents /\ TurnInCourse
      BY DEF ItemsInv, EventsRead
    <2>2. \A j \in Turns : Notable(j)' = Notable(j)
      BY <1>4 DEF Notable
    <2>3. AgentAndEvents'
      <3>1. ASSUME NEW j \in Turns
            PROVE  /\ turn'[j].agent # "over" => turn'[j].event = "none"
                   /\ turn'[j].handler = "done" => turn'[j].proxy = "over"
                   /\ turn'[j].proxy = "run" => j = k
        BY <1>4, <2>1 DEF AgentAndEvents
      <3>2. ~turn[k].iterClosed
        BY <1>0, <2>1 DEF AgentAndEvents
      <3>3. turn'[k].proxy = "over" =>
                turn'[k].agent = "over" /\ Notable(k)' \subseteq captured'
        BY <1>0, <1>2, <1>4, <2>1, <2>2, <3>2 DEF AgentAndEvents, ActivePcs
      <3> QED
        BY <1>0, <1>1, <1>2, <3>1, <3>3 DEF AgentAndEvents
    <2>4. TurnInCourse'
      BY <1>0, <1>1, <1>2, <2>1, <2>2 DEF TurnInCourse, ActivePcs
    <2>5. TurnSettled'
      BY <1>1 DEF TurnSettled, ActivePcs
    <2> QED
      BY <2>3, <2>4, <2>5 DEF EventsRead
  <1> QED
    BY <1>0, <1>1, <1>2, <1>5, <1>6, <1>7, <1>8, CourseKeeps DEF CleanupPcs

LEMMA FinishPreemptedKeepsItems ==
  ASSUME IInv, ItemsInv, FinishPreempted
  PROVE  ItemsInv'
  <1>0. /\ loop.pc = "preempting" /\ turn[preemptCtrl.turnID].proxy = "over"
        /\ loop.err = "none"
    BY DEF FinishPreempted, At, ItemsInv, RunHolds, CleanupPcs
  <1>1. Onward("endStop")
    BY DEF FinishPreempted, Onward, pushVars, turnVars, saveVars
  <1>2. Walks /\ loop'.pc = "endStop"
    BY <1>1, OnwardWalks
  <1>3. ASSUME "early" \notin Faults PROVE EventsRead'
    <2>1. EventsRead /\ ~runnerBytes
      BY <1>0, <1>3 DEF ItemsInv, EventsRead, TurnInCourse
    <2> QED
      BY <1>0, <1>2, <2>1, EventsEnding DEF Walks, ActivePcs
  <1> QED
    BY <1>0, <1>2, <1>3, WalksInTurn DEF ActivePcs

LEMMA EndTurnKeepsItems ==
  ASSUME IInv, ItemsInv, EndStopTurn \/ EndActiveTurn
  PROVE  ItemsInv'
  <1>0. /\ LoopType /\ preemptCtrl \in PreemptRec
        /\ stopCtrl' = [stopCtrl EXCEPT !.hasTarget = FALSE, !.pending = FALSE]
           => stopCtrl'.phase = stopCtrl.phase
    BY PreemptType DEF IInv, StateType, CtrlType
  <1>1. /\ \/ loop.pc = "endStop" /\ Goto("endPreempt")
           \/ loop.pc = "endPreempt" /\ Goto("after")
        /\ preemptCtrl'.turnID = preemptCtrl.turnID /\ stopCtrl'.phase = stopCtrl.phase
        /\ UNCHANGED <<buffer, pusher, turn, captured, result, runnerBytes, store>>
    <2>1. CASE EndStopTurn
      BY <1>0, <2>1 DEF EndStopTurn, At, pushVars, turnVars, saveVars
    <2>2. CASE EndActiveTurn
      <3>1. loop.pc = "endPreempt" /\ preemptCtrl.phase = "active"
        BY <2>2, StageAt DEF EndActiveTurn, At, ActivePcs
      <3> QED
        BY <1>0, <2>2, <3>1 DEF EndActiveTurn, PreemptRec, turnVars, saveVars
    <2> QED
      BY <2>1, <2>2
  <1>2. /\ loop.pc \in {"endStop", "endPreempt"} /\ loop'.pc \in {"endPreempt", "after"}
        /\ loop'.hand = loop.hand /\ loop'.resume = loop.resume
        /\ loop'.idle = loop.idle /\ loop'.err = loop.err
    BY <1>0, <1>1, GotoOnly
  <1>3. Walks
    BY <1>1, <1>2 DEF Walks
  <1>4. ASSUME "early" \notin Faults PROVE EventsRead'
    <2>1. EventsRead /\ TurnInCourse /\ AgentAndEvents
      BY <1>4 DEF ItemsInv, EventsRead
    <2>2. preemptCtrl.turnID \in Turns => turn[preemptCtrl.turnID].proxy # "run"
      BY <1>2, <2>1 DEF AgentAndEvents
    <2>3. LET k == preemptCtrl.turnID
          IN  \/ ~runnerBytes' /\ loop'.err = "none"
              \/ /\ turn[k].agent # "run" /\ Notable(k) \subseteq captured
                 /\ "cancel" \in captured => loop'.err # "none"
      BY <1>1, <1>2, <2>1 DEF TurnInCourse
    <2> QED
      BY <1>1, <1>2, <2>1, <2>2, <2>3, EventsEnding DEF ActivePcs
  <1> QED
    BY <1>2, <1>3, <1>4, WalksInTurn DEF ActivePcs

\* Back in run: what an interrupted or cancelled turn consumed goes into the result.
LEMMA AfterTurnKeepsItems ==
  ASSUME IInv, ItemsInv, AfterTurn
  PROVE  ItemsInv'
  <1> DEFINE k == preemptCtrl.turnID
  <1>0. /\ loop.pc = "after" /\ LoopType /\ TurnType
        /\ RunHolds /\ TurnsAhead /\ SeqsType
        /\ result.interrupted = <<>> /\ loop.hand = <<>> /\ loop.resume # "pending"
    BY DEF AfterTurn, At, IInv, StateType, ItemsInv, RunHolds, CleanupPcs
  <1>1. UNCHANGED <<buffer, preemptCtrl, stopCtrl, pusher, turn, captured, runnerBytes, store>>
    BY DEF AfterTurn, pushVars, turnVars, saveVars
  <1>2. SameMeals
    BY <1>1 DEF SameMeals
  <1>4. ASSUME "early" \notin Faults
        PROVE  /\ EventsRead /\ k \in Turns /\ captured \subseteq Notable(k)
               /\ \A j \in Turns : turn[j].proxy # "run"
               /\ \/ ~runnerBytes /\ loop.err = "none"
                  \/ /\ turn[k].agent # "run" /\ Notable(k) \subseteq captured
                     /\ "cancel" \in captured => loop.err # "none"
    BY <1>0, <1>4 DEF ItemsInv, EventsRead, TurnInCourse, AgentAndEvents
  <1>5. \A j \in Turns : Notable(j)' = Notable(j)
    BY <1>1 DEF Notable
  <1>6. ASSUME "early" \notin Faults, loop'.pc \in {"top", "cleanup"}, TurnSettled'
        PROVE  EventsRead'
    <2>1. AgentAndEvents'
      BY <1>1, <1>4, <1>5, <1>6 DEF EventsRead, AgentAndEvents, ActivePcs
    <2>2. TurnInCourse'
      BY <1>6 DEF TurnInCourse, ActivePcs
    <2> QED
      BY <1>6, <2>1, <2>2 DEF EventsRead
  <1>7. CASE /\ loop.err = "none" /\ "contexts" \notin captured
             /\ loop' = [loop EXCEPT !.pc = "top", !.resume = "none"]
             /\ UNCHANGED result
    <2>1. /\ loop'.pc = "top" /\ loop'.hand = loop.hand /\ loop'.resume = "none"
          /\ loop'.idle = loop.idle /\ loop'.err = "none"
      BY <1>0, <1>7 DEF LoopType
    <2>2. RunHolds'
      BY <1>0, <1>1, <1>7, <2>1, SameUnsent DEF RunHolds, CleanupPcs
    <2>3. TurnsAhead'
      BY <1>0, <1>1, <2>1 DEF TurnsAhead, NotStarted, NotBegun
    <2>4. ASSUME "early" \notin Faults PROVE TurnSettled'
      <3>1. \/ ~runnerBytes
            \/ turn[k].agent # "run" /\ Notable(k) = {}
        <4>1. CASE ~runnerBytes
          BY <4>1
        <4>2. CASE /\ turn[k].agent # "run" /\ Notable(k) \subseteq captured
                   /\ "cancel" \in captured => loop.err # "none"
          BY <1>7, <4>2 DEF Notable
        <4> QED
          BY <1>4, <2>4, <4>1, <4>2
      <3> QED
        BY <1>0, <1>1, <1>4, <1>5, <1>7, <2>4, <3>1 DEF TurnSettled
    <2>5. "early" \notin Faults => EventsRead'
      BY <1>6, <2>1, <2>4
    <2> QED
      BY <1>0, <1>1, <1>2, <1>7, <2>1, <2>2, <2>3, <2>5, CourseKeeps DEF CleanupPcs
  <1>8. CASE /\ loop.err # "none" \/ "contexts" \in captured
             /\ loop' = [loop EXCEPT !.pc = "cleanup", !.resume = "none",
                            !.err = IF @ = "none" THEN "interrupt" ELSE @]
             /\ result' = [result EXCEPT !.interrupted = Interrupted(turn[k].consumed)]
    <2>1. /\ loop'.pc = "cleanup" /\ loop'.hand = loop.hand /\ loop'.resume = "none"
          /\ loop'.idle = loop.idle
      BY <1>0, <1>8 DEF LoopType
    <2>2. /\ result'.accepted = result.accepted /\ result'.unhandled = result.unhandled
          /\ result'.interrupted = IF captured # {} THEN turn[k].consumed ELSE <<>>
      BY <1>0, <1>8 DEF SeqsType, Interrupted
    <2>3. k \in Turns
      BY <1>0 DEF RunHolds
    <2>4. SeqsType'
      <3>1. result'.interrupted \in Seq(AllItems)
        BY <1>0, <2>2, <2>3, EmptyFacts DEF SeqsType
      <3>2. result' \in [accepted : Seq(AllItems), unhandled : Seq(AllItems),
                         interrupted : Seq(AllItems)]
        BY <1>0, <1>8, <2>2, <3>1 DEF SeqsType
      <3> QED
        BY <1>0, <1>1, <2>1, <3>2 DEF SeqsType
    <2>5. RunHolds'
      BY <1>0, <1>1, <2>1, <2>2, SameUnsent DEF RunHolds, CleanupPcs
    <2>6. TurnsAhead'
      BY <1>0, <1>1, <2>1 DEF TurnsAhead, NotStarted, NotBegun
    <2>7. NotLoaded' /\ Saved' /\ (NoIdleStops => NeverIdle')
      BY <1>1, <2>1 DEF NotLoaded, Saved, NeverIdle, ItemsInv
    <2>8. StoreDistinct'
      BY <1>1, <2>2, <2>3 DEF ItemsInv, StoreDistinct
    <2>9. ASSUME "early" \notin Faults PROVE TurnSettled'
      <3>1. CASE captured # {}
        <4>1. turn[k].agent = "over"
          BY <1>4, <2>9, <3>1 DEF Notable, EventsRead, AgentAndEvents
        <4> QED
          BY <1>1, <2>2, <3>1, <4>1 DEF TurnSettled
      <3>2. CASE captured = {}
        <4>1. turn[k].agent # "run" /\ Notable(k) = {}
          BY <1>4, <1>8, <2>9, <3>2
        <4> QED
          BY <1>1, <1>5, <2>3, <4>1 DEF TurnSettled
      <3> QED
        BY <3>1, <3>2
    <2>10. "early" \notin Faults => EventsRead'
      BY <1>6, <2>1, <2>9
    <2>11. Queue' = Queue /\ ~ResumeForgotten
      BY <1>0, <1>1, <2>1 DEF Queue, ResumeForgotten, CleanupPcs
    <2> QED
      BY <1>1, <2>2, <2>4, <2>5, <2>6, <2>7, <2>8, <2>10, <2>11, PlacesKeep
  <1> QED
    BY <1>7, <1>8 DEF AfterTurn

\* Cleanup, but for what it takes and saves.
LEMMA CleanupKeepsItems ==
  ASSUME IInv, ItemsInv, StopPushes \/ CloseStopCtrl \/ ClosePreemptCtrl \/ Finish
  PROVE  ItemsInv'
  <1>0. LoopType /\ BufferType /\ preemptCtrl \in PreemptRec /\ RunHolds
    BY PreemptType DEF IInv, StateType, ItemsInv
  <1>1. /\ \/ loop.pc = "cleanup" /\ Goto("takeAll")
           \/ loop.pc = "closeStop" /\ Goto("closePreempt")
           \/ loop.pc = "closePreempt" /\ Goto("closeBuffer")
           \/ loop.pc = "closeBuffer" /\ Goto("done")
        /\ preemptCtrl'.turnID = preemptCtrl.turnID /\ stopCtrl'.phase = stopCtrl.phase
        /\ buffer'.buf = buffer.buf
        /\ UNCHANGED <<pusher, turn, captured, result, runnerBytes, store>>
    <2>1. CASE StopPushes
      BY <2>1 DEF StopPushes, At, pushVars, turnVars, saveVars
    <2>2. CASE CloseStopCtrl
      <3>1. stopCtrl' = [stopCtrl EXCEPT !.closed = TRUE, !.hasTarget = FALSE,
                                         !.pending = FALSE, !.notify = FALSE]
        BY <2>2 DEF CloseStopCtrl
      <3>2. stopCtrl'.phase = stopCtrl.phase
        BY <3>1 DEF IInv, StateType, CtrlType
      <3> QED
        BY <2>2, <3>2 DEF CloseStopCtrl, At, pushVars, turnVars, saveVars
    <2>3. CASE ClosePreemptCtrl
      <3>1. preemptCtrl'.turnID = preemptCtrl.turnID
        BY <1>0, <2>3 DEF ClosePreemptCtrl, PreemptRec
      <3> QED
        BY <2>3, <3>1 DEF ClosePreemptCtrl, At, turnVars, saveVars
    <2>4. CASE Finish
      <3>1. buffer'.buf = buffer.buf
        BY <1>0, <2>4 DEF Finish, CloseBuffer, BufferType
      <3> QED
        BY <2>4, <3>1 DEF Finish, At, pushVars, turnVars, saveVars
    <2> QED
      BY <2>1, <2>2, <2>3, <2>4
  <1>2. /\ \/ loop.pc = "cleanup" /\ loop'.pc = "takeAll"
           \/ loop.pc = "closeStop" /\ loop'.pc = "closePreempt"
           \/ loop.pc = "closePreempt" /\ loop'.pc = "closeBuffer"
           \/ loop.pc = "closeBuffer" /\ loop'.pc = "done"
        /\ loop'.hand = loop.hand /\ loop'.resume = loop.resume
        /\ loop'.idle = loop.idle /\ loop'.err = loop.err
    BY <1>0, <1>1, GotoOnly
  <1>3. Walks
    BY <1>1, <1>2 DEF Walks
  <1>4. loop.pc \in CleanupPcs /\ loop'.pc \in CleanupPcs
    BY <1>2 DEF CleanupPcs
  <1>5. RunHolds'
    BY <1>0, <1>1, <1>2, <1>4, SameUnsent DEF RunHolds
  <1> QED
    BY <1>2, <1>3, <1>4, <1>5, OutsideKeeps DEF ActivePcs

\* The late items: run holds nothing any more.
LEMMA TakeUnhandledKeepsItems ==
  ASSUME IInv, ItemsInv, TakeUnhandled
  PROVE  ItemsInv'
  <1>0. /\ loop.pc = "takeAll" /\ LoopType /\ BufferType /\ RunHolds /\ SeqsType /\ TurnsAhead
        /\ ItemsApart /\ (NoIdleStops => ItemsPlaced)
        /\ loop.hand = <<>> /\ result.unhandled = <<>>
    BY DEF TakeUnhandled, At, IInv, StateType, ItemsInv, RunHolds, CleanupPcs
  <1>1. UNCHANGED <<preemptCtrl, stopCtrl, pusher, turn, captured, runnerBytes, store>>
    BY DEF TakeUnhandled, pushVars, turnVars, saveVars
  <1>2. /\ loop'.pc = "save" /\ loop'.hand = loop.hand /\ loop'.resume = loop.resume
        /\ loop'.idle = loop.idle /\ loop'.err = loop.err
    BY <1>0, GotoOnly DEF TakeUnhandled
  <1>3. /\ buffer'.buf = <<>>
        /\ result'.accepted = result.accepted /\ result'.unhandled = buffer.buf
        /\ result'.interrupted = result.interrupted
    BY <1>0 DEF TakeUnhandled, TakeAll, BufferType, SeqsType
  <1>4. loop.pc \in CleanupPcs /\ loop'.pc \in CleanupPcs
        /\ loop.pc \notin ActivePcs \cup {"after"} /\ loop'.pc \notin ActivePcs \cup {"after"}
    BY <1>0, <1>2 DEF CleanupPcs, ActivePcs
  <1>5. SeqsType'
    <2>1. result' \in [accepted : Seq(AllItems), unhandled : Seq(AllItems),
                       interrupted : Seq(AllItems)]
      BY <1>0 DEF TakeUnhandled, SeqsType
    <2> QED
      BY <1>0, <1>1, <1>2, <1>3, <2>1, EmptyFacts DEF SeqsType
  <1>6. Queue = buffer.buf /\ Queue' = <<>> /\ Eaten' = Eaten
    BY <1>0, <1>1, <1>2, <1>3, EmptyFacts, ConcatFacts DEF Queue, Eaten, SeqsType
  <1>7. /\ ItemsApart'
        /\ (\A i \in Elements(result.accepted) : Placed(i)) =>
               (\A i \in Elements(result.accepted) : Placed(i))'
    BY <1>0, <1>3, <1>5, <1>6, ItemsAre, ItemsAreNext, LateApart
  <1>8. RunHolds'
    BY <1>0, <1>1, <1>2, <1>3, SameUnsent DEF RunHolds, CleanupPcs
  <1>9. TurnsAhead'
    BY <1>0, <1>1, <1>2 DEF TurnsAhead, NotStarted, NotBegun
  <1>10. NotLoaded' /\ Saved' /\ (NoIdleStops => NeverIdle')
    BY <1>1, <1>2 DEF NotLoaded, Saved, NeverIdle, ItemsInv
  <1>11. StoreDistinct'
    BY <1>1, <1>3 DEF ItemsInv, StoreDistinct
  <1>12. "early" \notin Faults => EventsRead'
    BY <1>1, <1>3, <1>4, EventsOutside DEF ItemsInv
  <1>13. ResumeForgotten => ResumeForgotten'
    BY <1>1, <1>3, <1>4 DEF ResumeForgotten
  <1>14. NoIdleStops => ItemsPlaced'
    BY <1>0, <1>7, <1>13 DEF ItemsPlaced
  <1> QED
    BY <1>5, <1>7, <1>8, <1>9, <1>10, <1>11, <1>12, <1>14 DEF ItemsInv

LEMMA DistinctConcat ==
  ASSUME NEW S, NEW s \in Seq(S), NEW t \in Seq(S), Distinct(s), Distinct(t),
         Elements(s) \cap Elements(t) = {}
  PROVE  Distinct(s \o t)
  <1>1. Follows(s \o t, s \o t)
    BY PrefixedFollows, DistinctFollows
  <1> QED
    BY <1>1, ConcatFacts, FollowsDistinct

\* The checkpoint names an interrupted item, or one that is left, once.
LEMMA SaveKeepsItems ==
  ASSUME IInv, ItemsInv, SaveCheckpoint
  PROVE  ItemsInv'
  <1>0. /\ loop.pc = "save" /\ LoopType /\ BufferType /\ RunHolds /\ SeqsType /\ TurnsAhead
        /\ ItemsApart /\ StoreDistinct
    BY DEF SaveCheckpoint, At, IInv, StateType, ItemsInv
  <1>1. UNCHANGED <<buffer, preemptCtrl, stopCtrl, pusher, turn, captured, result, runnerBytes>>
    BY DEF SaveCheckpoint, pushVars, turnVars
  <1>2. /\ loop'.pc = "closeStop" /\ loop'.hand = loop.hand /\ loop'.resume = loop.resume
        /\ loop'.idle = loop.idle /\ loop'.err = loop.err
    BY <1>0, GotoOnly DEF SaveCheckpoint
  <1>3. \/ store' = store /\ ("save" \notin Faults => store.state = "none")
        \/ \E st \in {"runner", "bare"} :
              store' = [state |-> st, canceled |-> result.interrupted,
                        unhandled |-> result.unhandled]
        \/ store' = [state |-> "empty", canceled |-> <<>>, unhandled |-> <<>>]
    BY DEF SaveCheckpoint
  <1>4. loop.pc \in CleanupPcs /\ loop'.pc \in CleanupPcs
        /\ loop.pc \notin ActivePcs \cup {"after"} /\ loop'.pc \notin ActivePcs \cup {"after"}
    BY <1>0, <1>2 DEF CleanupPcs, ActivePcs
  <1>5. SeqsType'
    <2>1. /\ result.interrupted \in Seq(AllItems) /\ result.unhandled \in Seq(AllItems)
          /\ <<>> \in Seq(AllItems)
      BY <1>0, EmptyFacts DEF SeqsType
    <2>2. store' \in [state : AllStores, canceled : Seq(AllItems), unhandled : Seq(AllItems)]
      <3>1. CASE store' = store
        BY <1>0, <3>1 DEF SeqsType
      <3>2. ASSUME NEW st \in {"runner", "bare"},
                   store' = [state |-> st, canceled |-> result.interrupted,
                             unhandled |-> result.unhandled]
            PROVE  store' \in [state : AllStores, canceled : Seq(AllItems),
                               unhandled : Seq(AllItems)]
        BY <2>1, <3>2 DEF AllStores
      <3>3. CASE store' = [state |-> "empty", canceled |-> <<>>, unhandled |-> <<>>]
        BY <2>1, <3>3 DEF AllStores
      <3> QED
        BY <1>3, <3>1, <3>2, <3>3
    <2> QED
      BY <1>0, <1>1, <1>2, <2>2 DEF SeqsType
  <1>6. Distinct(result.interrupted \o result.unhandled)
    <2>1. /\ result.interrupted \in Seq(AllItems) /\ result.unhandled \in Seq(AllItems)
          /\ result.accepted \in Seq(AllItems)
      BY <1>0 DEF SeqsType
    <2>2. Distinct(result.unhandled)
      BY <1>0, <2>1, FollowsDistinct DEF ItemsApart
    <2>3. /\ Distinct(result.interrupted)
          /\ Elements(result.interrupted) \cap Elements(result.unhandled) = {}
      <3>1. CASE result.interrupted = <<>>
        BY <3>1, EmptyFacts
      <3>2. CASE result.interrupted # <<>>
        <4>1. PICK k \in Turns : result.interrupted = turn[k].consumed
          BY <1>0, <3>2 DEF StoreDistinct
        <4>2. /\ Follows(turn[k].consumed, result.accepted)
              /\ Elements(turn[k].consumed) \cap Elements(result.unhandled) = {}
          BY <1>0 DEF ItemsApart
        <4> QED
          BY <2>1, <4>1, <4>2, FollowsDistinct
      <3> QED
        BY <3>1, <3>2
    <2> QED
      BY <2>1, <2>2, <2>3, DistinctConcat
  <1>7. StoreDistinct'
    <2>1. Distinct(store'.canceled \o store'.unhandled)
      <3>1. CASE store' = store
        BY <1>0, <3>1 DEF StoreDistinct
      <3>2. CASE store'.canceled = result.interrupted /\ store'.unhandled = result.unhandled
        BY <1>6, <3>2
      <3>3. CASE store' = [state |-> "empty", canceled |-> <<>>, unhandled |-> <<>>]
        BY <3>3, EmptyFacts, ConcatFacts
      <3> QED
        BY <1>3, <3>1, <3>2, <3>3
    <2> QED
      BY <1>0, <1>1, <2>1 DEF StoreDistinct
  <1>8. RunHolds'
    BY <1>0, <1>1, <1>2, SameUnsent DEF RunHolds, CleanupPcs
  <1>9. TurnsAhead'
    BY <1>0, <1>1, <1>2 DEF TurnsAhead, NotStarted, NotBegun
  <1>10. NotLoaded' /\ (NoIdleStops => NeverIdle')
    BY <1>1, <1>2 DEF NotLoaded, NeverIdle, ItemsInv
  <1>11. "save" \notin Faults => Saved'
    BY <1>1, <1>3 DEF Saved
  <1>12. "early" \notin Faults => EventsRead'
    BY <1>1, <1>4, EventsOutside DEF ItemsInv
  <1>13. ResumeForgotten => ResumeForgotten'
    BY <1>1, <1>4 DEF ResumeForgotten
  <1>14. Queue' = Queue
    BY <1>1, <1>2 DEF Queue
  <1> QED
    BY <1>1, <1>5, <1>7, <1>8, <1>9, <1>10, <1>11, <1>12, <1>13, <1>14, PlacesKeep

-----------------------------------------------------------------------------
(* From the start to a planned turn *)

\* tryLoadCheckpoint: its items at the front of the queue.
LEMMA LoadedKeep ==
  ASSUME IInv, ItemsInv, loop.pc = "load", loop'.pc = "top",
         NEW l \in Seq(AllItems), Distinct(l), Elements(l) \subseteq Old,
         Queue' = l \o Queue,
         result' = [result EXCEPT !.accepted = l \o result.accepted],
         loop'.hand \in Seq(AllItems), buffer'.buf \in Seq(AllItems),
         loop'.hand # <<>> => loop'.resume = "pending",
         loop'.resume \in {loop.resume, "pending"},
         loop'.resume # loop.resume => "runner" \in Stores,
         loop'.idle = loop.idle, loop'.err = loop.err,
         UNCHANGED <<preemptCtrl, stopCtrl, pusher, turn, captured, runnerBytes, store>>
  PROVE  ItemsInv'
  <1>0. /\ RunHolds /\ SeqsType /\ TurnsAhead /\ NotLoaded /\ ItemsApart /\ StoreDistinct
        /\ NoIdleStops => NeverIdle /\ ItemsPlaced
        /\ preemptCtrl.turnID = 0 /\ Elements(result.accepted) \subseteq Items
        /\ result.unhandled = <<>> /\ result.interrupted = <<>> /\ loop.err = "none"
    BY DEF ItemsInv, RunHolds, NotLoaded, CleanupPcs
  <1>1. \A k \in Turns : Eaten[k] = <<>>
    BY <1>0, TurnNumbers DEF Eaten, TurnsAhead
  <1> PICK a \in Seq(AllItems) : a = result.accepted
    BY <1>0 DEF SeqsType
  <1>2. /\ result'.accepted = l \o a /\ result'.unhandled = result.unhandled
        /\ result'.interrupted = result.interrupted
    BY <1>0 DEF SeqsType
  <1>3. l \o a \in Seq(AllItems) /\ Elements(l \o a) = Elements(l) \cup Elements(a)
    BY ConcatFacts
  <1>4. SeqsType'
    <2>1. result' \in [accepted : Seq(AllItems), unhandled : Seq(AllItems),
                       interrupted : Seq(AllItems)]
      <3>1. PICK la : la = l \o a
        OBVIOUS
      <3>2. result' = [result EXCEPT !.accepted = la] /\ la \in Seq(AllItems)
        BY <1>3, <3>1
      <3> QED
        BY <1>0, <3>2 DEF SeqsType
    <2> QED
      BY <1>0, <2>1 DEF SeqsType
  <1>5. Eaten' = Eaten
    BY SameEaten
  <1>6. /\ ItemsApart'
        /\ (\A i \in Elements(result.accepted) : Placed(i)) =>
               (\A i \in Elements(result.accepted) : Placed(i))'
    <2>1. Elements(l) \cap Elements(a) = {}
      BY <1>0, LoopAssumption
    <2> PICK q : q = Queue
      OBVIOUS
    <2>2. /\ ItemTypes(q, a, result.unhandled, Eaten)
          /\ Apart(q, a, result.unhandled, Eaten)
          /\ (\A i \in Elements(result.accepted) : Placed(i)) <=>
                 AllHeld(q, a, result.unhandled, Eaten)
      BY <1>0, ItemsAre
    <2>3. /\ Apart(l \o q, l \o a, result.unhandled, Eaten)
          /\ AllHeld(q, a, result.unhandled, Eaten) =>
                 AllHeld(l \o q, l \o a, result.unhandled, Eaten)
      BY <1>0, <1>1, <2>1, <2>2, LoadApart
    <2>4. /\ ItemsApart' <=> Apart(Queue', result'.accepted, result'.unhandled, Eaten')
          /\ (\A i \in Elements(result.accepted) : Placed(i))' <=>
                 AllHeld(Queue', result'.accepted, result'.unhandled, Eaten')
      BY <1>4, ItemsAreNext
    <2>5. Queue' = l \o q
      OBVIOUS
    <2> QED
      BY <1>2, <1>5, <2>2, <2>3, <2>4, <2>5
  <1>7. RunHolds'
    <2>1. \A p \in Items : p \notin Elements(l)
      BY LoopAssumption
    <2>2. \A p \in Items : Unsent(p)' => p \notin Elements(result'.accepted)
      BY <1>0, <1>2, <1>3, <2>1, SameUnsent DEF RunHolds
    <2>3. loop.resume # "pending"
      BY <1>0 DEF RunHolds, CleanupPcs
    <2> QED
      BY <1>0, <1>2, <2>2, <2>3 DEF RunHolds, CleanupPcs
  <1>8. TurnsAhead'
    BY <1>0 DEF TurnsAhead, NotStarted, NotBegun
  <1>9. NotLoaded' /\ Saved'
    BY DEF NotLoaded, Saved
  <1>10. StoreDistinct'
    BY <1>0, <1>2 DEF StoreDistinct
  <1>11. NoIdleStops => NeverIdle'
    BY <1>0 DEF NeverIdle
  <1>12. "early" \notin Faults => EventsRead'
    BY <1>2, EventsOutside DEF ItemsInv, ActivePcs
  <1>13. NoIdleStops => ItemsPlaced'
    BY <1>0, <1>6 DEF ItemsPlaced, ResumeForgotten, CleanupPcs
  <1> QED
    BY <1>4, <1>6, <1>7, <1>8, <1>9, <1>10, <1>11, <1>12, <1>13 DEF ItemsInv

LEMMA ConcatAssoc ==
  ASSUME NEW S, NEW s \in Seq(S), NEW t \in Seq(S), NEW u \in Seq(S)
  PROVE  (s \o t) \o u = s \o (t \o u)
  BY ConcatAssociative

LEMMA LoadKeepsItems ==
  ASSUME IInv, ItemsInv, LoadCheckpoint
  PROVE  ItemsInv'
  <1>0. /\ loop.pc = "load" /\ LoopType /\ BufferType /\ SeqsType /\ RunHolds /\ StoreDistinct
        /\ NotLoaded /\ loop.hand = <<>>
    BY DEF LoadCheckpoint, At, IInv, StateType, ItemsInv, RunHolds
  <1>1. UNCHANGED <<preemptCtrl, stopCtrl, pusher, turn, captured, runnerBytes, store>>
    BY DEF LoadCheckpoint, pushVars, turnVars, saveVars
  <1>2. CASE Leave("load") /\ UNCHANGED <<buffer, result>>
    <2>1. Leaves /\ buffer'.buf = buffer.buf
      BY <1>0, <1>1, <1>2, LeaveOnly DEF Leaves
    <2> QED
      BY <1>0, <2>1, LeavesKeep
  <1>3. CASE Goto("top") /\ UNCHANGED <<buffer, result>>
    <2>1. Onward("top")
      BY <1>1, <1>3 DEF Onward
    <2>2. Walks /\ loop'.pc = "top"
      BY <2>1, OnwardWalks
    <2>3. RunHolds'
      BY <1>0, <2>2, SameUnsent DEF RunHolds, Walks, CleanupPcs
    <2> QED
      BY <1>0, <2>2, <2>3, OutsideKeeps DEF ActivePcs, CleanupPcs
  <1> PICK c \in Seq(AllItems), u \in Seq(AllItems), b \in Seq(AllItems), a \in Seq(AllItems) :
          c = store.canceled /\ u = store.unhandled /\ b = buffer.buf /\ a = result.accepted
    BY <1>0 DEF SeqsType
  <1>4. Queue = b
    BY <1>0, ConcatFacts DEF Queue
  <1>5. /\ c \o u \in Seq(AllItems) /\ Elements(c \o u) = Elements(c) \cup Elements(u)
        /\ Distinct(c \o u)
    BY <1>0, ConcatFacts DEF StoreDistinct
  <1>6. store.state \in {"runner", "bare"} =>
            Elements(c) \cup Elements(u) \subseteq Old /\ store.state \in Stores
    BY <1>0 DEF NotLoaded, Old
  <1>7. CASE /\ store.state = "runner" /\ TakeAll
             /\ loop' = [loop EXCEPT !.pc = "top", !.resume = "pending",
                           !.hand = store.canceled \o store.unhandled \o buffer.buf]
             /\ result' = [result EXCEPT
                             !.accepted = store.canceled \o store.unhandled \o @]
    <2> PICK l \in Seq(AllItems) : l = c \o u
      BY <1>5
    <2> PICK lb \in Seq(AllItems) : lb = l \o b
      BY ConcatFacts
    <2>1. lb = c \o u \o b
      OBVIOUS
    <2>2. loop' = [loop EXCEPT !.pc = "top", !.resume = "pending", !.hand = lb]
      BY <1>7, <2>1
    <2>3. /\ loop'.pc = "top" /\ loop'.resume = "pending" /\ loop'.hand = lb
          /\ loop'.idle = loop.idle /\ loop'.err = loop.err
      BY <1>0, <2>2 DEF LoopType
    <2>4. buffer'.buf = <<>>
      BY <1>0, <1>7 DEF TakeAll, BufferType
    <2>5. Queue' = l \o Queue
      BY <1>4, <2>3, <2>4, ConcatFacts DEF Queue
    <2>6. result' = [result EXCEPT !.accepted = l \o result.accepted]
      BY <1>7
    <2>7. Distinct(l) /\ Elements(l) \subseteq Old /\ "runner" \in Stores
      BY <1>5, <1>6, <1>7
    <2>8. buffer'.buf \in Seq(AllItems)
      BY <2>4, EmptyFacts
    <2> QED
      BY <1>0, <1>1, <2>3, <2>5, <2>6, <2>7, <2>8, LoadedKeep
  <1>8. CASE /\ store.state = "bare" /\ PushFront(store.unhandled) /\ Goto("top")
             /\ result' = [result EXCEPT !.accepted = store.unhandled \o @]
    <2>1. /\ loop'.pc = "top" /\ loop'.hand = loop.hand /\ loop'.resume = loop.resume
          /\ loop'.idle = loop.idle /\ loop'.err = loop.err
      BY <1>0, <1>8, GotoOnly
    <2>2. buffer'.buf = u \o b
      BY <1>0, <1>8 DEF PushFront, BufferType
    <2>3. u \o b \in Seq(AllItems)
      BY ConcatFacts
    <2>4. Queue' = u \o Queue
      BY <1>0, <1>4, <2>1, <2>2, <2>3, ConcatFacts DEF Queue
    <2>5. result' = [result EXCEPT !.accepted = u \o result.accepted]
      BY <1>8
    <2>6. Distinct(u) /\ Elements(u) \subseteq Old
      <3>1. Follows(u, c \o u)
        BY <1>5, DistinctFollows, SuffixFollows
      <3> QED
        BY <1>5, <1>6, <1>8, <3>1, FollowsDistinct
    <2> QED
      BY <1>0, <1>1, <2>1, <2>2, <2>3, <2>4, <2>5, <2>6, LoadedKeep, EmptyFacts
  <1> QED
    BY <1>2, <1>3, <1>7, <1>8 DEF LoadCheckpoint

\* A step of run between turns that moves items from the buffer to its hands at
\* most.
LEMMA HandsKeep ==
  ASSUME IInv, ItemsInv, RunHolds', NoIdleStops => NeverIdle',
         loop.pc \in {"mode", "receive", "take"},
         loop'.pc \in {"receive", "disarm", "got", "empty", "plan"},
         loop'.hand \in Seq(AllItems), buffer'.buf \in Seq(AllItems), Queue' = Queue,
         UNCHANGED <<preemptCtrl, stopCtrl, turn, captured, result, runnerBytes, store>>
  PROVE  ItemsInv'
  <1>0. SeqsType /\ StoreDistinct /\ TurnsAhead
    BY DEF ItemsInv
  <1>1. SeqsType'
    BY <1>0 DEF SeqsType
  <1>2. NotLoaded' /\ Saved'
    BY DEF NotLoaded, Saved
  <1>3. TurnsAhead'
    BY <1>0 DEF TurnsAhead, NotStarted, NotBegun
  <1>4. StoreDistinct'
    BY <1>0 DEF StoreDistinct
  <1>5. "early" \notin Faults => EventsRead'
    BY EventsOutside DEF ItemsInv, ActivePcs
  <1>6. ~ResumeForgotten
    BY DEF ResumeForgotten, CleanupPcs
  <1> QED
    BY <1>1, <1>2, <1>3, <1>4, <1>5, <1>6, PlacesKeep

\* Without idle stops the idle branch is never taken.
LEMMA ChooseModeKeepsItems ==
  ASSUME IInv, ItemsInv, ChooseMode
  PROVE  ItemsInv'
  <1>0. loop.pc = "mode" /\ LoopType /\ BufferType /\ SeqsType /\ RunHolds
    BY DEF ChooseMode, At, IInv, StateType, ItemsInv
  <1>1. PICK idle : idle = (stopCtrl.phase = "idleWaiting")
    OBVIOUS
  <1>2. loop' = [loop EXCEPT !.pc = "receive", !.idle = idle]
    BY <1>1 DEF ChooseMode
  <1>3. /\ loop'.pc = "receive" /\ loop'.idle = idle /\ loop'.hand = loop.hand
        /\ loop'.resume = loop.resume /\ loop'.err = loop.err
    BY <1>0, <1>2 DEF LoopType
  <1>4. UNCHANGED <<preemptCtrl, stopCtrl, pusher, turn, captured, result, runnerBytes, store>>
    BY DEF ChooseMode, pushVars, turnVars, saveVars
  <1>5. buffer'.buf = buffer.buf
    BY <1>0 DEF ChooseMode, BufferType
  <1>6. RunHolds'
    BY <1>0, <1>3, <1>4, SameUnsent DEF RunHolds, CleanupPcs
  <1>7. NoIdleStops => NeverIdle'
    BY <1>1, <1>3, <1>4 DEF ItemsInv, NeverIdle
  <1>8. Queue' = Queue
    BY <1>3, <1>5 DEF Queue
  <1> QED
    BY <1>0, <1>3, <1>4, <1>5, <1>6, <1>7, <1>8, HandsKeep DEF SeqsType

LEMMA HeadAndTail ==
  ASSUME NEW S, NEW s \in Seq(S), s # <<>>
  PROVE  /\ <<Head(s)>> \in Seq(S) /\ Tail(s) \in Seq(S)
         /\ <<Head(s)>> \o Tail(s) = s
  <1>1. /\ Len(s) \in Nat \ {0} /\ s \in [1..Len(s) -> S]
    BY EmptySeq, LenProperties
  <1>2. /\ Head(s) = s[1] /\ Head(s) \in S
        /\ Tail(s) \in Seq(S) /\ Len(Tail(s)) = Len(s) - 1
        /\ \A n \in 1..Len(Tail(s)) : Tail(s)[n] = s[n + 1]
    BY <1>1, HeadTailProperties
  <1> PICK e \in S : e = Head(s)
    BY <1>2
  <1>a. <<e>> \in Seq(S) /\ Len(<<e>>) = 1 /\ <<e>>[1] = e
    OBVIOUS
  <1> PICK h \in Seq(S), t \in Seq(S) :
          h = <<Head(s)>> /\ t = Tail(s) /\ Len(h) = 1 /\ h[1] = s[1]
    BY <1>2, <1>a
  <1>3. h \o t \in Seq(S) /\ Len(h \o t) = Len(s)
    BY <1>1, <1>2, ConcatProperties
  <1>4. \A n \in 1..Len(s) : (h \o t)[n] = s[n]
    BY <1>1, <1>2, ConcatProperties
  <1>5. h \o t = s
    BY <1>3, <1>4, SeqEqual
  <1> QED
    BY <1>2, <1>5

LEMMA ReceiveKeepsItems ==
  ASSUME IInv, ItemsInv, Receive
  PROVE  ItemsInv'
  <1>0. /\ loop.pc = "receive" /\ LoopType /\ BufferType /\ SeqsType /\ RunHolds
        /\ loop.hand = <<>>
    BY DEF Receive, At, IInv, StateType, ItemsInv, RunHolds, CleanupPcs
  <1> PICK b \in Seq(AllItems) : b = buffer.buf
    BY <1>0 DEF SeqsType
  <1>1. PICK pc : pc = CASE loop.idle -> "disarm" [] ~loop.idle /\ b # <<>> -> "got"
                         [] OTHER -> "empty"
    OBVIOUS
  <1>2. PICK h, t : /\ h = (IF b # <<>> THEN <<Head(b)>> ELSE <<>>)
                    /\ t = (IF b # <<>> THEN Tail(b) ELSE b)
    OBVIOUS
  <1>3. loop' = [loop EXCEPT !.pc = pc, !.hand = h]
    BY <1>1, <1>2 DEF Receive
  <1>4. buffer' = [buffer EXCEPT !.woken = FALSE, !.buf = t]
    BY <1>2 DEF Receive
  <1>5. h \in Seq(AllItems) /\ t \in Seq(AllItems) /\ h \o t = b
    BY <1>2, HeadAndTail, EmptyFacts, ConcatFacts
  <1>6. /\ pc \in {"disarm", "got", "empty"}
        /\ pc = "empty" => h = <<>>
        /\ pc = "disarm" => loop.idle
    <2>1. BOOLEAN = {TRUE, FALSE} /\ loop.idle \in BOOLEAN
      BY <1>0 DEF LoopType
    <2> QED
      BY <1>1, <1>2, <2>1
  <1>7. /\ loop'.pc = pc /\ loop'.idle = loop.idle /\ loop'.hand = h
        /\ loop'.resume = loop.resume /\ loop'.err = loop.err
    BY <1>0, <1>3 DEF LoopType
  <1>8. UNCHANGED <<preemptCtrl, stopCtrl, pusher, turn, captured, result, runnerBytes, store>>
    BY DEF Receive, pushVars, turnVars, saveVars
  <1>9. buffer'.buf = t
    BY <1>0, <1>4 DEF BufferType
  <1>10. RunHolds'
    BY <1>0, <1>6, <1>7, <1>8, SameUnsent DEF RunHolds, CleanupPcs
  <1>11. NoIdleStops => NeverIdle'
    BY <1>6, <1>7, <1>8 DEF ItemsInv, NeverIdle
  <1>12. Queue' = Queue
    <2>1. Queue = b
      BY <1>0, ConcatFacts DEF Queue
    <2> QED
      BY <1>5, <1>7, <1>9, <2>1 DEF Queue
  <1> QED
    BY <1>0, <1>5, <1>6, <1>7, <1>8, <1>9, <1>10, <1>11, <1>12, HandsKeep

LEMMA TakeKeepsItems ==
  ASSUME IInv, ItemsInv, TakeItems
  PROVE  ItemsInv'
  <1>0. loop.pc = "take" /\ LoopType /\ BufferType /\ SeqsType /\ RunHolds
    BY DEF TakeItems, At, IInv, StateType, ItemsInv
  <1> PICK h \in Seq(AllItems), b \in Seq(AllItems) : h = loop.hand /\ b = buffer.buf
    BY <1>0 DEF SeqsType
  <1>1. PICK hb \in Seq(AllItems) : hb = h \o b
    BY ConcatFacts
  <1>2. PICK resume : resume = (IF loop.resume = "pending" THEN "now" ELSE loop.resume)
    OBVIOUS
  <1>3. loop' = [loop EXCEPT !.pc = "plan", !.hand = hb, !.resume = resume]
    BY <1>1, <1>2 DEF TakeItems
  <1>4. /\ loop'.pc = "plan" /\ loop'.hand = hb /\ loop'.resume = resume
        /\ loop'.idle = loop.idle /\ loop'.err = loop.err
    BY <1>0, <1>3 DEF LoopType
  <1>5. buffer'.buf = <<>>
    BY <1>0 DEF TakeItems, TakeAll, BufferType
  <1>6. UNCHANGED <<preemptCtrl, stopCtrl, pusher, turn, captured, result, runnerBytes, store>>
    BY DEF TakeItems, pushVars, turnVars, saveVars
  <1>7. RunHolds'
    BY <1>0, <1>2, <1>4, <1>6, SameUnsent DEF RunHolds, CleanupPcs
  <1>8. NoIdleStops => NeverIdle'
    BY <1>4, <1>6 DEF ItemsInv, NeverIdle
  <1>9. Queue' = Queue
    BY <1>1, <1>4, <1>5, ConcatFacts DEF Queue
  <1> QED
    BY <1>0, <1>4, <1>5, <1>6, <1>7, <1>8, <1>9, HandsKeep, EmptyFacts

\* The step of run from one stage of a planned turn to the next: the turns keep
\* their agents, and the turn at hand has not begun.
LEMMA PlanningKeeps ==
  ASSUME IInv, ItemsInv, preemptCtrl'.turnID \in Turns,
         \/ /\ loop.pc = "plan" /\ loop'.pc = "planning"
            /\ preemptCtrl'.turnID = preemptCtrl.turnID + 1
         \/ /\ loop.pc \in {"planning", "begin"} /\ loop'.pc \in {"begin", "beginStop"}
            /\ preemptCtrl'.turnID = preemptCtrl.turnID,
         loop'.hand = <<>> \/ loop'.pc = "planning",
         loop'.resume = loop.resume, loop'.idle = loop.idle, loop'.err = loop.err,
         loop'.hand \in Seq(AllItems), buffer'.buf \in Seq(AllItems),
         \A j \in Turns : SameAgent(j) /\ turn'[j].consumed \in Seq(AllItems),
         \A j \in Turns : \/ turn'[j].consumed = turn[j].consumed
                          \/ loop'.pc = "begin" /\ j = preemptCtrl.turnID,
         loop'.pc = "beginStop" => captured' = {} /\ ~runnerBytes',
         loop'.pc # "beginStop" => runnerBytes' = runnerBytes,
         UNCHANGED <<stopCtrl, pusher, result, store>>
  PROVE  /\ SeqsType' /\ RunHolds' /\ NotLoaded' /\ TurnsAhead' /\ StoreDistinct' /\ Saved'
         /\ NoIdleStops => NeverIdle'
         /\ "early" \notin Faults => EventsRead'
         /\ ~ResumeForgotten
  <1>a. /\ loop.pc \in {"plan", "planning", "begin"}
        /\ loop'.pc \in {"planning", "begin", "beginStop"}
    OBVIOUS
  <1>b. SeqsType /\ RunHolds /\ TurnsAhead /\ StoreDistinct
    BY DEF ItemsInv
  <1>c. /\ result.interrupted = <<>> /\ result.unhandled = <<>> /\ loop.err = "none"
        /\ loop.resume # "pending"
    BY <1>a, <1>b DEF RunHolds, CleanupPcs
  <1>d. /\ preemptCtrl.turnID \in Nat /\ preemptCtrl'.turnID \in Nat \ {0}
        /\ \A j \in Turns : j \in Nat
    BY PreemptType, TurnNumbers DEF IInv, PreemptRec
  <1>1. SeqsType'
    BY <1>b DEF SeqsType
  <1>2. RunHolds'
    BY <1>a, <1>b, <1>c, <1>d, SameUnsent DEF RunHolds, CleanupPcs
  <1>3. NotLoaded' /\ Saved'
    BY <1>a DEF NotLoaded, Saved
  <1>4. TurnsAhead'
    <2>1. ASSUME NEW j \in Turns, NotStarted(j)' PROVE NotBegun(turn'[j])
      <3>1. NotStarted(j)
        BY <1>d, <2>1 DEF NotStarted
      <3> QED
        BY <1>b, <3>1 DEF TurnsAhead, NotBegun, SameAgent
    <2>2. ASSUME NEW j \in Turns,
                 j > preemptCtrl'.turnID \/ (j = preemptCtrl'.turnID /\ loop'.pc = "planning")
          PROVE  turn'[j].consumed = <<>>
      <3>1. j > preemptCtrl.turnID /\ turn'[j].consumed = turn[j].consumed
        BY <1>d, <2>2
      <3> QED
        BY <1>b, <3>1 DEF TurnsAhead
    <2> QED
      BY <2>1, <2>2 DEF TurnsAhead
  <1>5. StoreDistinct'
    BY <1>b, <1>c DEF StoreDistinct
  <1>6. NoIdleStops => NeverIdle'
    BY <1>a DEF ItemsInv, NeverIdle
  <1>7. "early" \notin Faults => EventsRead'
    BY <1>4, <1>a, EventsNotBegun DEF ItemsInv, ActivePcs
  <1>8. ~ResumeForgotten
    BY <1>a DEF ResumeForgotten, CleanupPcs
  <1> QED
    BY <1>1, <1>2, <1>3, <1>4, <1>5, <1>6, <1>7, <1>8

LEMMA BeginPlanningKeepsItems ==
  ASSUME IInv, ItemsInv, BeginPlanningTurn
  PROVE  ItemsInv'
  <1> DEFINE k == preemptCtrl.turnID + 1
  <1>0. /\ loop.pc = "plan" /\ k \in Turns /\ LoopType /\ TurnType /\ SeqsType
        /\ preemptCtrl \in PreemptRec /\ preemptCtrl.turnID \in Nat
    BY PreemptType, TurnNumbers
       DEF BeginPlanningTurn, At, IInv, StateType, ItemsInv, PreemptRec
  <1>1. preemptCtrl.phase = "idle" /\ preemptCtrl.pending = {}
    BY <1>0, StageAt DEF PlanningPcs, ActivePcs
  <1>2. /\ loop'.pc = "planning" /\ loop'.hand = loop.hand /\ loop'.resume = loop.resume
        /\ loop'.idle = loop.idle /\ loop'.err = loop.err
    BY <1>0, <1>1, GotoOnly DEF BeginPlanningTurn
  <1>3. UNCHANGED <<buffer, stopCtrl, pusher, captured, result, runnerBytes, store>>
    BY DEF BeginPlanningTurn, pushVars, saveVars
  <1>4. preemptCtrl'.turnID = k
    <2>1. preemptCtrl' = [preemptCtrl EXCEPT !.turnID = k, !.phase = "planning"]
      BY DEF BeginPlanningTurn
    <2> HIDE DEF k
    <2> QED
      BY <1>0, <2>1 DEF PreemptRec
  <1>5. PICK afterStop : turn' = [turn EXCEPT ![k].afterStop = afterStop]
    BY DEF BeginPlanningTurn
  <1>6. \A j \in Turns : SameAgent(j) /\ turn'[j].consumed = turn[j].consumed
    <2> HIDE DEF k
    <2>1. turn[k] \in TurnRec(turn[k].consumed)
      BY <1>0, TurnIs
    <2>2. SameAgent(k) /\ turn'[k].consumed = turn[k].consumed
      BY <1>0, <1>5, <2>1 DEF TurnType, TurnRec, SameAgent
    <2>3. \A j \in Turns \ {k} : turn'[j] = turn[j]
      BY <1>0, <1>5 DEF TurnType
    <2> QED
      BY <2>2, <2>3 DEF SameAgent
  <1>7. /\ SeqsType' /\ RunHolds' /\ NotLoaded' /\ TurnsAhead' /\ StoreDistinct' /\ Saved'
        /\ NoIdleStops => NeverIdle'
        /\ "early" \notin Faults => EventsRead'
        /\ ~ResumeForgotten
    BY <1>0, <1>2, <1>3, <1>4, <1>6, PlanningKeeps DEF SeqsType
  <1>8. Queue' = Queue
    BY <1>2, <1>3 DEF Queue
  <1> QED
    BY <1>3, <1>6, <1>7, <1>8, PlacesKeep

LEMMA BeginActiveKeepsItems ==
  ASSUME IInv, ItemsInv, BeginActiveTurn
  PROVE  ItemsInv'
  <1>0. /\ loop.pc = "begin" /\ LoopType /\ SeqsType /\ RunHolds /\ loop.hand = <<>>
        /\ preemptCtrl \in PreemptRec /\ preemptCtrl.turnID \in Nat
    BY PreemptType, TurnNumbers
       DEF BeginActiveTurn, At, IInv, StateType, ItemsInv, RunHolds, CleanupPcs, PreemptRec
  <1>1. preemptCtrl.phase = "planning" /\ preemptCtrl.turnID \in Turns
    BY <1>0, StageAt DEF PlanningPcs
  <1>2. /\ loop'.pc = "beginStop" /\ loop'.hand = loop.hand /\ loop'.resume = loop.resume
        /\ loop'.idle = loop.idle /\ loop'.err = loop.err
    BY <1>0, <1>1, GotoOnly DEF BeginActiveTurn
  <1>3. /\ UNCHANGED <<buffer, stopCtrl, pusher, turn, result, store>>
        /\ captured' = {} /\ ~runnerBytes'
    BY DEF BeginActiveTurn, pushVars
  <1>4. preemptCtrl'.turnID = preemptCtrl.turnID
    BY <1>0 DEF BeginActiveTurn, PreemptRec
  <1>5. \A j \in Turns : SameAgent(j) /\ turn'[j].consumed = turn[j].consumed
    BY <1>3 DEF SameAgent
  <1>6. /\ SeqsType' /\ RunHolds' /\ NotLoaded' /\ TurnsAhead' /\ StoreDistinct' /\ Saved'
        /\ NoIdleStops => NeverIdle'
        /\ "early" \notin Faults => EventsRead'
        /\ ~ResumeForgotten
    BY <1>0, <1>1, <1>2, <1>3, <1>4, <1>5, PlanningKeeps DEF SeqsType
  <1>7. Queue' = Queue
    BY <1>2, <1>3 DEF Queue
  <1> QED
    BY <1>3, <1>5, <1>6, <1>7, PlacesKeep

\* GenInput or GenResume takes some of the items, and the others go back to the
\* front of the buffer.
LEMMA PlanTurnKeepsItems ==
  ASSUME IInv, ItemsInv, PlanTurn
  PROVE  ItemsInv'
  <1> PICK k : k = preemptCtrl.turnID
    OBVIOUS
  <1>0. /\ loop.pc = "planning" /\ LoopType /\ BufferType /\ TurnType /\ SeqsType /\ TurnsAhead
        /\ ItemsApart /\ (NoIdleStops => ItemsPlaced)
        /\ k \in Turns /\ k \in Nat /\ turn[k].consumed = <<>>
    <2>1. /\ loop.pc = "planning" /\ LoopType /\ BufferType /\ TurnType /\ SeqsType /\ TurnsAhead
          /\ ItemsApart /\ (NoIdleStops => ItemsPlaced)
      BY DEF PlanTurn, At, IInv, StateType, ItemsInv
    <2>2. k \in Turns /\ k \in Nat
      BY <2>1, StageAt, TurnNumbers DEF PlanningPcs
    <2> QED
      BY <2>1, <2>2 DEF TurnsAhead
  <1> PICK h \in Seq(AllItems), b \in Seq(AllItems) : h = loop.hand /\ b = buffer.buf
    BY <1>0 DEF SeqsType
  <1>1. PICK parts \in Splits(h) :
            /\ PushFront(Pick(h, parts.left))
            /\ turn' = [turn EXCEPT ![k].consumed = Pick(h, parts.taken)]
    BY DEF PlanTurn
  <1>2. parts.taken \in Positions(h) /\ parts.left \in Positions(h)
    BY DEF Splits
  <1>3. PICK taken \in Seq(AllItems), left \in Seq(AllItems) :
            taken = Pick(h, parts.taken) /\ left = Pick(h, parts.left)
    BY <1>2, PickFacts
  <1>4. /\ loop'.pc = "begin" /\ loop'.hand = <<>> /\ loop'.resume = loop.resume
        /\ loop'.idle = loop.idle /\ loop'.err = loop.err
    BY <1>0 DEF PlanTurn, LoopType
  <1>5. UNCHANGED <<preemptCtrl, stopCtrl, pusher, captured, result, runnerBytes, store>>
    BY DEF PlanTurn, pushVars, saveVars
  <1>6. buffer'.buf = left \o b
    BY <1>0, <1>1, <1>3 DEF PushFront, BufferType
  <1>7. /\ \A j \in Turns : SameAgent(j)
        /\ turn'[k].consumed = taken
        /\ \A j \in Turns \ {k} : turn'[j].consumed = turn[j].consumed
    <2>1. turn[k] \in TurnRec(turn[k].consumed)
      BY <1>0, TurnIs
    <2>2. turn' = [turn EXCEPT ![k].consumed = taken]
      BY <1>1, <1>3
    <2>3. SameAgent(k) /\ turn'[k].consumed = taken
      BY <1>0, <2>1, <2>2 DEF TurnType, TurnRec, SameAgent
    <2>4. \A j \in Turns \ {k} : turn'[j] = turn[j]
      BY <1>0, <2>2 DEF TurnType
    <2> QED
      BY <2>3, <2>4 DEF SameAgent
  <1>8. left \o b \in Seq(AllItems)
    BY ConcatFacts
  <1>9. \A j \in Turns : turn'[j].consumed \in Seq(AllItems)
    BY <1>0, <1>7 DEF SeqsType
  <1>10. /\ SeqsType' /\ RunHolds' /\ NotLoaded' /\ TurnsAhead' /\ StoreDistinct' /\ Saved'
         /\ NoIdleStops => NeverIdle'
         /\ "early" \notin Faults => EventsRead'
         /\ ~ResumeForgotten
    BY <1>0, <1>4, <1>5, <1>6, <1>7, <1>8, <1>9, PlanningKeeps, EmptyFacts
  <1>11. /\ ItemsApart'
         /\ (\A i \in Elements(result.accepted) : Placed(i)) =>
                (\A i \in Elements(result.accepted) : Placed(i))'
    <2> PICK a, u, c : a = result.accepted /\ u = result.unhandled /\ c = Eaten
      OBVIOUS
    <2>1. /\ ItemTypes(h \o b, a, u, c) /\ Apart(h \o b, a, u, c)
          /\ (\A i \in Elements(result.accepted) : Placed(i)) <=> AllHeld(h \o b, a, u, c)
      BY <1>0, ItemsAre DEF Queue
    <2>2. c[k] = <<>>
      BY <1>0 DEF Eaten
    <2>3. Eaten' = [c EXCEPT ![k] = taken]
      BY <1>0, <1>7 DEF Eaten
    <2>4. /\ Apart(left \o b, a, u, Eaten')
          /\ AllHeld(h \o b, a, u, c) => AllHeld(left \o b, a, u, Eaten')
      BY <1>0, <1>3, <2>1, <2>2, <2>3, SplitApart
    <2>5. Queue' = left \o b
      BY <1>4, <1>6, <1>8, ConcatFacts DEF Queue
    <2>6. /\ ItemsApart' <=> Apart(Queue', result'.accepted, result'.unhandled, Eaten')
          /\ (\A i \in Elements(result.accepted) : Placed(i))' <=>
                 AllHeld(Queue', result'.accepted, result'.unhandled, Eaten')
      BY <1>10, ItemsAreNext
    <2> QED
      BY <1>5, <2>1, <2>4, <2>5, <2>6
  <1>12. NoIdleStops => ItemsPlaced'
    BY <1>0, <1>10, <1>11 DEF ItemsPlaced
  <1> QED
    BY <1>10, <1>11, <1>12 DEF ItemsInv

\* The agent, and those who read its events, are started.
LEMMA StartedEvents ==
  ASSUME EventsRead, NEW k \in Turns, k = preemptCtrl.turnID, NotBegun(turn[k]),
         loop.pc = "beginStop", loop'.pc = "active",
         \A j \in Turns \ {k} : turn'[j] = turn[j],
         turn'[k].agent = "run", turn'[k].proxy = "run", turn'[k].handler = "run",
         turn'[k].event = turn[k].event, turn'[k].iterClosed = turn[k].iterClosed,
         preemptCtrl'.turnID = k, UNCHANGED <<captured, runnerBytes>>
  PROVE  EventsRead'
  <1>1. AgentAndEvents /\ TurnInCourse
    BY DEF EventsRead
  <1>2. /\ turn'[k].event = "none" /\ ~turn'[k].iterClosed
        /\ \A j \in Turns : Notable(j)' = Notable(j)
    BY DEF NotBegun, Notable
  <1>3. AgentAndEvents'
    <2>1. ASSUME NEW j \in Turns
          PROVE  /\ turn'[j].agent # "over" => turn'[j].event = "none"
                 /\ turn'[j].handler = "done" => turn'[j].proxy = "over"
                 /\ turn'[j].proxy = "run" => j = k
      <3>1. CASE j = k
        BY <1>2, <3>1
      <3>2. CASE j # k
        BY <1>1, <3>2 DEF AgentAndEvents
      <3> QED
        BY <3>1, <3>2
    <2> QED
      BY <1>2, <2>1 DEF AgentAndEvents
  <1>4. TurnInCourse'
    <2>1. captured \subseteq Notable(k) /\ ~runnerBytes
      BY <1>1 DEF TurnInCourse, ActivePcs
    <2> QED
      BY <1>2, <2>1 DEF TurnInCourse
  <1>5. TurnSettled'
    BY DEF TurnSettled, ActivePcs
  <1> QED
    BY <1>3, <1>4, <1>5 DEF EventsRead

LEMMA StartTurnKeepsItems ==
  ASSUME IInv, ItemsInv, StartTurn
  PROVE  ItemsInv'
  <1> PICK k : k = preemptCtrl.turnID
    OBVIOUS
  <1>0. /\ loop.pc = "beginStop" /\ LoopType /\ TurnType /\ RunHolds /\ TurnsAhead
        /\ "early" \notin Faults => EventsRead
        /\ k \in Turns /\ k \in Nat /\ k # 0
    BY StageAt, TurnNumbers DEF StartTurn, At, IInv, StateType, ActivePcs, ItemsInv
  <1>1. UNCHANGED <<buffer, preemptCtrl, pusher, captured, result, runnerBytes, store>>
    BY DEF StartTurn, pushVars, saveVars
  <1>2. stopCtrl'.phase = stopCtrl.phase
    BY DEF StartTurn, IInv, StateType, CtrlType
  <1>3. NotBegun(turn[k]) /\ turn[k] \in TurnRec(turn[k].consumed)
    BY <1>0, TurnIs DEF TurnsAhead, NotStarted
  <1>4. CASE /\ loop' = [loop EXCEPT !.pc = "active"]
             /\ turn' = [turn EXCEPT ![k] = [turn[k] EXCEPT
                    !.agent = "run", !.proxy = "run", !.handler = "run",
                    !.watchPreempt = "select", !.watchStop = "receive",
                    !.bytes = loop.resume = "now"]]
    <2>1. /\ loop'.pc = "active" /\ loop'.hand = loop.hand /\ loop'.resume = loop.resume
          /\ loop'.idle = loop.idle /\ loop'.err = loop.err
      BY <1>0, <1>4 DEF LoopType
    <2>2. PICK bytes \in BOOLEAN : bytes = (loop.resume = "now")
      OBVIOUS
    <2> DEFINE r == [turn[k] EXCEPT
                       !.agent = "run", !.proxy = "run", !.handler = "run",
                       !.watchPreempt = "select", !.watchStop = "receive", !.bytes = bytes]
    <2>3. turn' = [turn EXCEPT ![k] = r]
      BY <1>4, <2>2
    <2>4. /\ r.agent = "run" /\ r.proxy = "run" /\ r.handler = "run"
          /\ r.event = turn[k].event /\ r.iterClosed = turn[k].iterClosed
          /\ r.consumed = turn[k].consumed
      BY <1>3 DEF TurnRec
    <2> HIDE DEF r
    <2>5. turn'[k] = r /\ \A j \in Turns \ {k} : turn'[j] = turn[j]
      BY <1>0, <2>3 DEF TurnType
    <2>6. SameMeals
      BY <1>1, <2>4, <2>5 DEF SameMeals
    <2>7. RunHolds'
      BY <1>0, <1>1, <2>1, SameUnsent DEF RunHolds, CleanupPcs
    <2>8. TurnsAhead'
      <3>1. ASSUME NEW j \in Turns, NotStarted(j)' \/ j > k
            PROVE  NotStarted(j) /\ j # k /\ j > k
        BY <1>0, <1>1, <2>1, <3>1, TurnNumbers DEF NotStarted
      <3> QED
        BY <1>0, <1>1, <2>1, <2>5, <3>1 DEF TurnsAhead
    <2>9. "early" \notin Faults => EventsRead'
      BY <1>0, <1>1, <1>3, <2>1, <2>4, <2>5, StartedEvents
    <2> QED
      BY <1>0, <1>1, <1>2, <2>1, <2>6, <2>7, <2>8, <2>9, CourseKeeps DEF CleanupPcs
  <1>5. CASE /\ loop' = [loop EXCEPT !.pc = "endStop", !.err = "resume"]
             /\ UNCHANGED turn
    <2>1. /\ loop'.pc = "endStop" /\ loop'.hand = loop.hand /\ loop'.resume = loop.resume
          /\ loop'.idle = loop.idle /\ loop'.err = "resume"
      BY <1>0, <1>5 DEF LoopType
    <2>2. SameMeals
      BY <1>1, <1>5 DEF SameMeals
    <2>3. RunHolds'
      BY <1>0, <1>1, <2>1, SameUnsent DEF RunHolds, CleanupPcs
    <2>4. TurnsAhead'
      BY <1>0, <1>1, <1>5, <2>1 DEF TurnsAhead, NotStarted, NotBegun
    <2>5. "early" \notin Faults => EventsRead'
      <3>1. turn[k].agent # "run" /\ turn[k].proxy # "run" /\ Notable(k) = {}
        BY <1>3 DEF NotBegun, Notable
      <3> QED
        BY <1>0, <1>1, <1>5, <2>1, <3>1, EventsEnding DEF ActivePcs
    <2> QED
      BY <1>0, <1>1, <1>2, <2>1, <2>2, <2>3, <2>4, <2>5, CourseKeeps DEF CleanupPcs
  <1> QED
    <2>1. \/ UNCHANGED turn /\ loop' = [loop EXCEPT !.pc = "endStop", !.err = "resume"]
          \/ /\ loop' = [loop EXCEPT !.pc = "active"]
             /\ turn' = [turn EXCEPT ![preemptCtrl.turnID] = [turn[preemptCtrl.turnID] EXCEPT
                    !.agent = "run", !.proxy = "run", !.handler = "run",
                    !.watchPreempt = "select", !.watchStop = "receive",
                    !.bytes = loop.resume = "now"]]
      BY Zenon DEF StartTurn
    <2> QED
      BY <1>4, <1>5, <2>1

LEMMA RunStepsKeepItems ==
  ASSUME IInv, ItemsInv, RunSteps
  PROVE  ItemsInv'
  <1>1. CASE Run
    BY <1>1, RunKeepsItems
  <1>2. CASE PlanStep
    BY <1>2, LoadKeepsItems, TopKeepsItems, ChooseModeKeepsItems, ReceiveKeepsItems,
       NothingReceivedKeepsItems, DisarmKeepsItems, IdleCheckKeepsItems, ReceivedKeepsItems,
       WaitKeepsItems, TakeKeepsItems, BeginPlanningKeepsItems, AbortKeepsItems,
       PlanTurnKeepsItems
    DEF PlanStep
  <1>3. CASE TurnStep
    BY <1>3, BeginActiveKeepsItems, StartTurnKeepsItems, FinishTurnKeepsItems,
       CloseIteratorKeepsItems, FinishPreemptedKeepsItems, EndTurnKeepsItems,
       AfterTurnKeepsItems
    DEF TurnStep
  <1>4. CASE CleanupStep
    BY <1>4, CleanupKeepsItems, TakeUnhandledKeepsItems, SaveKeepsItems DEF CleanupStep
  <1> QED
    BY <1>1, <1>2, <1>3, <1>4 DEF RunSteps, LoopStep

-----------------------------------------------------------------------------
(* The invariant *)

LEMMA OldItems == Canceled \in Seq(AllItems) /\ Unhandled \in Seq(AllItems)
  BY LoopAssumption DEF AllItems

LEMMA InitItems == Init => ItemsInv
  <1> SUFFICES ASSUME Init PROVE ItemsInv
    OBVIOUS
  <1>1. /\ loop = [pc |-> "new", hand |-> <<>>, resume |-> "none", idle |-> FALSE, err |-> "none"]
        /\ buffer = [buf |-> <<>>, closed |-> FALSE, woken |-> FALSE]
        /\ preemptCtrl.turnID = 0 /\ stopCtrl.phase = "running"
        /\ \A k \in Turns : turn[k] = NoTurn
        /\ ~runnerBytes
        /\ result = [accepted |-> <<>>, unhandled |-> <<>>, interrupted |-> <<>>]
    BY DEF Init
  <1>2. PICK st \in Stores :
            store = [state     |-> st,
                     canceled  |-> IF st \in {"runner", "bare"} THEN Canceled ELSE <<>>,
                     unhandled |-> IF st \in {"runner", "bare"} THEN Unhandled ELSE <<>>]
    BY DEF Init
  <1>3. \/ store.canceled = Canceled /\ store.unhandled = Unhandled
        \/ st \notin {"runner", "bare"} /\ store.canceled = <<>> /\ store.unhandled = <<>>
    BY <1>2
  <1>4. SeqsType
    <2>1. result \in [accepted : Seq(AllItems), unhandled : Seq(AllItems),
                      interrupted : Seq(AllItems)]
      BY <1>1, EmptyFacts
    <2>2. st \in AllStores
      BY LoopAssumption
    <2>3. store \in [state : AllStores, canceled : Seq(AllItems), unhandled : Seq(AllItems)]
      <3>1. PICK c \in Seq(AllItems), u \in Seq(AllItems) :
                store = [state |-> st, canceled |-> c, unhandled |-> u]
        BY <1>2, OldItems, EmptyFacts
      <3> QED
        BY <2>2, <3>1
    <2>4. \A k \in Turns : turn[k].consumed \in Seq(AllItems)
      <3>1. NoTurn.consumed = <<>>
        BY DEF NoTurn
      <3> QED
        BY <1>1, <3>1, EmptyFacts
    <2> QED
      BY <1>1, <2>1, <2>3, <2>4, EmptyFacts DEF SeqsType
  <1>5. Elements(result.accepted) = {} /\ Queue = <<>>
    BY <1>1, EmptyFacts, ConcatFacts DEF Queue
  <1>6. RunHolds
    BY <1>1, <1>5 DEF RunHolds
  <1>7. NotLoaded
    BY <1>1, <1>2, <1>5 DEF NotLoaded
  <1>8. TurnsAhead
    BY <1>1 DEF TurnsAhead, NotBegun, NoTurn
  <1>9. ItemsApart
    BY <1>1, <1>5, EmptyFacts DEF ItemsApart, NoTurn
  <1>10. StoreDistinct
    <2>1. Distinct(store.canceled \o store.unhandled)
      BY <1>3, CheckpointAssumption, EmptyFacts, ConcatFacts
    <2> QED
      BY <1>1, <2>1 DEF StoreDistinct
  <1>11. NeverIdle /\ ItemsPlaced
    BY <1>1, <1>5 DEF NeverIdle, ItemsPlaced
  <1>12. EventsRead
    <2>1. 0 \notin Turns
      BY TurnNumbers
    <2>2. AgentAndEvents
      BY <1>1 DEF AgentAndEvents, NoTurn
    <2> QED
      BY <1>1, <2>1, <2>2 DEF EventsRead, TurnInCourse, TurnSettled, ActivePcs
  <1>13. Saved
    BY <1>1 DEF Saved
  <1> QED
    BY <1>4, <1>6, <1>7, <1>8, <1>9, <1>10, <1>11, <1>12, <1>13 DEF ItemsInv

LEMMA NextItems == IInv /\ ItemsInv /\ [Next]_vars => ItemsInv'
  <1> SUFFICES ASSUME IInv, ItemsInv, [Next]_vars PROVE ItemsInv'
    OBVIOUS
  <1>1. CASE StopperSteps
    BY <1>1, StoppersKeepItems
  <1>2. CASE PusherSteps
    BY <1>2, PushersKeepItems
  <1>3. CASE TurnSteps
    BY <1>3, TurnsKeepItems
  <1>4. CASE RunSteps
    BY <1>4, RunStepsKeepItems
  <1>5. CASE UNCHANGED vars
    <2>1. /\ UNCHANGED <<loop, buffer, preemptCtrl, stopCtrl, pusher, turn, captured, runnerBytes,
                         result, store>>
      BY <1>5 DEF vars
    <2>2. Still /\ SameTurns
      BY <2>1, SameUnsent DEF Still, SameMeals, SameTurns
    <2> QED
      BY <2>1, <2>2, ItemsInvParts, StillKeeps, SameTurnsKeep, ItemsInvPartsNext
  <1> QED
    BY <1>1, <1>2, <1>3, <1>4, <1>5, NextByActor

-----------------------------------------------------------------------------
(* The theorems *)

\* Where items are, how they are ordered, what the turns have read of their agents
\* and what is saved, in every run of the agent loop.
THEOREM ItemsInvariant == Spec => []ItemsInv
  <1>1. Spec => [](IInv /\ ItemsInv)
    BY InitIInv, NextIInv, InitItems, NextItems, PTL DEF Spec
  <1> QED
    BY <1>1, PTL

\* The buffer, the hands of run, the turns, the result and the checkpoint hold items
\* of a Push or of the checkpoint, and every variable stays in its type.
THEOREM LoopTypeCorrect == Spec => []TypeOK
  <1>1. IInv /\ ItemsInv => TypeOK
    BY DEF IInv, ItemsInv, TypeOK
  <1> QED
    BY <1>1, LoopInvariant, ItemsInvariant, PTL

LEMMA FollowsInOrder ==
  ASSUME NEW s, Follows(s, result.accepted)
  PROVE  InOrder(s)
  <1> DEFINE a == result.accepted
  <1>1. \A n \in DOMAIN s : Position(s[n]) \in DOMAIN a /\ a[Position(s[n])] = s[n]
    <2> SUFFICES ASSUME NEW n \in DOMAIN s
                 PROVE  Position(s[n]) \in DOMAIN a /\ a[Position(s[n])] = s[n]
      OBVIOUS
    <2>1. \E i \in DOMAIN a : a[i] = s[n]
      BY DEF Follows, Elements
    <2> QED
      BY <2>1 DEF Position
  <1>2. \A m, n \in DOMAIN s, i, j \in DOMAIN a : m < n /\ s[m] = a[i] /\ s[n] = a[j] => i < j
    BY DEF Follows
  <1> QED
    BY <1>1, <1>2 DEF InOrder

\* Items are planned, and handed back at the end, in the order in which they were
\* accepted, whatever PushFront puts back and however often.
THEOREM ItemsKeepOrder == Spec => []OrderKept
  <1>1. ItemsInv => OrderKept
    BY FollowsInOrder DEF ItemsInv, ItemsApart, OrderKept, Queue
  <1> QED
    BY <1>1, ItemsInvariant, PTL

LEMMA ConcatDistinct ==
  ASSUME NEW S, NEW s \in Seq(S), NEW t \in Seq(S), Distinct(s \o t)
  PROVE  Distinct(s) /\ Distinct(t) /\ Elements(s) \cap Elements(t) = {}
  <1> PICK st \in Seq(S) : st = s \o t
    BY ConcatFacts
  <1>1. /\ Len(s) \in Nat
        /\ \A n \in DOMAIN s : n \in Nat /\ n <= Len(s) /\ n \in DOMAIN st /\ st[n] = s[n]
        /\ \A n \in DOMAIN t : n \in Nat \ {0} /\ Len(s) + n \in DOMAIN st
                               /\ st[Len(s) + n] = t[n]
    BY ConcatFacts, SeqFacts
  <1>2. \A m, n \in DOMAIN st : st[m] = st[n] => m = n
    BY DEF Distinct
  <1>3. Distinct(s)
    BY <1>1, <1>2 DEF Distinct
  <1>4. Distinct(t)
    <2> SUFFICES ASSUME NEW m \in DOMAIN t, NEW n \in DOMAIN t, t[m] = t[n] PROVE m = n
      BY DEF Distinct
    <2>1. Len(s) + m = Len(s) + n
      BY <1>1, <1>2
    <2> QED
      BY <1>1, <2>1
  <1>5. ASSUME NEW m \in DOMAIN s, NEW n \in DOMAIN t, s[m] = t[n] PROVE FALSE
    <2>1. m = Len(s) + n
      BY <1>1, <1>2, <1>5
    <2> QED
      BY <1>1, <2>1
  <1>6. Elements(s) \cap Elements(t) = {}
    BY <1>5 DEF Elements
  <1> QED
    BY <1>3, <1>4, <1>6

LEMMA OccursOnce ==
  ASSUME NEW s, Distinct(s), NEW i
  PROVE  Occurs(s, i) = IF i \in Elements(s) THEN 1 ELSE 0
  <1>1. CASE i \in Elements(s)
    <2> PICK n \in DOMAIN s : s[n] = i
      BY <1>1 DEF Elements
    <2>1. {m \in DOMAIN s : s[m] = i} = {n}
      BY DEF Distinct
    <2> QED
      BY <1>1, <2>1, FS_Singleton DEF Occurs
  <1>2. CASE i \notin Elements(s)
    <2>1. {m \in DOMAIN s : s[m] = i} = {}
      BY <1>2 DEF Elements
    <2> QED
      BY <1>2, <2>1, FS_EmptySet DEF Occurs
  <1> QED
    BY <1>1, <1>2

\* An item that is placed is in one place.
LEMMA PlacedOnce ==
  ASSUME SeqsType, ItemsApart, NEW i
  PROVE  Copies(i) = IF Placed(i) THEN 1 ELSE 0
  <1> PICK h \in Seq(AllItems), b \in Seq(AllItems), a \in Seq(AllItems), u \in Seq(AllItems) :
          h = loop.hand /\ b = buffer.buf /\ a = result.accepted /\ u = result.unhandled
    BY DEF SeqsType
  <1> PICK eaters : eaters = {k \in Turns : i \in Elements(turn[k].consumed)}
    OBVIOUS
  <1>1. /\ h \o b \in Seq(AllItems) /\ Elements(h \o b) = Elements(h) \cup Elements(b)
        /\ Follows(h \o b, a) /\ Follows(u, a)
        /\ Elements(h \o b) \cap Elements(u) = {}
    BY ConcatFacts DEF ItemsApart, Queue
  <1>2. Distinct(h \o b) /\ Distinct(u)
    BY <1>1, FollowsDistinct
  <1>3. /\ Distinct(h) /\ Distinct(b) /\ Elements(h) \cap Elements(b) = {}
        /\ Elements(h) \cap Elements(u) = {} /\ Elements(b) \cap Elements(u) = {}
    BY <1>1, <1>2, ConcatDistinct
  <1>4. /\ Occurs(h, i) = IF i \in Elements(h) THEN 1 ELSE 0
        /\ Occurs(b, i) = IF i \in Elements(b) THEN 1 ELSE 0
        /\ Occurs(u, i) = IF i \in Elements(u) THEN 1 ELSE 0
    BY <1>2, <1>3, OccursOnce
  <1>5. \A k \in eaters :
            i \notin Elements(h) /\ i \notin Elements(b) /\ i \notin Elements(u)
    BY <1>1 DEF ItemsApart, Queue
  <1>6. Copies(i) = Occurs(h, i) + Occurs(b, i) + Occurs(u, i) + Cardinality(eaters)
    BY DEF Copies
  <1>7. CASE eaters = {}
    <2>1. Cardinality(eaters) = 0
      BY <1>7, FS_EmptySet
    <2>2. Placed(i) <=> i \in Elements(h) \/ i \in Elements(b) \/ i \in Elements(u)
      BY <1>1, <1>7 DEF Placed, Queue
    <2> QED
      BY <1>3, <1>4, <1>6, <2>1, <2>2
  <1>8. CASE eaters # {}
    <2> PICK k \in eaters : TRUE
      BY <1>8
    <2>1. eaters = {k}
      BY DEF ItemsApart
    <2>2. Cardinality(eaters) = 1
      BY <2>1, FS_Singleton
    <2>3. Placed(i)
      BY DEF Placed
    <2> QED
      BY <1>4, <1>5, <1>6, <2>2, <2>3
  <1> QED
    BY <1>7, <1>8

\* No item is ever in two places, to be handled twice: not by an aborted turn, a
\* resumed one, a preempt or a stop, nor by cleanup.
THEOREM ItemsAreNeverDoubled == Spec => [](\A i : Copies(i) \in {0, 1})
  <1>1. ItemsInv => \A i : Copies(i) \in {0, 1}
    BY PlacedOnce DEF ItemsInv
  <1> QED
    BY <1>1, ItemsInvariant, PTL

\* Unless a stop may wait for an idle loop, items are lost only with the resume of a
\* checkpoint that a stop, or an error, prevents.
THEOREM ItemsAreLostWithAResume ==
  ASSUME NoIdleStops
  PROVE  Spec => [](ResumeForgotten \/ ItemsConserved)
  <1>1. ItemsInv => ResumeForgotten \/ ItemsConserved
    BY PlacedOnce DEF ItemsInv, ItemsConserved, ItemsPlaced
  <1> QED
    BY <1>1, ItemsInvariant, PTL

\* If there is none to resume, every item the loop took charge of is in one place,
\* whatever pushes, preempts, stops and failures do.
THEOREM ItemsAreConserved ==
  ASSUME NoIdleStops, "runner" \notin Stores
  PROVE  Spec => []ItemsConserved
  <1>1. ~ResumeForgotten
    BY DEF ResumeForgotten
  <1>2. ResumeForgotten \/ ItemsConserved => ItemsConserved
    BY <1>1
  <1> QED
    BY <1>2, ItemsAreLostWithAResume, PTL

\* A checkpoint that cleanup saves names every item that is still to be done, if
\* OnAgentEvents reads all events, the Store works and no stop waits for an idle
\* loop.
THEOREM CheckpointsAreComplete ==
  ASSUME NoIdleStops, {"save", "early"} \cap Faults = {}
  PROVE  Spec => []CheckpointComplete
  <1>1. ItemsInv => CheckpointComplete
    <2> SUFFICES ASSUME ItemsInv, loop.pc = "closeStop", store.state \in {"runner", "bare"},
                        ShouldSaveCheckpoint, NEW i \in Elements(result.accepted)
                 PROVE  \/ i \in Elements(store.unhandled) \cup Elements(store.canceled)
                        \/ i \in Elements(buffer.buf)
                        \/ \E k \in Turns :
                              /\ i \in Elements(turn[k].consumed)
                              /\ k = preemptCtrl.turnID =>
                                     turn[k].event \notin {"cancel", "contexts"}
      BY DEF CheckpointComplete
    <2>1. /\ store.canceled = result.interrupted /\ store.unhandled = result.unhandled
          /\ runnerBytes \/ result.interrupted # <<>>
          /\ ItemsPlaced /\ TurnSettled /\ RunHolds /\ SeqsType
      BY DEF ItemsInv, Saved, EventsRead, ShouldSaveCheckpoint
    <2>2. Placed(i)
      BY <2>1 DEF ItemsPlaced, ResumeForgotten
    <2>3. Queue = buffer.buf
      <3>1. loop.hand = <<>>
        BY <2>1 DEF RunHolds, CleanupPcs
      <3> QED
        BY <2>1, <3>1, ConcatFacts DEF SeqsType, Queue
    <2>4. CASE i \in Elements(Queue) \cup Elements(result.unhandled)
      BY <2>1, <2>3, <2>4
    <2>5. ASSUME NEW k \in Turns, i \in Elements(turn[k].consumed), k = preemptCtrl.turnID
          PROVE  i \in Elements(store.canceled) \/ turn[k].event \notin {"cancel", "contexts"}
      <3>1. Notable(k) = {} \/ result.interrupted = turn[k].consumed
        BY <2>1, <2>5 DEF TurnSettled, ActivePcs
      <3> QED
        BY <2>1, <2>5, <3>1 DEF Notable
    <2> QED
      BY <2>2, <2>4, <2>5 DEF Placed
  <1> QED
    BY <1>1, ItemsInvariant, PTL

\* No checkpoint names an item twice, if the one that was loaded does not
\* (CheckpointAssumption): cleanup never saves an interrupted item that is also
\* handed back.
THEOREM CheckpointsNameItemsOnce == Spec => []StoreDistinct
  <1>1. ItemsInv => StoreDistinct
    BY DEF ItemsInv
  <1> QED
    BY <1>1, ItemsInvariant, PTL
=============================================================================
