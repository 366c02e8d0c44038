-------------------------- MODULE SequenceLemmas ---------------------------
(***************************************************************************)
(* Facts about finite sequences that the proofs of both directions of the *)
(* socket bridge rest on: a stream cut in two and joined again, a prefix  *)
(* extended by the next units, and a unit moved from the head of one      *)
(* sequence to the end of another.                                        *)
(***************************************************************************)
EXTENDS Naturals, Sequences, SequenceTheorems, TLAPS

(* Cutting a sequence in two after its n-th element and joining the two  *)
(* halves gives it back; this is what a Read of k records and a partial  *)
(* Write of n records do to the stream.                                   *)
LEMMA SplitSeq ==
    ASSUME NEW S, NEW s \in Seq(S), NEW n \in 0..Len(s)
    PROVE  /\ SubSeq(s, 1, n) \in Seq(S)
           /\ SubSeq(s, n + 1, Len(s)) \in Seq(S)
           /\ Len(SubSeq(s, 1, n)) = n
           /\ Len(SubSeq(s, n + 1, Len(s))) = Len(s) - n
           /\ SubSeq(s, 1, n) \o SubSeq(s, n + 1, Len(s)) = s
<1>1. SubSeq(s, 1, n) \in Seq(S) /\ Len(SubSeq(s, 1, n)) = n
  BY SubSeqProperties
<1>2. SubSeq(s, n + 1, Len(s)) \in Seq(S)
      /\ Len(SubSeq(s, n + 1, Len(s))) = Len(s) - n
  BY SubSeqProperties
<1>3. SubSeq(s, 1, n) \o SubSeq(s, n + 1, Len(s)) = SubSeq(s, 1, Len(s))
  <2>1. Len(s) \in Nat /\ 1 \in 1..Len(s) + 1 /\ n \in 1 - 1..Len(s)
        /\ Len(s) \in n..Len(s)
    BY LenProperties
  <2>2. QED
    BY <2>1, ConcatAdjacentSubSeq
<1>4. QED
  BY <1>1, <1>2, <1>3, SubSeqFull

(* Appending to the second part of a concatenation appends to the whole. *)
LEMMA AppendConcat ==
    ASSUME NEW S, NEW s \in Seq(S), NEW t \in Seq(S), NEW x \in S
    PROVE  s \o Append(t, x) = Append(s \o t, x)
<1>1. s \o Append(t, x) = s \o (t \o <<x>>)
  BY AppendIsConcat
<1>2. Append(s \o t, x) = (s \o t) \o <<x>>
  BY ConcatProperties, AppendIsConcat
<1>3. <<x>> \in Seq(S)
  OBVIOUS
<1>4. QED
  BY <1>1, <1>2, <1>3, ConcatAssociative

(* The first part of a concatenation is a prefix of it. *)
LEMMA PrefixOfConcat ==
    ASSUME NEW S, NEW s \in Seq(S), NEW t \in Seq(S)
    PROVE  /\ Len(s) <= Len(s \o t)
           /\ \A i \in 1..Len(s) : s[i] = (s \o t)[i]
BY ConcatProperties, LenProperties

(* The first part of a concatenation is the prefix of it of its length.  *)
LEMMA ConcatPrefix ==
    ASSUME NEW S, NEW s \in Seq(S), NEW t \in Seq(S)
    PROVE  SubSeq(s \o t, 1, Len(s)) = s
<1>1. s \o t \in Seq(S) /\ Len(s) <= Len(s \o t)
  BY ConcatProperties, LenProperties
<1>2. SubSeq(s \o t, 1, Len(s)) \in Seq(S)
      /\ Len(SubSeq(s \o t, 1, Len(s))) = Len(s)
      /\ \A i \in 1..Len(s) : SubSeq(s \o t, 1, Len(s))[i] = (s \o t)[i]
  BY <1>1, SubSeqProperties, LenProperties
<1>3. \A i \in 1..Len(s) : (s \o t)[i] = s[i]
  BY PrefixOfConcat
<1>4. QED
  BY <1>2, <1>3, SeqEqual


(* A prefix of a prefix of s is a prefix of s. *)
LEMMA PrefixOfPrefix ==
    ASSUME NEW S, NEW s \in Seq(S), NEW r \in 0..Len(s), NEW m \in 0..r
    PROVE  SubSeq(SubSeq(s, 1, r), 1, m) = SubSeq(s, 1, m)
<1>1. SubSeq(s, 1, r) \in Seq(S) /\ Len(SubSeq(s, 1, r)) = r
      /\ \A i \in 1..r : SubSeq(s, 1, r)[i] = s[i]
  BY SubSeqProperties
<1>2. SubSeq(SubSeq(s, 1, r), 1, m) \in Seq(S)
      /\ Len(SubSeq(SubSeq(s, 1, r), 1, m)) = m
      /\ \A i \in 1..m : SubSeq(SubSeq(s, 1, r), 1, m)[i] = s[i]
  BY <1>1, SubSeqProperties
<1>3. SubSeq(s, 1, m) \in Seq(S) /\ Len(SubSeq(s, 1, m)) = m
      /\ \A i \in 1..m : SubSeq(s, 1, m)[i] = s[i]
  BY SubSeqProperties
<1>4. QED
  BY <1>2, <1>3, SeqEqual

(* The prefix of length r followed by the next k units is the prefix of  *)
(* length r + k.                                                          *)
LEMMA ExtendPrefix ==
    ASSUME NEW S, NEW s \in Seq(S), NEW r \in 0..Len(s),
           NEW k \in 0..(Len(s) - r)
    PROVE  SubSeq(s, 1, r) \o SubSeq(s, r + 1, r + k) = SubSeq(s, 1, r + k)
<1>1. 1 \in 1..Len(s) + 1 /\ r \in 1 - 1..Len(s) /\ r + k \in r..Len(s)
  OBVIOUS
<1>2. QED
  BY <1>1, ConcatAdjacentSubSeq

(* A prefix of s is unchanged when s grows. *)
LEMMA PrefixOfAppend ==
    ASSUME NEW S, NEW s \in Seq(S), NEW x \in S, NEW r \in 0..Len(s)
    PROVE  SubSeq(Append(s, x), 1, r) = SubSeq(s, 1, r)
<1>1. Append(s, x) \in Seq(S) /\ Len(Append(s, x)) = Len(s) + 1
      /\ \A i \in 1..Len(s) : Append(s, x)[i] = s[i]
  BY AppendProperties
<1>2. SubSeq(Append(s, x), 1, r) \in Seq(S)
      /\ Len(SubSeq(Append(s, x), 1, r)) = r
      /\ \A i \in 1..r : SubSeq(Append(s, x), 1, r)[i] = s[i]
  BY <1>1, SubSeqProperties
<1>3. SubSeq(s, 1, r) \in Seq(S) /\ Len(SubSeq(s, 1, r)) = r
      /\ \A i \in 1..r : SubSeq(s, 1, r)[i] = s[i]
  BY SubSeqProperties
<1>4. QED
  BY <1>2, <1>3, SeqEqual

(* Moving the head of p to the end of c keeps c \o p. *)
LEMMA HeadToEnd ==
    ASSUME NEW S, NEW c \in Seq(S), NEW p \in Seq(S), p # <<>>
    PROVE  Append(c, Head(p)) \o Tail(p) = c \o p
<1>1. Head(p) \in S /\ Tail(p) \in Seq(S)
  BY HeadTailProperties
<1>2. p = <<Head(p)>> \o Tail(p)
  <2>1. Len(p) >= 1
    BY EmptySeq, LenProperties
  <2>2. SubSeq(p, 1, Len(p)) = <<p[1]>> \o SubSeq(p, 2, Len(p))
    BY <2>1, SubSeqRecursiveFirst
  <2>3. QED
    BY <2>2, SubSeqFull, TailIsSubSeq
<1>3. Append(c, Head(p)) = c \o <<Head(p)>>
  BY <1>1, AppendIsConcat
<1>4. QED
  BY <1>1, <1>2, <1>3, ConcatAssociative

=============================================================================
