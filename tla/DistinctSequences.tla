------------------------- MODULE DistinctSequences -------------------------
(* Facts about what a queue without repetition holds, for the proofs. *)
EXTENDS Integers, Sequences, Functions, TLAPS

(* The empty queue holds nothing. *)
LEMMA EmptyHolds == Range(<<>>) = {} /\ IsInjective(<<>>)
BY DEF Range, IsInjective

(* What a queue holds is what stands at its places. *)
LEMMA RangePlaces ==
  ASSUME NEW S, NEW s \in Seq(S)
  PROVE  /\ \A x : x \in Range(s) <=> \E k \in 1 .. Len(s) : s[k] = x
         /\ IsInjective(s) <=> \A j, k \in 1 .. Len(s) : s[j] = s[k] => j = k
         /\ Range(s) \subseteq S
<1>1. DOMAIN s = 1 .. Len(s) /\ \A k \in 1 .. Len(s) : s[k] \in S
  OBVIOUS
<1> QED
  BY <1>1 DEF Range, IsInjective

(* What appending at the end holds. *)
LEMMA AppendHolds ==
  ASSUME NEW S, NEW s \in Seq(S), NEW x \in S
  PROVE  /\ Append(s, x) \in Seq(S)
         /\ Range(Append(s, x)) = Range(s) \cup {x}
         /\ IsInjective(s) /\ x \notin Range(s) => IsInjective(Append(s, x))
<1>1. /\ Append(s, x) \in Seq(S) /\ Len(s) \in Nat
      /\ Len(Append(s, x)) = Len(s) + 1
      /\ \A k \in 1 .. Len(s) : Append(s, x)[k] = s[k]
      /\ Append(s, x)[Len(s) + 1] = x
  OBVIOUS
<1>2. \A k \in 1 .. Len(s) + 1 : k \in 1 .. Len(s) \/ k = Len(s) + 1
  BY <1>1
<1>3. Range(Append(s, x)) = Range(s) \cup {x}
  <2>1. \A y : y \in Range(Append(s, x)) <=> \E k \in 1 .. Len(s) + 1 : Append(s, x)[k] = y
    <3> DEFINE more == Append(s, x)
    <3>1. more \in Seq(S) /\ Len(more) = Len(s) + 1
      BY <1>1
    <3> HIDE DEF more
    <3>2. \A y : y \in Range(more) <=> \E k \in 1 .. Len(s) + 1 : more[k] = y
      BY <3>1, RangePlaces
    <3> QED
      BY <3>2 DEF more
  <2>2. \A y : y \in Range(s) <=> \E k \in 1 .. Len(s) : s[k] = y
    BY RangePlaces
  <2>3. 1 .. Len(s) \subseteq 1 .. Len(s) + 1 /\ Len(s) + 1 \in 1 .. Len(s) + 1
    BY <1>1
  <2> QED
    BY <1>1, <1>2, <2>1, <2>2, <2>3
<1>4. ASSUME IsInjective(s), x \notin Range(s) PROVE IsInjective(Append(s, x))
  <2>1. \A j, k \in 1 .. Len(s) : s[j] = s[k] => j = k
    BY <1>4, RangePlaces
  <2>2. \A k \in 1 .. Len(s) : s[k] # x
    BY <1>4, RangePlaces
  <2>3. \A j, k \in 1 .. Len(s) + 1 : Append(s, x)[j] = Append(s, x)[k] => j = k
    BY <1>1, <1>2, <2>1, <2>2
  <2> QED
    BY <1>1, <2>3, RangePlaces
<1> QED
  BY <1>1, <1>3, <1>4

(* What the head and the rest of a queue hold. *)
LEMMA TailHolds ==
  ASSUME NEW S, NEW s \in Seq(S), s # <<>>
  PROVE  /\ Head(s) \in S /\ Tail(s) \in Seq(S)
         /\ Range(s) = Range(Tail(s)) \cup {Head(s)}
         /\ IsInjective(s) => Head(s) \notin Range(Tail(s)) /\ IsInjective(Tail(s))
<1>1. /\ Head(s) \in S /\ Tail(s) \in Seq(S) /\ Head(s) = s[1]
      /\ Len(s) \in Nat \ {0} /\ Len(Tail(s)) = Len(s) - 1
      /\ \A k \in 1 .. Len(s) - 1 : Tail(s)[k] = s[k + 1]
  OBVIOUS
<1>2. \A k \in 1 .. Len(s) : k = 1 \/ (k - 1 \in 1 .. Len(s) - 1 /\ (k - 1) + 1 = k)
  BY <1>1
<1>3. \A k \in 1 .. Len(s) - 1 : k + 1 \in 1 .. Len(s) /\ k + 1 # 1
  BY <1>1
<1>4. 1 \in 1 .. Len(s)
  BY <1>1
<1>5. \A y : y \in Range(Tail(s)) <=> \E k \in 1 .. Len(s) - 1 : Tail(s)[k] = y
  <2> DEFINE rest == Tail(s)
  <2>1. rest \in Seq(S) /\ Len(rest) = Len(s) - 1
    BY <1>1
  <2> HIDE DEF rest
  <2>2. \A y : y \in Range(rest) <=> \E k \in 1 .. Len(s) - 1 : rest[k] = y
    BY <2>1, RangePlaces
  <2> QED
    BY <2>2 DEF rest
<1>6. Range(s) = Range(Tail(s)) \cup {Head(s)}
  <2>1. \A y : y \in Range(s) <=> \E k \in 1 .. Len(s) : s[k] = y
    BY RangePlaces
  <2>3. ASSUME NEW y \in Range(s) PROVE y \in Range(Tail(s)) \cup {Head(s)}
    <3>1. PICK k \in 1 .. Len(s) : s[k] = y
      BY <2>1
    <3>2. CASE k = 1
      BY <1>1, <3>1, <3>2
    <3>3. CASE k # 1
      BY <1>1, <1>2, <1>5, <3>1, <3>3
    <3> QED
      BY <3>2, <3>3
  <2>4. ASSUME NEW y \in Range(Tail(s)) \cup {Head(s)} PROVE y \in Range(s)
    BY <1>1, <1>3, <1>4, <1>5, <2>1
  <2> QED
    BY <2>3, <2>4
<1>7. ASSUME IsInjective(s) PROVE Head(s) \notin Range(Tail(s)) /\ IsInjective(Tail(s))
  <2>1. \A j, k \in 1 .. Len(s) : s[j] = s[k] => j = k
    BY <1>7, RangePlaces
  <2>2. \A k \in 1 .. Len(s) - 1 : Tail(s)[k] # Head(s)
    BY <1>1, <1>3, <1>4, <2>1
  <2>3. \A j, k \in 1 .. Len(s) - 1 : Tail(s)[j] = Tail(s)[k] => j = k
    BY <1>1, <1>3, <2>1
  <2>4. IsInjective(Tail(s))
    BY <1>1, <2>3, RangePlaces
  <2>5. Head(s) \notin Range(Tail(s))
    BY <1>5, <2>2
  <2> QED
    BY <2>4, <2>5
<1> QED
  BY <1>1, <1>6, <1>7
=============================================================================
