------------------------ MODULE CaptureStreamProofs ------------------------
(***************************************************************************)
(* Proofs about the event journal and the stream that reads it: the        *)
(* journal keeps its budgets and replays exactly what it should, the       *)
(* frames of a stream show all their number stands for, and the text of    *)
(* an ended answer is whole.                                               *)
(***************************************************************************)
EXTENDS CaptureStream, WellFoundedInduction, SequenceTheorems, TLAPS

-----------------------------------------------------------------------------
(* What the recursive functions of the journal compute.                    *)

(* Induction up to n, with a set for the property. *)
LEMMA UpTo ==
    ASSUME NEW n \in Nat, NEW P, 0 \in P,
           \A k \in 0..n : k < n /\ k \in P => k + 1 \in P
    PROVE  \A k \in 0..n : k \in P
<1> DEFINE S == {k \in 0..n : k \notin P}
           R == OpToRel(<, Nat)
<1> SUFFICES ASSUME S # {} PROVE FALSE
  OBVIOUS
<1>1. IsWellFoundedOn(R, Nat)
  BY NatLessThanWellFounded
<1>2. \A i, j \in Nat : i < j => <<i, j>> \in R
  BY DEF OpToRel
<1>3. S \subseteq Nat
  OBVIOUS
<1> HIDE DEF R
<1>4. PICK k \in S : \A j \in S : ~(<<j, k>> \in R)
  BY <1>1, <1>3, WFMin
<1>5. k # 0 /\ k - 1 \in 0..n /\ k - 1 < k
  OBVIOUS
<1>6. k - 1 \in P
  BY <1>2, <1>3, <1>4, <1>5
<1>7. k - 1 + 1 \in P
  BY <1>5, <1>6
<1>8. k - 1 + 1 = k
  OBVIOUS
<1> QED BY <1>7, <1>8

(* A non-empty set of numbers up to n has a least one. *)
LEMMA LeastNumber ==
    ASSUME NEW n \in Nat, NEW S \in SUBSET (0..n), S # {}
    PROVE  \E k \in S : \A j \in S : k <= j
<1> DEFINE P == {k \in 0..n : \A j \in 0..k : j \notin S}
<1> SUFFICES ASSUME \A k \in S : \E j \in S : j < k PROVE FALSE
  OBVIOUS
<1>1. 0 \in P
  OBVIOUS
<1>2. ASSUME NEW k \in 0..n, k < n, k \in P PROVE k + 1 \in P
  <2>1. \A j \in 0..k : j \notin S
    BY <1>2
  <2>2. k + 1 \notin S
    BY <2>1
  <2>3. \A j \in 0..(k + 1) : j \in 0..k \/ j = k + 1
    OBVIOUS
  <2>4. k + 1 \in 0..n
    BY <1>2
  <2> QED BY <2>1, <2>2, <2>3, <2>4
<1> HIDE DEF P
<1>3. \A k \in 0..n : k < n /\ k \in P => k + 1 \in P
  BY <1>2
<1>4. \A k \in 0..n : k \in P
  BY <1>1, <1>3, UpTo
<1>5. PICK k \in S : TRUE
  OBVIOUS
<1>6. k \in 0..n /\ k \in 0..k
  OBVIOUS
<1> QED BY <1>4, <1>5, <1>6 DEF P

Sized == [sequence : Nat, size : Nat]

(* What a retained event has. *)
LEMMA SizedEvents ==
    ASSUME NEW s \in Seq(Sized)
    PROVE  Len(s) \in Nat /\ \A k \in 1..Len(s) : s[k].size \in Nat /\ s[k].sequence \in Nat
<1>1. \A k \in 1..Len(s) : s[k] \in Sized
  BY ElementOfSeq
<1>2. \A e \in Sized : e.size \in Nat /\ e.sequence \in Nat
  BY DEF Sized
<1> QED BY <1>1, <1>2, LenProperties

(* The recursion of BytesUpTo has a solution. *)
LEMMA BytesExist ==
    ASSUME NEW s \in Seq(Sized)
    PROVE  \E f : f = [k \in 0..Len(s) |-> IF k = 0 THEN 0 ELSE f[k - 1] + s[k].size]
<1> DEFINE Solves(f, m) == /\ f \in [0..m -> Nat]
                           /\ f[0] = 0
                           /\ \A k \in 1..m : f[k] = f[k - 1] + s[k].size
           P == {m \in 0..Len(s) : \E f : Solves(f, m)}
<1>1. Len(s) \in Nat /\ \A k \in 1..Len(s) : s[k].size \in Nat
  BY SizedEvents
<1>2. 0 \in P
  <2>1. Solves([k \in 0..0 |-> 0], 0)
    OBVIOUS
  <2>2. 0 \in 0..Len(s)
    BY <1>1
  <2> HIDE DEF Solves
  <2> QED BY <2>1, <2>2
<1>3. ASSUME NEW m \in 0..Len(s), m < Len(s), m \in P PROVE m + 1 \in P
  <2>1. PICK f : Solves(f, m)
    BY <1>3
  <2> DEFINE g == [k \in 0..(m + 1) |-> IF k = m + 1 THEN f[m] + s[m + 1].size ELSE f[k]]
  <2>2. f[m] \in Nat /\ s[m + 1].size \in Nat
    BY <1>1, <1>3, <2>1
  <2>3. g \in [0..(m + 1) -> Nat]
    BY <1>1, <2>1, <2>2
  <2>4. g[0] = 0
    BY <1>1, <2>1
  <2>5. ASSUME NEW k \in 1..(m + 1) PROVE g[k] = g[k - 1] + s[k].size
    BY <1>1, <2>1
  <2>6. Solves(g, m + 1)
    BY <2>3, <2>4, <2>5
  <2> HIDE DEF Solves, g
  <2> QED BY <2>6, <1>1, <1>3
<1> HIDE DEF P
<1>4. \A k \in 0..Len(s) : k \in P
  BY <1>1, <1>2, <1>3, UpTo
<1>5. PICK f : Solves(f, Len(s))
  <2>1. Len(s) \in P
    BY <1>1, <1>4
  <2> HIDE DEF Solves
  <2> QED BY <2>1 DEF P
<1>6. f = [k \in 0..Len(s) |-> IF k = 0 THEN 0 ELSE f[k - 1] + s[k].size]
  BY <1>1, <1>5
<1> QED BY <1>6

(* The bytes of a prefix: those of the prefix before it and its last event. *)
LEMMA BytesRecursion ==
    ASSUME NEW s \in Seq(Sized)
    PROVE  /\ BytesUpTo(s) \in [0..Len(s) -> Nat]
           /\ BytesUpTo(s)[0] = 0
           /\ \A k \in 1..Len(s) : BytesUpTo(s)[k] = BytesUpTo(s)[k - 1] + s[k].size
<1> DEFINE g == BytesUpTo(s)
<1>1. g = [k \in 0..Len(s) |-> IF k = 0 THEN 0 ELSE g[k - 1] + s[k].size]
  BY BytesExist DEF BytesUpTo
<1>2. Len(s) \in Nat /\ \A k \in 1..Len(s) : s[k].size \in Nat
  BY SizedEvents
<1> HIDE DEF g
<1>3. DOMAIN g = 0..Len(s) /\ g[0] = 0
  BY <1>1, <1>2
<1>4. \A k \in 1..Len(s) : g[k] = g[k - 1] + s[k].size
  BY <1>1, <1>2
<1> DEFINE P == {k \in 0..Len(s) : g[k] \in Nat}
<1>5. 0 \in P
  BY <1>2, <1>3
<1>6. ASSUME NEW k \in 0..Len(s), k < Len(s), k \in P PROVE k + 1 \in P
  BY <1>2, <1>4, <1>6
<1> HIDE DEF P
<1>7. \A k \in 0..Len(s) : k \in P
  BY <1>2, <1>5, <1>6, UpTo
<1>8. \A k \in 0..Len(s) : g[k] \in Nat
  BY <1>7 DEF P
<1>9. g = [k \in 0..Len(s) |-> g[k]]
  BY <1>1
<1>10. g \in [0..Len(s) -> Nat]
  BY <1>8, <1>9
<1> QED BY <1>3, <1>4, <1>10 DEF g
(* Events are counted alike in two sequences that begin alike. *)
LEMMA BytesOfPrefix ==
    ASSUME NEW s \in Seq(Sized), NEW t \in Seq(Sized), NEW n \in Nat,
           n <= Len(s), n <= Len(t), \A i \in 1..n : s[i] = t[i]
    PROVE  \A k \in 0..n : BytesUpTo(s)[k] = BytesUpTo(t)[k]
<1> DEFINE f == BytesUpTo(s)
           g == BytesUpTo(t)
           P == {k \in 0..n : f[k] = g[k]}
<1>1. Len(s) \in Nat /\ Len(t) \in Nat
  BY SizedEvents
<1>2. f[0] = 0 /\ \A k \in 1..Len(s) : f[k] = f[k - 1] + s[k].size
  BY BytesRecursion
<1>3. g[0] = 0 /\ \A k \in 1..Len(t) : g[k] = g[k - 1] + t[k].size
  BY BytesRecursion
<1> HIDE DEF f, g
<1>4. 0 \in P
  BY <1>2, <1>3
<1>5. ASSUME NEW k \in 0..n, k < n, k \in P PROVE k + 1 \in P
  <2>1. k + 1 \in 1..n /\ k + 1 \in 1..Len(s) /\ k + 1 \in 1..Len(t) /\ (k + 1) - 1 = k
    BY <1>1, <1>5
  <2>2. f[k + 1] = f[k] + s[k + 1].size /\ g[k + 1] = g[k] + t[k + 1].size
    BY <1>2, <1>3, <2>1
  <2> QED BY <1>5, <2>1, <2>2
<1> HIDE DEF P
<1>6. \A k \in 0..n : k \in P
  BY <1>4, <1>5, UpTo
<1> QED BY <1>6 DEF P, f, g

(* publish() adds the bytes of the event. *)
LEMMA BytesOfAppend ==
    ASSUME NEW s \in Seq(Sized), NEW e \in Sized
    PROVE  BytesOf(Append(s, e)) = BytesOf(s) + e.size
<1> DEFINE t == Append(s, e)
<1>1. t \in Seq(Sized) /\ Len(s) \in Nat /\ Len(t) = Len(s) + 1 /\ t[Len(t)] = e
      /\ \A i \in 1..Len(s) : s[i] = t[i]
  BY AppendProperties, LenProperties
<1> HIDE DEF t
<1>2. BytesUpTo(t)[Len(t)] = BytesUpTo(t)[Len(t) - 1] + t[Len(t)].size
  BY <1>1, BytesRecursion
<1>3. \A k \in 0..Len(s) : BytesUpTo(s)[k] = BytesUpTo(t)[k]
  BY <1>1, BytesOfPrefix
<1>4. BytesUpTo(s)[Len(s)] = BytesUpTo(t)[Len(t) - 1]
  BY <1>1, <1>3
<1> QED BY <1>1, <1>2, <1>4 DEF BytesOf, t

(* What is left of a sequence when its first k events are gone. *)
LEMMA RestOfSequence ==
    ASSUME NEW S, NEW s \in Seq(S), NEW k \in 0..Len(s)
    PROVE  LET t == SubSeq(s, k + 1, Len(s))
           IN  /\ t \in Seq(S)
               /\ Len(t) = Len(s) - k
               /\ DOMAIN t = 1..(Len(s) - k)
               /\ \A i \in 1..(Len(s) - k) : t[i] = s[k + i]
<1> DEFINE t == SubSeq(s, k + 1, Len(s))
<1>1. Len(s) \in Nat /\ \A i \in 1..Len(s) : s[i] \in S
  BY LenProperties, ElementOfSeq
<1>2. \A i \in (k + 1)..Len(s) : s[i] \in S
  BY <1>1
<1>3. k + 1 \in Int /\ Len(s) \in Int
  BY <1>1
<1>4. /\ t \in Seq(S)
      /\ Len(t) = IF k + 1 <= Len(s) THEN Len(s) - (k + 1) + 1 ELSE 0
      /\ \A i \in 1..(Len(s) - (k + 1) + 1) : t[i] = s[(k + 1) + i - 1]
  BY <1>2, <1>3, SubSeqProperties
<1> HIDE DEF t
<1>5. t \in Seq(S) /\ Len(t) = Len(s) - k
  BY <1>1, <1>4
<1>6. DOMAIN t = 1..(Len(s) - k)
  BY <1>5, LenProperties
<1>7. \A i \in 1..(Len(s) - k) : t[i] = s[k + i]
  BY <1>1, <1>4
<1> QED BY <1>5, <1>6, <1>7 DEF t

(* What _trim leaves has the bytes of all but those of what it pops. *)
LEMMA BytesOfRest ==
    ASSUME NEW s \in Seq(Sized), NEW k \in 0..Len(s)
    PROVE  BytesOf(SubSeq(s, k + 1, Len(s))) = BytesOf(s) - BytesUpTo(s)[k]
<1> DEFINE t == SubSeq(s, k + 1, Len(s))
           f == BytesUpTo(s)
           g == BytesUpTo(t)
           P == {j \in 0..(Len(s) - k) : g[j] = f[k + j] - f[k]}
<1>1. Len(s) \in Nat /\ \A i \in 1..Len(s) : s[i] \in Sized
  BY SizedEvents, ElementOfSeq
<1>2. t \in Seq(Sized) /\ Len(t) = Len(s) - k /\ \A i \in 1..(Len(s) - k) : t[i] = s[k + i]
  BY <1>1, RestOfSequence
<1> HIDE DEF t
<1>3. f \in [0..Len(s) -> Nat] /\ f[0] = 0 /\ \A i \in 1..Len(s) : f[i] = f[i - 1] + s[i].size
  BY BytesRecursion
<1>4. g \in [0..Len(t) -> Nat] /\ g[0] = 0 /\ \A i \in 1..Len(t) : g[i] = g[i - 1] + t[i].size
  BY <1>2, BytesRecursion
<1> HIDE DEF f, g
<1>5. 0 \in P
  BY <1>1, <1>3, <1>4
<1>6. ASSUME NEW j \in 0..(Len(s) - k), j < Len(s) - k, j \in P PROVE j + 1 \in P
  <2>1. j + 1 \in 1..Len(t) /\ k + j + 1 \in 1..Len(s) /\ j + 1 \in 1..(Len(s) - k)
        /\ (j + 1) - 1 = j /\ (k + j + 1) - 1 = k + j /\ k + (j + 1) = k + j + 1
    BY <1>1, <1>2, <1>6
  <2>2. g[j + 1] = g[j] + t[j + 1].size
    BY <1>4, <2>1
  <2>3. f[k + j + 1] = f[k + j] + s[k + j + 1].size
    BY <1>3, <2>1
  <2>4. t[j + 1] = s[k + j + 1]
    BY <1>2, <2>1
  <2> k + j \in 0..Len(s)
    BY <1>1, <1>6
  <2>5. f[k] \in Nat /\ f[k + j] \in Nat /\ g[j] = f[k + j] - f[k]
    BY <1>3, <1>6, <2>1
  <2>6. s[k + j + 1].size \in Nat
    BY SizedEvents, <2>1
  <2>7. g[j + 1] = f[k + (j + 1)] - f[k]
    BY <2>1, <2>2, <2>3, <2>4, <2>5, <2>6
  <2> QED BY <2>1, <2>7, <1>2
<1> HIDE DEF P
<1>7. Len(s) - k \in Nat
  BY <1>1
<1>8. \A j \in 0..(Len(s) - k) : j \in P
  BY <1>5, <1>6, <1>7, UpTo
<1>9. Len(s) - k \in P
  BY <1>7, <1>8
<1>10. g[Len(s) - k] = f[k + (Len(s) - k)] - f[k] /\ k + (Len(s) - k) = Len(s)
  BY <1>9, <1>1 DEF P
<1> QED BY <1>10, <1>2 DEF BytesOf, f, g, t

(* _trim stops, and what is left fits. *)
LEMMA ExcessFits ==
    ASSUME NEW s \in Seq(Sized), NEW bytes
    PROVE  Excess(s, bytes) \in 0..Len(s) /\ Fits(s, bytes, Excess(s, bytes))
<1> DEFINE S == {k \in 0..Len(s) : Fits(s, bytes, k)}
<1>1. Len(s) \in Nat
  BY SizedEvents
<1>2. Len(s) \in S
  BY <1>1 DEF Fits
<1>3. S \in SUBSET (0..Len(s)) /\ S # {}
  BY <1>2
<1>4. \E k \in S : \A j \in S : k <= j
  <2> HIDE DEF S
  <2> QED BY <1>1, <1>3, LeastNumber
<1>5. \E k \in 0..Len(s) : Fits(s, bytes, k) /\ \A j \in 0..Len(s) : j < k => ~Fits(s, bytes, j)
  BY <1>1, <1>4
<1> QED BY <1>5 DEF Excess
(* The recursion of AfterUpTo has a solution. *)
LEMMA AfterExist ==
    ASSUME NEW s \in Seq(Sized), NEW n
    PROVE  \E f : f = [k \in 0..Len(s) |->
                           IF k = 0 THEN <<>>
                           ELSE IF s[k].sequence > n THEN Append(f[k - 1], s[k])
                           ELSE f[k - 1]]
<1> DEFINE More(a, e) == IF e.sequence > n THEN Append(a, e) ELSE a
           Solves(f, m) == /\ f = [k \in 0..m |-> f[k]]
                           /\ f[0] = <<>>
                           /\ \A k \in 1..m : f[k] = More(f[k - 1], s[k])
           P == {m \in 0..Len(s) : \E f : Solves(f, m)}
<1>1. Len(s) \in Nat
  BY SizedEvents
<1> HIDE DEF More
<1>2. 0 \in P
  <2> DEFINE g == [k \in 0..0 |-> <<>>]
  <2>1. Solves(g, 0)
    OBVIOUS
  <2>2. 0 \in 0..Len(s)
    BY <1>1
  <2> HIDE DEF Solves, g
  <2> QED BY <2>1, <2>2
<1>3. ASSUME NEW m \in 0..Len(s), m < Len(s), m \in P PROVE m + 1 \in P
  <2>1. PICK f : Solves(f, m)
    BY <1>3
  <2> DEFINE g == [k \in 0..(m + 1) |-> IF k = m + 1 THEN More(f[m], s[m + 1]) ELSE f[k]]
  <2>3. g = [k \in 0..(m + 1) |-> g[k]]
    OBVIOUS
  <2>4. g[0] = <<>>
    BY <1>1, <2>1
  <2>5. ASSUME NEW k \in 1..(m + 1) PROVE g[k] = More(g[k - 1], s[k])
    BY <1>1, <2>1
  <2>6. Solves(g, m + 1)
    BY <2>3, <2>4, <2>5
  <2> HIDE DEF Solves, g
  <2> QED BY <2>6, <1>1, <1>3
<1> HIDE DEF P
<1>4. \A k \in 0..Len(s) : k \in P
  BY <1>1, <1>2, <1>3, UpTo
<1>5. PICK f : Solves(f, Len(s))
  <2>1. Len(s) \in P
    BY <1>1, <1>4
  <2> HIDE DEF Solves
  <2> QED BY <2>1 DEF P
<1>6. f = [k \in 0..Len(s) |-> IF k = 0 THEN <<>> ELSE More(f[k - 1], s[k])]
  BY <1>1, <1>5
<1> QED BY <1>6 DEF More

(* One event more is added to what was selected, or is not selected. *)
LEMMA AfterRecursion ==
    ASSUME NEW s \in Seq(Sized), NEW n
    PROVE  /\ AfterUpTo(s, n)[0] = <<>>
           /\ \A k \in 1..Len(s) :
                  AfterUpTo(s, n)[k] = IF s[k].sequence > n THEN Append(AfterUpTo(s, n)[k - 1], s[k])
                                       ELSE AfterUpTo(s, n)[k - 1]
<1> DEFINE g == AfterUpTo(s, n)
<1>1. g = [k \in 0..Len(s) |->
               IF k = 0 THEN <<>>
               ELSE IF s[k].sequence > n THEN Append(g[k - 1], s[k])
               ELSE g[k - 1]]
  BY AfterExist DEF AfterUpTo
<1>2. Len(s) \in Nat
  BY SizedEvents
<1> HIDE DEF g
<1>3. g[0] = <<>>
  BY <1>1, <1>2
<1>4. \A k \in 1..Len(s) : g[k] = IF s[k].sequence > n THEN Append(g[k - 1], s[k]) ELSE g[k - 1]
  <2> TAKE k \in 1..Len(s)
  <2>1. k # 0 /\ k \in 0..Len(s)
    BY <1>2
  <2>2. g[k] = IF k = 0 THEN <<>>
               ELSE IF s[k].sequence > n THEN Append(g[k - 1], s[k])
               ELSE g[k - 1]
    BY <1>1, <2>1, Zenon
  <2> QED BY <2>1, <2>2, Zenon
<1> QED BY <1>3, <1>4 DEF g

Increasing(s) == \A i, j \in DOMAIN s : i < j => s[i].sequence < s[j].sequence

(* An event with a higher number comes last. *)
LEMMA IncreasingAppend ==
    ASSUME NEW s \in Seq(Sized), NEW e \in Sized, Increasing(s),
           \A x \in Numbers(s) : x < e.sequence
    PROVE  /\ Increasing(Append(s, e))
           /\ Numbers(Append(s, e)) = Numbers(s) \cup {e.sequence}
<1> DEFINE t == Append(s, e)
<1>1. t \in Seq(Sized) /\ Len(s) \in Nat /\ DOMAIN s = 1..Len(s) /\ DOMAIN t = 1..(Len(s) + 1)
      /\ t[Len(s) + 1] = e /\ \A i \in 1..Len(s) : t[i] = s[i]
  BY AppendProperties, LenProperties
<1> HIDE DEF t
<1>2. \A i \in 1..(Len(s) + 1) : i \in 1..Len(s) \/ i = Len(s) + 1
  BY <1>1
<1>3. \A i \in 1..Len(s) : i < Len(s) + 1 /\ ~(Len(s) + 1 < i) /\ s[i].sequence < e.sequence
  BY <1>1 DEF Numbers
<1>4. Increasing(t)
  <2> SUFFICES ASSUME NEW i \in 1..(Len(s) + 1), NEW j \in 1..(Len(s) + 1), i < j
               PROVE  t[i].sequence < t[j].sequence
    BY <1>1 DEF Increasing
  <2>1. i \in 1..Len(s)
    BY <1>1
  <2>2. CASE j \in 1..Len(s)
    BY <2>1, <2>2, <1>1 DEF Increasing
  <2>3. CASE j = Len(s) + 1
    BY <2>1, <2>3, <1>1, <1>3
  <2> QED BY <1>2, <2>2, <2>3
<1>5. Numbers(t) = Numbers(s) \cup {e.sequence}
  <2>1. \A i \in 1..Len(s) : i \in 1..(Len(s) + 1)
    BY <1>1
  <2>2. Len(s) + 1 \in 1..(Len(s) + 1)
    BY <1>1
  <2> QED BY <1>1, <1>2, <2>1, <2>2 DEF Numbers
<1> QED BY <1>4, <1>5 DEF t

(* What replay() selects: every event with a higher number, in order. *)
LEMMA AfterIsExact ==
    ASSUME NEW s \in Seq(Sized), NEW n \in Nat, Increasing(s)
    PROVE  LET all == AfterUpTo(s, n)[Len(s)]
           IN  /\ all \in Seq(Sized)
               /\ Increasing(all)
               /\ Numbers(all) = {x \in Numbers(s) : x > n}
<1> DEFINE a == AfterUpTo(s, n)
           Upper(k) == {s[i].sequence : i \in {j \in 1..k : s[j].sequence > n}}
           P == {k \in 0..Len(s) : a[k] \in Seq(Sized) /\ Increasing(a[k]) /\ Numbers(a[k]) = Upper(k)}
<1>1. Len(s) \in Nat /\ DOMAIN s = 1..Len(s)
      /\ \A i \in 1..Len(s) : s[i] \in Sized /\ s[i].sequence \in Nat
  BY SizedEvents, ElementOfSeq, LenProperties
<1>2. /\ a[0] = <<>>
      /\ \A k \in 1..Len(s) : a[k] = IF s[k].sequence > n THEN Append(a[k - 1], s[k]) ELSE a[k - 1]
  BY AfterRecursion
<1> HIDE DEF a
<1>3. 0 \in P
  <2>1. <<>> \in Seq(Sized) /\ Increasing(<<>>) /\ Numbers(<<>>) = {}
    BY EmptySeq DEF Increasing, Numbers
  <2>2. Upper(0) = {}
    OBVIOUS
  <2>3. 0 \in 0..Len(s)
    BY <1>1
  <2> HIDE DEF Upper
  <2>4. a[0] \in Seq(Sized) /\ Increasing(a[0]) /\ Numbers(a[0]) = Upper(0)
    BY <1>2, <2>1, <2>2, Zenon
  <2> QED BY <2>3, <2>4, Zenon
<1>4. ASSUME NEW k \in 0..Len(s), k < Len(s), k \in P PROVE k + 1 \in P
  <2>1. k + 1 \in 1..Len(s) /\ k + 1 \in 0..Len(s) /\ (k + 1) - 1 = k
    BY <1>1, <1>4
  <2>2. s[k + 1] \in Sized /\ s[k + 1].sequence \in Nat
    BY <1>1, <2>1
  <2>3. \A i \in 1..(k + 1) : i \in 1..k \/ i = k + 1
    BY <2>1
  <2>4. 1..k \subseteq 1..(k + 1) /\ k + 1 \in 1..(k + 1)
    BY <1>1
  <2>5. a[k] \in Seq(Sized) /\ Increasing(a[k]) /\ Numbers(a[k]) = Upper(k)
    BY <1>4
  <2>6. CASE s[k + 1].sequence > n
    <3>1. a[k + 1] = Append(a[k], s[k + 1])
      BY <1>2, <2>1, <2>6
    <3>2. \A i \in 1..k : s[i].sequence < s[k + 1].sequence
      BY <1>1, <2>1, <2>4 DEF Increasing
    <3>3. \A x \in Numbers(a[k]) : x < s[k + 1].sequence
      BY <3>2, <2>5
    <3>4. Upper(k + 1) = Upper(k) \cup {s[k + 1].sequence}
      BY <2>3, <2>4, <2>6
    <3> HIDE DEF Upper
    <3>5. Increasing(a[k + 1]) /\ Numbers(a[k + 1]) = Upper(k + 1)
      BY <2>2, <2>5, <3>1, <3>3, <3>4, IncreasingAppend
    <3>6. a[k + 1] \in Seq(Sized)
      BY <2>2, <2>5, <3>1, AppendProperties
    <3> QED BY <2>1, <3>5, <3>6
  <2>7. CASE ~(s[k + 1].sequence > n)
    <3>1. a[k + 1] = a[k]
      BY <1>2, <2>1, <2>7
    <3>2. Upper(k + 1) = Upper(k)
      BY <2>3, <2>4, <2>7
    <3> HIDE DEF Upper
    <3> QED BY <2>1, <2>5, <3>1, <3>2
  <2> QED BY <2>6, <2>7
<1> HIDE DEF P
<1>5. \A k \in 0..Len(s) : k \in P
  BY <1>1, <1>3, <1>4, UpTo
<1>6. Len(s) \in P
  BY <1>1, <1>5
<1>7. Upper(Len(s)) = {x \in Numbers(s) : x > n}
  BY <1>1 DEF Numbers
<1> HIDE DEF Upper
<1> QED BY <1>6, <1>7 DEF P, a
-----------------------------------------------------------------------------
(* The journal.                                                            *)

(* What is retained: the last events that were not skipped, in order.      *)
JournalShape ==
    /\ Increasing(events)
    /\ Numbers(events) \subseteq 1..sequence
    /\ skipped \subseteq 1..sequence
    /\ Numbers(events) \cap skipped = {}
    /\ events # <<>> => (events[1].sequence)..sequence \subseteq Numbers(events) \cup skipped

JournalInv == TypeOK /\ BudgetKept /\ JournalShape

(* What the journal retains has a number and a size. *)
LEMMA JournalEventsAreSized ==
    /\ JournalEvent \subseteq Sized
    /\ Seq(JournalEvent) \subseteq Seq(Sized)
<1>1. JournalEvent \subseteq Sized
  <2>1. 1..MaxSequence \subseteq Nat /\ Sizes \subseteq Nat
    BY SizesArePositive, BoundsAreNatural
  <2> QED BY <2>1 DEF JournalEvent, Sized
<1> QED BY <1>1, SeqMonotonic

(* An event that is kept costs its bytes, and _trim gives back those of    *)
(* what it pops.                                                           *)
LEMMA RetainKeepsBudget ==
    ASSUME NEW e \in JournalEvent, events \in Seq(JournalEvent), total_bytes = BytesOf(events), Retain(e)
    PROVE  events' \in Seq(JournalEvent) /\ total_bytes' \in Nat /\ BudgetKept'
<1> DEFINE all == Append(events, e)
           k == Excess(all, total_bytes + e.size)
<1>1. all \in Seq(JournalEvent) /\ all \in Seq(Sized) /\ e \in Sized /\ events \in Seq(Sized) /\ Len(all) \in Nat
  BY JournalEventsAreSized, AppendProperties
<1>2. BytesOf(all) = total_bytes + e.size
  BY <1>1, BytesOfAppend
<1>3. /\ events' = SubSeq(all, k + 1, Len(all))
      /\ total_bytes' = total_bytes + e.size - BytesUpTo(all)[k]
  BY Zenon DEF Retain
<1>4. k \in 0..Len(all) /\ Fits(all, BytesOf(all), k)
  <2> HIDE DEF all
  <2> QED BY <1>1, <1>2, ExcessFits
<1> HIDE DEF all, k
<1>7. BytesUpTo(all) \in [0..Len(all) -> Nat]
  BY <1>1, BytesRecursion
<1>10. total_bytes' = BytesOf(all) - BytesUpTo(all)[k]
  <2>1. e.size \in Nat /\ BytesOf(all) \in Nat
    <3>1. \A x \in Sized : x.size \in Nat
      BY DEF Sized
    <3>2. Len(all) \in 0..Len(all)
      BY <1>1
    <3> QED BY <1>1, <1>7, <3>1, <3>2 DEF BytesOf
  <2>2. total_bytes \in Nat
    <3>1. Len(events) \in Nat /\ BytesUpTo(events) \in [0..Len(events) -> Nat]
      BY <1>1, LenProperties, BytesRecursion
    <3> QED BY <3>1 DEF BytesOf
  <2>3. BytesUpTo(all)[k] \in Nat
    BY <1>4, <1>7
  <2> QED BY <1>2, <1>3, <2>1, <2>2, <2>3
<1>5. total_bytes' = BytesOf(events')
  BY <1>1, <1>3, <1>4, <1>10, BytesOfRest
<1>6. events' \in Seq(JournalEvent) /\ Len(events') = Len(all) - k
  BY <1>1, <1>3, <1>4, RestOfSequence
<1>8. total_bytes' <= MaxBytes /\ Len(events') <= MaxEvents
  <2>1. CASE k = Len(all)
    BY <1>1, <1>6, <1>7, <1>10, <2>1, LimitsArePositive DEF BytesOf
  <2>2. CASE Len(all) - k <= MaxEvents /\ BytesOf(all) - BytesUpTo(all)[k] <= MaxBytes
    BY <1>6, <1>10, <2>2
  <2> QED BY <1>4, <2>1, <2>2 DEF Fits
<1>9. total_bytes' \in Nat
  <2>1. events' \in Seq(Sized) /\ Len(events') \in Nat
    BY <1>6, JournalEventsAreSized, LenProperties
  <2>2. BytesUpTo(events') \in [0..Len(events') -> Nat]
    BY <2>1, BytesRecursion
  <2> QED BY <1>5, <2>1, <2>2 DEF BytesOf
<1> QED BY <1>5, <1>6, <1>8, <1>9 DEF BudgetKept
(* The new event comes last and the oldest go: what is left still has all  *)
(* numbers from its first one on that were not skipped.                    *)
LEMMA RetainKeepsShape ==
    ASSUME NEW e \in JournalEvent, TypeOK, JournalShape, Retain(e),
           e.sequence = sequence + 1, sequence' = sequence + 1
    PROVE  JournalShape'
<1> DEFINE all == Append(events, e)
           k == Excess(all, total_bytes + e.size)
           L == Len(events)
<1>1. events \in Seq(JournalEvent) /\ events \in Seq(Sized) /\ e \in Sized /\ L \in Nat /\ DOMAIN events = 1..L
  BY JournalEventsAreSized, LenProperties DEF TypeOK
<1>2. all \in Seq(JournalEvent) /\ all \in Seq(Sized) /\ Len(all) = L + 1 /\ DOMAIN all = 1..(L + 1)
      /\ all[L + 1] = e /\ \A i \in 1..L : all[i] = events[i]
  BY <1>1, JournalEventsAreSized, AppendProperties, LenProperties
<1>3. events' = SubSeq(all, k + 1, Len(all)) /\ skipped' = skipped
  BY Zenon DEF Retain
<1>4. k \in 0..Len(all)
  <2> HIDE DEF all
  <2> QED BY <1>2, ExcessFits
<1>5. sequence \in Nat /\ \A i \in 1..(L + 1) : all[i].sequence \in Nat
  <2> HIDE DEF all
  <2> QED BY <1>1, <1>2, BoundsAreNatural, SizedEvents DEF TypeOK
<1>6. Increasing(all) /\ Numbers(all) = Numbers(events) \cup {sequence + 1}
  <2>1. \A x \in Numbers(events) : x < e.sequence
    BY <1>5 DEF JournalShape
  <2> QED BY <1>1, <2>1, IncreasingAppend DEF JournalShape
<1> HIDE DEF all, k
<1> DEFINE t == events'
<1>7. t \in Seq(JournalEvent) /\ Len(t) = L + 1 - k /\ DOMAIN t = 1..(L + 1 - k)
      /\ \A i \in 1..(L + 1 - k) : t[i] = all[k + i]
  BY <1>2, <1>3, <1>4, RestOfSequence
<1> HIDE DEF t
<1>8. \A i \in 1..(L + 1 - k) : k + i \in 1..(L + 1)
  BY <1>1, <1>2, <1>4
<1>9. Increasing(t)
  <2> SUFFICES ASSUME NEW i \in 1..(L + 1 - k), NEW j \in 1..(L + 1 - k), i < j
               PROVE  t[i].sequence < t[j].sequence
    BY <1>7 DEF Increasing
  <2>1. k + i < k + j /\ k + i \in 1..(L + 1) /\ k + j \in 1..(L + 1)
    BY <1>8, <1>1, <1>2, <1>4
  <2>2. all[k + i].sequence < all[k + j].sequence
    BY <1>2, <1>6, <2>1 DEF Increasing
  <2> QED BY <1>7, <2>2
<1>10. Numbers(t) \subseteq Numbers(all)
  BY <1>2, <1>7, <1>8 DEF Numbers
<1>11. Numbers(t) \subseteq 1..(sequence + 1) /\ skipped \subseteq 1..(sequence + 1)
       /\ Numbers(t) \cap skipped = {}
  <2>1. Numbers(events) \subseteq 1..sequence /\ skipped \subseteq 1..sequence /\ Numbers(events) \cap skipped = {}
    BY DEF JournalShape
  <2>2. \A x \in 1..sequence : x \in 1..(sequence + 1) /\ x # sequence + 1
    BY <1>5
  <2>3. sequence + 1 \in 1..(sequence + 1)
    BY <1>5
  <2> QED BY <1>6, <1>10, <2>1, <2>2, <2>3
<1>12. ASSUME t # <<>>, NEW x \in (t[1].sequence)..(sequence + 1)
       PROVE  x \in Numbers(t) \cup skipped
  <2>1. 1 \in 1..(L + 1 - k) /\ k + 1 \in 1..(L + 1) /\ k \in 0..L
    <3>1. Len(t) # 0
      BY <1>7, <1>12, EmptySeq
    <3> QED BY <3>1, <1>1, <1>2, <1>4, <1>7
  <2>2. t[1] = all[k + 1] /\ all[k + 1].sequence \in Nat
    BY <1>5, <1>7, <2>1
  <2>3. x \in Nat /\ all[k + 1].sequence <= x /\ x <= sequence + 1
    BY <1>5, <1>12, <2>2
  <2>4. ASSUME NEW i \in 1..(L + 1), all[i].sequence = x PROVE x \in Numbers(t)
    <3>1. ~(i < k + 1)
      <4> SUFFICES ASSUME i < k + 1 PROVE FALSE
        OBVIOUS
      <4>1. all[i].sequence < all[k + 1].sequence
        BY <1>2, <1>6, <2>1 DEF Increasing
      <4> QED BY <1>5, <2>1, <2>2, <2>3, <2>4, <4>1
    <3>2. i - k \in 1..(L + 1 - k) /\ k + (i - k) = i
      BY <1>1, <2>1, <3>1
    <3>3. t[i - k] = all[i]
      BY <1>7, <3>2
    <3> QED BY <1>7, <2>4, <3>2, <3>3 DEF Numbers
  <2>5. CASE x = sequence + 1
    <3>1. all[L + 1].sequence = x /\ L + 1 \in 1..(L + 1)
      BY <1>1, <1>2, <2>5
    <3> QED BY <2>4, <3>1
  <2>6. CASE x # sequence + 1
    <3>1. x <= sequence /\ all[k + 1].sequence # sequence + 1
      BY <1>5, <2>2, <2>3, <2>6
    <3>2. k + 1 \in 1..L
      BY <1>1, <1>2, <2>1, <3>1
    <3>3. events # <<>> /\ 1 \in 1..L /\ 1 <= k + 1
      BY <1>1, <3>2, EmptySeq
    <3>4. events[1].sequence <= events[k + 1].sequence
      <4>1. events[1].sequence \in Nat /\ events[k + 1].sequence \in Nat
        BY <1>1, <3>2, <3>3, SizedEvents
      <4>2. CASE 1 = k + 1
        BY <4>1, <4>2
      <4>3. CASE 1 < k + 1
        BY <1>1, <3>2, <3>3, <4>1, <4>3 DEF JournalShape, Increasing
      <4> QED BY <3>2, <3>3, <4>2, <4>3
    <3>5. events[1].sequence \in Nat /\ events[1].sequence <= x
      <4>1. events[1].sequence \in Nat /\ events[k + 1].sequence \in Nat
        BY <1>1, <3>2, <3>3, SizedEvents
      <4>2. events[k + 1].sequence = all[k + 1].sequence
        BY <1>2, <3>2
      <4> QED BY <2>3, <3>4, <4>1, <4>2
    <3>6. x \in (events[1].sequence)..sequence
      BY <1>5, <2>3, <3>1, <3>5
    <3>7. x \in Numbers(events) \cup skipped
      BY <3>3, <3>6 DEF JournalShape
    <3>8. ASSUME x \in Numbers(events) PROVE x \in Numbers(t)
      <4>1. PICK i \in 1..L : events[i].sequence = x
        BY <1>1, <3>8 DEF Numbers
      <4>2. i \in 1..(L + 1) /\ all[i].sequence = x
        BY <1>1, <1>2, <4>1
      <4> QED BY <2>4, <4>2
    <3> QED BY <3>7, <3>8
  <2> QED BY <2>5, <2>6
<1> QED BY <1>3, <1>9, <1>11, <1>12 DEF JournalShape, Numbers, Increasing, t
(* A new journal is empty. *)
LEMMA EmptyJournal ==
    ASSUME events = <<>>, total_bytes = 0, skipped = {}, sequence = 0
    PROVE  events \in Seq(JournalEvent) /\ BudgetKept /\ JournalShape
<1>1. <<>> \in Seq(JournalEvent) /\ <<>> \in Seq(Sized) /\ Len(<<>>) = 0
  BY EmptySeq
<1>2. BytesOf(<<>>) = 0
  BY <1>1, BytesRecursion DEF BytesOf
<1>3. BudgetKept
  BY <1>1, <1>2, LimitsArePositive DEF BudgetKept
<1>4. Increasing(<<>>) /\ Numbers(<<>>) = {}
  BY DEF Increasing, Numbers
<1>5. JournalShape
  BY <1>4 DEF JournalShape
<1> QED BY <1>1, <1>3, <1>5

(* The journal is in order at the start ... *)
LEMMA JournalStarts == ASSUME Init PROVE JournalInv
<1>1. events \in Seq(JournalEvent) /\ BudgetKept /\ JournalShape
  BY EmptyJournal DEF Init
<1>2. TypeOK
  BY <1>1, BoundsAreNatural DEF Init, TypeOK
<1> QED BY <1>1, <1>2 DEF JournalInv

(* ... and an event, kept or skipped, leaves it in order ... *)
LEMMA PublishKeepsJournal ==
    ASSUME JournalInv, NEW size \in Sizes, NEW replayable \in BOOLEAN, Publish(size, replayable)
    PROVE  JournalInv'
<1> DEFINE e == [sequence |-> sequence + 1, size |-> size]
<1> USE DEF JournalInv
<1>1. sequence \in Nat /\ sequence + 1 \in 1..MaxSequence /\ sequence' = sequence + 1 /\ epoch' = epoch
      /\ sequence' \in 0..MaxSequence
  BY BoundsAreNatural DEF Publish, TypeOK
<1>2. CASE replayable /\ size <= MaxBytes
  <2>1. Retain(e)
    BY <1>2 DEF Publish
  <2>2. e \in JournalEvent /\ e.sequence = sequence + 1
    BY <1>1 DEF JournalEvent
  <2> HIDE DEF e
  <2>3. events' \in Seq(JournalEvent) /\ total_bytes' \in Nat /\ BudgetKept'
    BY <2>1, <2>2, RetainKeepsBudget DEF TypeOK, BudgetKept
  <2>4. JournalShape'
    BY <1>1, <2>1, <2>2, RetainKeepsShape
  <2>5. skipped' = skipped
    BY <2>1, Zenon DEF Retain
  <2> QED BY <1>1, <2>3, <2>4, <2>5 DEF TypeOK
<1>3. CASE ~(replayable /\ size <= MaxBytes)
  <2>1. events' = events /\ total_bytes' = total_bytes /\ skipped' = skipped \cup {sequence + 1}
    BY <1>3 DEF Publish
  <2>2. TypeOK' /\ BudgetKept'
    BY <1>1, <2>1 DEF TypeOK, BudgetKept
  <2>3. /\ Numbers(events) \subseteq 1..(sequence + 1)
        /\ skipped' \subseteq 1..(sequence + 1)
        /\ Numbers(events) \cap skipped' = {}
    <3>1. 1..sequence \subseteq 1..(sequence + 1) /\ sequence + 1 \notin 1..sequence /\ sequence + 1 \in 1..(sequence + 1)
      BY <1>1
    <3> QED BY <2>1, <3>1 DEF JournalShape
  <2>4. ASSUME events # <<>>, NEW x \in (events[1].sequence)..(sequence + 1)
        PROVE  x \in Numbers(events) \cup skipped'
    <3>1. events[1].sequence \in Nat
      <4>1. events \in Seq(Sized)
        BY JournalEventsAreSized DEF TypeOK
      <4>2. 1 \in 1..Len(events)
        BY <2>4, <4>1, EmptySeq
      <4> QED BY <4>1, <4>2, SizedEvents
    <3>2. x = sequence + 1 \/ x \in (events[1].sequence)..sequence
      BY <1>1, <3>1
    <3> QED BY <2>1, <2>4, <3>2 DEF JournalShape
  <2>5. JournalShape'
    BY <1>1, <2>1, <2>3, <2>4 DEF JournalShape, Numbers, Increasing
  <2> QED BY <2>2, <2>5
<1> QED BY <1>2, <1>3

(* ... and so does a new one. *)
LEMMA RestartKeepsJournal == ASSUME JournalInv, Restart PROVE JournalInv'
<1>1. events' = <<>> /\ total_bytes' = 0 /\ skipped' = {} /\ sequence' = 0
  BY DEF Restart
<1>2. (events \in Seq(JournalEvent))' /\ BudgetKept' /\ JournalShape'
  <2>1. <<>> \in Seq(JournalEvent) /\ <<>> \in Seq(Sized) /\ Len(<<>>) = 0
    BY EmptySeq
  <2>2. BytesOf(<<>>) = 0
    BY <2>1, BytesRecursion DEF BytesOf
  <2>3. BudgetKept'
    BY <1>1, <2>1, <2>2, LimitsArePositive DEF BudgetKept
  <2>4. Increasing(<<>>) /\ Numbers(<<>>) = {}
    BY DEF Increasing, Numbers
  <2>5. JournalShape'
    BY <1>1, <2>4 DEF JournalShape
  <2> QED BY <1>1, <2>1, <2>3, <2>5
<1>3. TypeOK'
  BY <1>1, <1>2, BoundsAreNatural DEF Restart, TypeOK, JournalInv
<1> QED BY <1>2, <1>3 DEF JournalInv

(* Every step of the journal keeps it in order. *)
LEMMA JournalStays == ASSUME JournalInv, [Next]_vars PROVE JournalInv'
<1>1. CASE Next
  BY <1>1, PublishKeepsJournal, RestartKeepsJournal DEF Next
<1>2. CASE UNCHANGED vars
  BY <1>2 DEF vars, JournalInv, TypeOK, BudgetKept, JournalShape, Numbers, Increasing, BytesOf
<1> QED BY <1>1, <1>2

(* What the shape of the journal means for a browser that resumes. *)
LEMMA ShapeMakesReplayExact == ASSUME JournalInv PROVE ReplayIsExact
<1> USE DEF JournalInv
<1> SUFFICES ASSUME NEW n \in 0..sequence
             PROVE  LET cursor == [epoch |-> epoch, sequence |-> n]
                        replayed == ReplayEvents(cursor)
                    IN  /\ ReplayStatus(cursor) = "replay" =>
                               /\ Numbers(replayed) = ((n + 1)..sequence) \ skipped
                               /\ \A i, j \in DOMAIN replayed :
                                      i < j => replayed[i].sequence < replayed[j].sequence
                        /\ ReplayStatus(cursor) = "gap" =>
                               \E m \in (n + 1)..sequence : m \notin Numbers(events)
  BY DEF ReplayIsExact
<1> DEFINE cursor == [epoch |-> epoch, sequence |-> n]
           replayed == ReplayEvents(cursor)
<1>1. events \in Seq(Sized) /\ sequence \in Nat /\ n \in Nat /\ epoch \in Nat /\ DOMAIN events = 1..Len(events)
  BY JournalEventsAreSized, LenProperties, BoundsAreNatural DEF TypeOK
<1>2. cursor.epoch = epoch /\ cursor.sequence = n /\ cursor # NoCursor
  BY <1>1 DEF NoCursor
<1> HIDE DEF cursor
<1>3. ReplayStatus(cursor) = IF n = sequence THEN "replay"
                             ELSE IF events = <<>> \/ n < events[1].sequence - 1 THEN "gap"
                             ELSE "replay"
  BY <1>1, <1>2 DEF ReplayStatus
<1>4. ASSUME ReplayStatus(cursor) = "replay"
      PROVE  Numbers(replayed) = ((n + 1)..sequence) \ skipped /\ Increasing(replayed)
  <2>1. replayed = AfterUpTo(events, n)[Len(events)]
    BY <1>2, <1>4 DEF ReplayEvents
  <2> HIDE DEF replayed
  <2>2. Increasing(replayed) /\ Numbers(replayed) = {x \in Numbers(events) : x > n}
    BY <1>1, <2>1, AfterIsExact DEF JournalShape
  <2>3. ASSUME NEW x \in Numbers(events), x > n PROVE x \in ((n + 1)..sequence) \ skipped
    BY <1>1, <2>3 DEF JournalShape
  <2>4. ASSUME NEW x \in ((n + 1)..sequence) \ skipped PROVE x \in Numbers(events) /\ x > n
    <3>1. n # sequence /\ x \in Nat /\ x > n
      BY <1>1
    <3>2. events # <<>> /\ ~(n < events[1].sequence - 1)
      BY <1>3, <1>4, <3>1
    <3>3. events[1].sequence \in Nat
      <4>1. 1 \in 1..Len(events)
        BY <1>1, <3>2, EmptySeq
      <4> QED BY <1>1, <4>1, SizedEvents
    <3>4. x \in (events[1].sequence)..sequence
      BY <1>1, <3>1, <3>2, <3>3
    <3> QED BY <3>1, <3>2, <3>4 DEF JournalShape
  <2> QED BY <2>2, <2>3, <2>4
<1>5. ASSUME ReplayStatus(cursor) = "gap" PROVE \E m \in (n + 1)..sequence : m \notin Numbers(events)
  <2>1. n # sequence /\ (events = <<>> \/ n < events[1].sequence - 1)
    BY <1>3, <1>5
  <2>2. n + 1 \in (n + 1)..sequence
    BY <1>1, <2>1
  <2>3. n + 1 \notin Numbers(events)
    <3> SUFFICES ASSUME NEW i \in 1..Len(events), events[i].sequence = n + 1 PROVE FALSE
      BY <1>1 DEF Numbers
    <3>1. events # <<>> /\ Len(events) \in Nat /\ 1 \in 1..Len(events)
      BY <1>1, EmptySeq
    <3>2. events[1].sequence \in Nat /\ events[1].sequence <= events[i].sequence
      <4>1. events[1].sequence \in Nat /\ events[i].sequence \in Nat
        BY <1>1, <3>1, SizedEvents
      <4>2. CASE i = 1
        BY <4>1, <4>2
      <4>3. CASE 1 < i
        BY <1>1, <3>1, <4>1, <4>3 DEF JournalShape, Increasing
      <4> QED BY <3>1, <4>1, <4>2, <4>3
    <3> QED BY <1>1, <2>1, <3>1, <3>2
  <2> QED BY <2>2, <2>3
<1> QED BY <1>4, <1>5 DEF Increasing, cursor

(* The running byte count of the journal is the size of what it retains,   *)
(* and both budgets hold after any sequence of publish().                  *)
THEOREM JournalKeepsItsBudget == Spec => []BudgetKept
<1>1. Init => JournalInv
  BY JournalStarts
<1>2. JournalInv /\ [Next]_vars => JournalInv'
  BY JournalStays
<1>3. JournalInv => BudgetKept
  BY DEF JournalInv
<1> QED BY <1>1, <1>2, <1>3, PTL DEF Spec

(* replay() answers a browser with exactly the events it has missed, and   *)
(* says "gap" only when one of them is gone.                               *)
THEOREM JournalReplaysExactly == Spec => []ReplayIsExact
<1>1. Init => JournalInv
  BY JournalStarts
<1>2. JournalInv /\ [Next]_vars => JournalInv'
  BY JournalStays
<1>3. JournalInv => ReplayIsExact
  BY ShapeMakesReplayExact
<1> QED BY <1>1, <1>2, <1>3, PTL DEF Spec
-----------------------------------------------------------------------------
(* Types of the stream and of what it is between.                          *)

Texts == Seq(Nat)
Captures == [text : Texts, final : BOOLEAN, running : BOOLEAN, revision : Nat]
Ids == [epoch : Int, sequence : Int]
PhaseNames == {"idle", "turn", "answer", "answered", "over"}
Kinds == {"turn/started", "item/started", "delta", "item/completed", "turn/completed"}
NoticeSet == [kind : Kinds, text : Texts]
Frames == [type : {"state"}, id : Ids] \cup [type : {"capture"}, id : Ids, capture : Captures]
WebStreams ==
    [step : {"none"}]
    \cup [step : {"waits"}, cursor : Ids]
    \cup [step : {"reads"}, cursor : Ids, id : Ids]
    \cup [step : {"writes"}, id : Ids, capture : Captures]
TerminalStreams ==
    [step : {"none"}]
    \cup [step : {"waits", "looks"}, running : BOOLEAN, wrote : Captures]
Paintings == [waits : {FALSE}] \cup [waits : {TRUE}, capture : Captures]
Browsers == [run : {"starting", "open", "hidden"}, last : Ids, shown : Captures, paint : Paintings]
Refreshes ==
    [step : {"none"}]
    \cup [step : {"asked"}, safety : BOOLEAN, moved : BOOLEAN, again : BOOLEAN]
    \cup [step : {"looked"}, safety : BOOLEAN, moved : BOOLEAN, again : BOOLEAN, running : BOOLEAN]
    \cup [step : {"read"}, safety : BOOLEAN, moved : BOOLEAN, again : BOOLEAN, capture : Captures]

SourceTypes ==
    /\ worker \in [phase : PhaseNames, text : Texts]
    /\ link \in {"down", "joining", "up"}
    /\ answer \in [phase : PhaseNames \cup {"none"}, text : Texts]
    /\ queue \in Seq(NoticeSet)
ActorTypes == actor \in Captures /\ batch \in BOOLEAN /\ said \in Seq(Nat) /\ late \in BOOLEAN
StreamTypes ==
    /\ backend = "web" => stream \in WebStreams
    /\ backend = "terminal" => stream \in TerminalStreams
    /\ wire \in Seq(Frames)
ScreenTypes == browser \in Browsers /\ refresh \in Refreshes
KeptTypes == backend \in {"web", "terminal"} /\ watched \in BOOLEAN

Types == SourceTypes /\ ActorTypes /\ StreamTypes /\ ScreenTypes /\ KeptTypes

(* A capture shows all that a number of this epoch stands for. *)
Shows(capture, id) == id.sequence > 0 => capture.revision >= said[id.sequence]

Covered(f) ==
    /\ f.id.epoch <= epoch
    /\ f.id.epoch = epoch => f.id.sequence <= sequence /\ Shows(f.capture, f.id)

(* The stream takes the number first and the capture then; what the actor  *)
(* had published by the number is in the capture, as its revision only     *)
(* grows.  A frame of an earlier Owner has an earlier epoch.               *)
CoverInv ==
    /\ Len(said) = sequence
    /\ \A i \in 1..sequence : said[i] <= actor.revision
    /\ stream.step \in {"reads", "writes"} => stream.id.epoch = epoch /\ stream.id.sequence \in 0..sequence
    /\ stream.step = "writes" => Shows(stream.capture, stream.id)
    /\ \A i \in DOMAIN wire : wire[i].type = "capture" => Covered(wire[i])

HasEnd(q) == \E i \in DOMAIN q : q[i].kind = "item/completed"
EndFollows(q) ==
    \A i \in DOMAIN q : q[i].kind \in {"item/started", "delta"} =>
        \E j \in DOMAIN q : i < j /\ q[j].kind = "item/completed"

(* Whatever tells of the end of the answer has the whole of it, and what   *)
(* tells of an unfinished answer has its end behind it.                    *)
EndInv ==
    /\ link = "down" => queue = <<>>
    /\ backend = "terminal" => link = "down"
    /\ \A i \in DOMAIN queue : queue[i].kind = "item/completed" => AnswerEnded /\ queue[i].text = worker.text
    /\ AnswerEnded => EndFollows(queue)
    /\ answer.phase \in {"answered", "over"} => AnswerEnded /\ answer.text = worker.text
    /\ FinalTextIsWhole
(* What a step leaves alone keeps its type. *)
LEMMA UnchangedTypes ==
    ASSUME Types
    PROVE  /\ UNCHANGED sources => SourceTypes'
           /\ UNCHANGED projection => ActorTypes'
           /\ UNCHANGED <<kept, stream, wire>> => StreamTypes'
           /\ UNCHANGED screen => ScreenTypes'
           /\ UNCHANGED kept => KeptTypes'
BY DEF Types, sources, projection, screen, kept, SourceTypes, ActorTypes, StreamTypes, ScreenTypes, KeptTypes

(* The phases of a turn, and what Codex says when each begins. *)
LEMMA PhasesInOrder ==
    /\ Follows("idle") = "turn" /\ Follows("turn") = "answer"
    /\ Follows("answer") = "answered" /\ Follows("answered") = "over"
    /\ Notices["turn"] = "turn/started" /\ Notices["answer"] = "item/started"
    /\ Notices["answered"] = "item/completed" /\ Notices["over"] = "turn/completed"
<1>1. DOMAIN Phases = 1..5 /\ Phases[1] = "idle" /\ Phases[2] = "turn" /\ Phases[3] = "answer"
      /\ Phases[4] = "answered" /\ Phases[5] = "over"
  BY DEF Phases
<1>2. \A i \in 1..5 : i = 1 \/ i = 2 \/ i = 3 \/ i = 4 \/ i = 5
  OBVIOUS
<1> HIDE DEF Phases
<1> DEFINE place(phase) == CHOOSE i \in DOMAIN Phases : Phases[i] = phase
<1>3. place("idle") = 1
  BY <1>1, <1>2
<1>4. place("turn") = 2
  BY <1>1, <1>2
<1>5. place("answer") = 3
  BY <1>1, <1>2
<1>6. place("answered") = 4
  BY <1>1, <1>2
<1>7. \A phase : Follows(phase) = Phases[place(phase) + 1]
  BY Zenon DEF Follows
<1> HIDE DEF place
<1>8. /\ Follows("idle") = Phases[2] /\ Follows("turn") = Phases[3]
      /\ Follows("answer") = Phases[4] /\ Follows("answered") = Phases[5]
  BY <1>3, <1>4, <1>5, <1>6, <1>7
<1> QED BY <1>1, <1>8 DEF Notices

(* A turn goes on to its next phase. *)
LEMMA GoesOnType ==
    ASSUME NEW w \in [phase : PhaseNames, text : Texts], w.phase # "over"
    PROVE  /\ [w EXCEPT !.phase = Follows(@)] \in [phase : PhaseNames, text : Texts]
           /\ [w EXCEPT !.phase = Follows(@)].phase = Follows(w.phase)
           /\ [w EXCEPT !.phase = Follows(@)].text = w.text
           /\ Follows(w.phase) \in PhaseNames \ {"idle"}
           /\ Notices[Follows(w.phase)] \in Kinds \ {"delta"}
<1>1. w.phase \in {"idle", "turn", "answer", "answered"}
  BY DEF PhaseNames
<1>2. Follows(w.phase) \in PhaseNames \ {"idle"} /\ Notices[Follows(w.phase)] \in Kinds \ {"delta"}
  BY <1>1, PhasesInOrder DEF PhaseNames, Kinds
<1> QED BY <1>2

(* A notification waits behind the others. *)
LEMMA NotifiesType ==
    ASSUME queue \in Seq(NoticeSet), NEW kind \in Kinds, NEW text \in Texts, Notifies(kind, text)
    PROVE  queue' \in Seq(NoticeSet)
<1>1. [kind |-> kind, text |-> text] \in NoticeSet
  BY DEF NoticeSet
<1> QED BY <1>1, AppendProperties DEF Notifies

(* What the actor makes of a notification. *)
LEMMA ApplyType ==
    ASSUME NEW a \in Captures, NEW n \in NoticeSet
    PROVE  Apply(a, n) \in Captures /\ Apply(a, n).revision >= a.revision
<1>1. a.text \in Texts /\ a.revision \in Nat /\ a.final \in BOOLEAN /\ a.running \in BOOLEAN
      /\ n.text \in Texts /\ n.kind \in Kinds
  BY DEF Captures, NoticeSet
<1>2. a.revision + 1 \in Nat /\ a.revision + 1 >= a.revision /\ a.revision >= a.revision
  BY <1>1
<1>3. a.text \o n.text \in Texts
  BY <1>1, ConcatProperties DEF Texts
<1>4. Started(a) \in Captures /\ Started(a).revision = a.revision + 1
  BY <1>1, <1>2 DEF Started, Captures
<1>5. ItemStarted(a, n.text) \in Captures /\ ItemStarted(a, n.text).revision = a.revision + 1
  BY <1>1, <1>2 DEF ItemStarted, Captures
<1>6. Delta(a, n.text) \in Captures /\ Delta(a, n.text).revision \in {a.revision, a.revision + 1}
  BY <1>1, <1>2, <1>3 DEF Delta, Captures
<1>7. Completed(a, n.text) \in Captures /\ Completed(a, n.text).revision \in {a.revision, a.revision + 1}
  BY <1>1, <1>2 DEF Completed, Captures
<1>8. TurnCompleted(a) \in Captures /\ TurnCompleted(a).revision = a.revision + 1
  BY <1>1, <1>2 DEF TurnCompleted, Captures
<1>9. Apply(a, n) \in {Started(a), ItemStarted(a, n.text), Delta(a, n.text), Completed(a, n.text), TurnCompleted(a)}
  BY <1>1 DEF Apply, Kinds
<1> HIDE DEF Apply
<1> QED BY <1>2, <1>4, <1>5, <1>6, <1>7, <1>8, <1>9

(* What the actor makes of a thread it has read. *)
LEMMA HydratedType ==
    ASSUME Types
    PROVE  HydratedFrom(answer) \in Captures /\ HydratedFrom(answer).revision >= actor.revision
<1>1. actor \in Captures /\ answer.text \in Texts
  BY DEF Types, SourceTypes, ActorTypes
<1>2. actor.revision \in Nat /\ actor.revision + 1 \in Nat
  BY <1>1 DEF Captures
<1>3. Completed(actor, answer.text) \in Captures /\ Completed(actor, answer.text).revision \in {actor.revision, actor.revision + 1}
  BY <1>1, <1>2 DEF Completed, Captures
<1> DEFINE item == IF answer.phase \in {"answer", "answered", "over"} THEN Completed(actor, answer.text) ELSE actor
<1>4. item \in Captures /\ item.revision >= actor.revision
  BY <1>1, <1>2, <1>3
<1>5. HydratedFrom(answer) = [item EXCEPT !.running = answer.phase \in {"turn", "answer", "answered"}]
  BY Zenon DEF HydratedFrom
<1> HIDE DEF item
<1>6. \A b : \A x \in Captures : b \in BOOLEAN =>
          [x EXCEPT !.running = b] \in Captures /\ [x EXCEPT !.running = b].revision = x.revision
  BY DEF Captures
<1>7. (answer.phase \in {"turn", "answer", "answered"}) \in BOOLEAN
  OBVIOUS
<1>8. HydratedFrom(answer) \in Captures /\ HydratedFrom(answer).revision = item.revision
  BY <1>4, <1>5, <1>6, <1>7, Zenon
<1> QED BY <1>4, <1>8

(* What is shown of a session. *)
LEMMA ShownType ==
    ASSUME Types, NEW running \in BOOLEAN
    PROVE  Shown(running) \in Captures /\ Nothing \in Captures /\ Busy \in BOOLEAN
<1>1. actor \in Captures /\ worker.text \in Texts /\ AnswerEnded \in BOOLEAN /\ Busy \in BOOLEAN
  BY DEF Types, SourceTypes, ActorTypes, AnswerEnded, Busy
<1>2. <<>> \in Texts
  BY EmptySeq DEF Texts
<1>3. Nothing \in Captures
  BY <1>2 DEF Nothing, Captures
<1>4. Shown(running) \in Captures
  BY <1>1 DEF Shown, Captures
<1> QED BY <1>1, <1>3, <1>4
(* The numbers a frame may carry. *)
LEMMA IdTypes ==
    ASSUME TypeOK
    PROVE  Latest \in Ids /\ NoCursor \in Ids
<1>1. epoch \in Int /\ sequence \in Int
  BY BoundsAreNatural DEF TypeOK
<1> QED BY <1>1 DEF Latest, NoCursor, Ids

(* What a browser may become. *)
LEMMA BrowserTypes ==
    ASSUME NEW b \in Browsers, NEW capture \in Captures, NEW id \in Ids,
           NEW run \in {"starting", "open", "hidden"}
    PROVE  /\ Delivered(b, capture) \in Browsers
           /\ [b EXCEPT !.run = run] \in Browsers
           /\ [b EXCEPT !.run = run, !.paint = NoPaint] \in Browsers
           /\ [b EXCEPT !.shown = capture] \in Browsers
           /\ [b EXCEPT !.last = id] \in Browsers
           /\ [b EXCEPT !.paint = [waits |-> TRUE, capture |-> capture]] \in Browsers
           /\ b.last \in Ids
           /\ b.paint.waits => b.paint.capture \in Captures
<1>1. NoPaint \in Paintings /\ [waits |-> TRUE, capture |-> capture] \in Paintings
  BY DEF NoPaint, Paintings
<1>2. \A p \in Paintings : p.waits => p.capture \in Captures
  BY DEF Paintings
<1> HIDE DEF Paintings
<1> QED BY <1>1, <1>2 DEF Browsers, Delivered, NoPaint

(* What a refresh may become. *)
LEMMA RefreshTypes ==
    ASSUME refresh \in Refreshes
    PROVE  /\ RefreshOvertaken \in Refreshes
           /\ NextRefresh \in Refreshes
           /\ NoRefresh \in Refreshes
           /\ \A safety \in BOOLEAN : Asking(safety) => refresh' \in Refreshes
<1>1. NoRefresh \in Refreshes
  BY DEF NoRefresh, Refreshes
<1>2. \A safety \in BOOLEAN : [step |-> "asked", safety |-> safety, moved |-> FALSE, again |-> FALSE] \in Refreshes
  BY DEF Refreshes
<1>3. NextRefresh \in Refreshes
  BY <1>1, <1>2 DEF NextRefresh
<1>4. ASSUME refresh # NoRefresh
      PROVE  /\ [refresh EXCEPT !.moved = refresh.safety] \in Refreshes
             /\ [refresh EXCEPT !.again = TRUE] \in Refreshes
  <2>1. CASE refresh \in [step : {"none"}]
    BY <1>4, <2>1 DEF NoRefresh
  <2>2. CASE refresh \in [step : {"asked"}, safety : BOOLEAN, moved : BOOLEAN, again : BOOLEAN]
    BY <2>2 DEF Refreshes
  <2>3. CASE refresh \in [step : {"looked"}, safety : BOOLEAN, moved : BOOLEAN, again : BOOLEAN, running : BOOLEAN]
    BY <2>3 DEF Refreshes
  <2>4. CASE refresh \in [step : {"read"}, safety : BOOLEAN, moved : BOOLEAN, again : BOOLEAN, capture : Captures]
    BY <2>4 DEF Refreshes
  <2> QED BY <2>1, <2>2, <2>3, <2>4 DEF Refreshes
<1>5. RefreshOvertaken \in Refreshes
  BY <1>1, <1>4 DEF RefreshOvertaken
<1>6. \A safety \in BOOLEAN : Asking(safety) => refresh' \in Refreshes
  BY <1>2, <1>4 DEF Asking
<1> QED BY <1>1, <1>3, <1>5, <1>6

(* What a stream is at each of its steps. *)
LEMMA StreamSteps ==
    ASSUME Types
    PROVE  /\ stream.step = "reads" => backend = "web" /\ stream.cursor \in Ids /\ stream.id \in Ids
           /\ stream.step = "writes" => backend = "web" /\ stream.id \in Ids /\ stream.capture \in Captures
           /\ backend = "web" /\ stream.step = "waits" => stream.cursor \in Ids
           /\ backend = "terminal" /\ stream.step \in {"waits", "looks"} =>
                  stream \in [step : {"waits", "looks"}, running : BOOLEAN, wrote : Captures]
<1>1. backend \in {"web", "terminal"}
  BY DEF Types, KeptTypes
<1>2. ASSUME NEW s \in WebStreams
      PROVE  /\ s.step = "reads" => s.cursor \in Ids /\ s.id \in Ids
             /\ s.step = "writes" => s.id \in Ids /\ s.capture \in Captures
             /\ s.step = "waits" => s.cursor \in Ids
  BY DEF WebStreams
<1>3. ASSUME NEW s \in TerminalStreams
      PROVE  /\ s.step \notin {"reads", "writes"}
             /\ s.step \in {"waits", "looks"} =>
                    s \in [step : {"waits", "looks"}, running : BOOLEAN, wrote : Captures]
  BY DEF TerminalStreams
<1> QED BY <1>1, <1>2, <1>3 DEF Types, StreamTypes

(* What a stream may become. *)
LEMMA StreamKinds ==
    ASSUME Types, NEW id \in Ids, NEW cursor \in Ids, NEW capture \in Captures,
           NEW running \in BOOLEAN, NEW step \in {"waits", "looks"}
    PROVE  /\ NoStream \in WebStreams \cap TerminalStreams
           /\ [step |-> "waits", cursor |-> cursor] \in WebStreams
           /\ [step |-> "reads", cursor |-> cursor, id |-> id] \in WebStreams
           /\ [step |-> "writes", id |-> id, capture |-> capture] \in WebStreams
           /\ \A s \in [step : {"waits", "looks"}, running : BOOLEAN, wrote : Captures] :
                  /\ [s EXCEPT !.step = step, !.running = running] \in TerminalStreams
                  /\ [s EXCEPT !.step = step, !.wrote = capture] \in TerminalStreams
           /\ backend = "web" => NewStream(cursor) \in WebStreams
           /\ backend = "terminal" => NewStream(cursor) \in TerminalStreams
<1>1. NoStream \in WebStreams \cap TerminalStreams
  BY DEF NoStream, WebStreams, TerminalStreams
<1>2. [step |-> "waits", cursor |-> cursor] \in WebStreams
  BY DEF WebStreams
<1>3. [step |-> "reads", cursor |-> cursor, id |-> id] \in WebStreams
  BY DEF WebStreams
<1>4. [step |-> "writes", id |-> id, capture |-> capture] \in WebStreams
  BY DEF WebStreams
<1>5. \A s \in [step : {"waits", "looks"}, running : BOOLEAN, wrote : Captures] :
          /\ [s EXCEPT !.step = step, !.running = running] \in TerminalStreams
          /\ [s EXCEPT !.step = step, !.wrote = capture] \in TerminalStreams
  BY DEF TerminalStreams
<1>6. [step |-> "waits", running |-> FALSE, wrote |-> Nothing] \in TerminalStreams
  BY ShownType DEF TerminalStreams
<1>7. (backend = "web" => NewStream(cursor) \in WebStreams) /\ (backend = "terminal" => NewStream(cursor) \in TerminalStreams)
  BY <1>2, <1>6 DEF NewStream
<1> QED BY <1>1, <1>2, <1>3, <1>4, <1>5, <1>7

(* One frame at a time is on its way. *)
LEMMA FrameTypes ==
    ASSUME NEW id \in Ids, NEW capture \in Captures
    PROVE  /\ <<[type |-> "state", id |-> id]>> \in Seq(Frames)
           /\ <<[type |-> "capture", id |-> id, capture |-> capture]>> \in Seq(Frames)
           /\ <<>> \in Seq(Frames)
           /\ \A f \in Frames : f.id \in Ids /\ (f.type = "capture" => f.capture \in Captures)
                                /\ f.type \in {"state", "capture"}
<1>1. [type |-> "state", id |-> id] \in Frames
  BY DEF Frames
<1>2. [type |-> "capture", id |-> id, capture |-> capture] \in Frames
  BY DEF Frames
<1>3. \A f \in Frames : f.id \in Ids /\ (f.type = "capture" => f.capture \in Captures)
                        /\ f.type \in {"state", "capture"}
  BY DEF Frames
<1>4. \A f \in Frames : <<f>> \in Seq(Frames)
  OBVIOUS
<1> QED BY <1>1, <1>2, <1>3, <1>4, EmptySeq
(* At the start. *)
LEMMA TypesStart == ASSUME CaptureInit PROVE Types
<1>1. <<>> \in Texts /\ <<>> \in Seq(NoticeSet) /\ <<>> \in Seq(Frames) /\ <<>> \in Seq(Nat)
  BY EmptySeq DEF Texts
<1>2. Nothing \in Captures
  BY <1>1 DEF Nothing, Captures
<1>3. SourceTypes
  <2>1. worker \in [phase : PhaseNames, text : Texts] /\ answer \in [phase : PhaseNames \cup {"none"}, text : Texts]
    BY <1>1 DEF CaptureInit, NoAnswer, PhaseNames
  <2> QED BY <1>1, <2>1 DEF CaptureInit, SourceTypes
<1>4. ActorTypes
  BY <1>1, <1>2 DEF CaptureInit, ActorTypes
<1>5. StreamTypes
  BY <1>1 DEF CaptureInit, StreamTypes, NoStream, WebStreams, TerminalStreams
<1>6. ScreenTypes
  <2>1. NoCursor \in Ids /\ NoPaint \in Paintings /\ NoRefresh \in Refreshes
    BY DEF NoCursor, Ids, NoPaint, Paintings, NoRefresh, Refreshes
  <2>2. browser \in Browsers /\ refresh \in Refreshes
    BY <1>2, <2>1 DEF CaptureInit, Browsers
  <2> QED BY <2>2 DEF ScreenTypes
<1>7. KeptTypes
  BY DEF CaptureInit, KeptTypes
<1> QED BY <1>3, <1>4, <1>5, <1>6, <1>7 DEF Types

(* The steps of the worker, the link and the actor. *)
LEMMA SourceStepTypes ==
    ASSUME Types, TypeOK,
           WorkerGoesOn \/ WorkerSpeaks \/ HearsDelta \/ FlushesDelta \/ HearsNotice
           \/ Connects \/ WorkerReads \/ Hydrates \/ LinkLost \/ OwnerRestarts
    PROVE  Types'
<1>1. /\ worker \in [phase : PhaseNames, text : Texts] /\ worker.text \in Texts /\ worker.phase \in PhaseNames
      /\ link \in {"down", "joining", "up"}
      /\ answer \in [phase : PhaseNames \cup {"none"}, text : Texts]
      /\ queue \in Seq(NoticeSet)
      /\ actor \in Captures /\ batch \in BOOLEAN /\ said \in Seq(Nat) /\ late \in BOOLEAN
      /\ stream \in WebStreams \cup TerminalStreams
  BY DEF Types, SourceTypes, ActorTypes, StreamTypes, KeptTypes
<1>2. \A a \in Captures : a.revision \in Nat
  BY DEF Captures
<1>3. ASSUME NEW size, Publishes(size), actor' \in Captures PROVE said' \in Seq(Nat)
  BY <1>1, <1>2, <1>3, AppendProperties DEF Publishes
<1>4. queue # <<>> => Head(queue) \in NoticeSet /\ Tail(queue) \in Seq(NoticeSet)
  BY <1>1, HeadTailProperties
<1>5. NoAnswer \in [phase : PhaseNames \cup {"none"}, text : Texts] /\ <<>> \in Seq(NoticeSet)
  BY EmptySeq DEF NoAnswer, Texts
<1>6. CASE WorkerGoesOn
  <2>1. worker' \in [phase : PhaseNames, text : Texts] /\ Notices[worker'.phase] \in Kinds
    BY <1>1, <1>6, GoesOnType DEF WorkerGoesOn
  <2>2. queue' \in Seq(NoticeSet)
    BY <1>1, <1>6, <2>1, NotifiesType DEF WorkerGoesOn
  <2>3. SourceTypes'
    BY <1>1, <1>6, <2>1, <2>2 DEF WorkerGoesOn, SourceTypes
  <2> QED BY <1>6, <2>3, UnchangedTypes DEF WorkerGoesOn, Types, kept
<1>7. CASE WorkerSpeaks
  <2>1. Len(worker.text) + 1 \in Nat
    BY <1>1, LenProperties DEF Texts
  <2>2. Append(worker.text, Len(worker.text) + 1) \in Texts
    BY <1>1, <2>1, AppendProperties DEF Texts
  <2>3. worker' \in [phase : PhaseNames, text : Texts] /\ worker'.text = Append(worker.text, Len(worker.text) + 1)
    BY <1>1, <1>7, <2>2 DEF WorkerSpeaks
  <2>4. Len(worker'.text) \in Nat /\ <<Len(worker'.text)>> \in Texts
    BY <2>2, <2>3, LenProperties DEF Texts
  <2>5. queue' \in Seq(NoticeSet)
    <3>1. "delta" \in Kinds
      BY DEF Kinds
    <3> QED BY <1>1, <1>7, <2>4, <3>1, NotifiesType DEF WorkerSpeaks
  <2>6. SourceTypes'
    BY <1>1, <1>7, <2>3, <2>5 DEF WorkerSpeaks, SourceTypes
  <2> QED BY <1>7, <2>6, UnchangedTypes DEF WorkerSpeaks, Types, kept
<1>8. CASE HearsDelta
  <2>1. queue # <<>> /\ queue' = Tail(queue) /\ actor' = Apply(actor, Head(queue))
    BY <1>8 DEF HearsDelta, Told
  <2>2. actor' \in Captures /\ queue' \in Seq(NoticeSet)
    BY <1>1, <1>4, <2>1, ApplyType
  <2>3. SourceTypes'
    BY <1>1, <1>8, <2>2 DEF HearsDelta, SourceTypes
  <2>4. batch' \in BOOLEAN /\ said' = said /\ late' = late
    BY <1>1, <1>8 DEF HearsDelta, NothingPublished
  <2>5. ActorTypes'
    BY <1>1, <2>2, <2>4 DEF ActorTypes
  <2> QED BY <1>8, <2>3, <2>5, UnchangedTypes DEF HearsDelta, Types, kept
<1>9. CASE FlushesDelta
  <2>1. actor' \in Captures /\ batch' \in BOOLEAN /\ late' = late
    BY <1>1, <1>9 DEF FlushesDelta
  <2>2. said' \in Seq(Nat)
    BY <1>3, <1>9, <2>1 DEF FlushesDelta
  <2>3. ActorTypes'
    BY <1>1, <2>1, <2>2 DEF ActorTypes
  <2> QED BY <1>9, <2>3, UnchangedTypes DEF FlushesDelta, Types, kept
<1>10. CASE HearsNotice
  <2>1. queue # <<>> /\ queue' = Tail(queue) /\ actor' = Apply(actor, Head(queue))
    BY <1>10 DEF HearsNotice, Told
  <2>2. actor' \in Captures /\ queue' \in Seq(NoticeSet)
    BY <1>1, <1>4, <2>1, ApplyType
  <2>3. SourceTypes'
    BY <1>1, <1>10, <2>2 DEF HearsNotice, SourceTypes
  <2>4. said' \in Seq(Nat)
    BY <1>1, <1>3, <1>10, <2>2 DEF HearsNotice, NothingPublished
  <2>5. ActorTypes'
    BY <1>1, <1>10, <2>2, <2>4 DEF HearsNotice, ActorTypes
  <2> QED BY <1>10, <2>3, <2>5, UnchangedTypes DEF HearsNotice, Types, kept
<1>11. CASE Connects
  <2>1. SourceTypes'
    BY <1>1, <1>11 DEF Connects, SourceTypes
  <2> QED BY <1>11, <2>1, UnchangedTypes DEF Connects, Types, kept
<1>12. CASE WorkerReads
  <2>1. PICK phase \in {worker.phase} \cup (IF worker.phase = "answer" THEN {"turn"} ELSE {}) :
            answer' = [phase |-> phase, text |-> worker.text]
    BY <1>12 DEF WorkerReads
  <2>2. phase \in PhaseNames
    BY <1>1 DEF PhaseNames
  <2>3. answer' \in [phase : PhaseNames \cup {"none"}, text : Texts]
    BY <1>1, <2>1, <2>2
  <2>4. SourceTypes'
    BY <1>1, <1>12, <2>3 DEF WorkerReads, SourceTypes
  <2> QED BY <1>12, <2>4, UnchangedTypes DEF WorkerReads, Types, kept
<1>13. CASE Hydrates
  <2>1. SourceTypes'
    BY <1>1, <1>5, <1>13 DEF Hydrates, SourceTypes
  <2>2. actor' \in Captures
    BY <1>13, HydratedType DEF Hydrates
  <2>3. late' \in BOOLEAN /\ batch' = batch
    BY <1>13 DEF Hydrates
  <2>4. said' \in Seq(Nat)
    BY <1>3, <1>13, <2>2 DEF Hydrates
  <2>5. ActorTypes'
    BY <1>1, <2>2, <2>3, <2>4 DEF ActorTypes
  <2> QED BY <1>13, <2>1, <2>5, UnchangedTypes DEF Hydrates, Types, kept
<1>14. CASE LinkLost
  <2>1. SourceTypes'
    BY <1>1, <1>5, <1>14 DEF LinkLost, SourceTypes
  <2> QED BY <1>14, <2>1, UnchangedTypes DEF LinkLost, Types, kept
<1>15. CASE OwnerRestarts
  <2>1. SourceTypes'
    BY <1>1, <1>5, <1>15 DEF OwnerRestarts, SourceTypes
  <2>2. ActorTypes'
    BY <1>15, ShownType, EmptySeq DEF OwnerRestarts, ActorTypes
  <2>3. StreamTypes'
    <3>1. NoStream \in WebStreams /\ NoStream \in TerminalStreams
      BY DEF NoStream, WebStreams, TerminalStreams
    <3> QED BY <1>15, <3>1 DEF OwnerRestarts, Types, StreamTypes
  <2>4. ScreenTypes'
    BY <1>15, RefreshTypes DEF OwnerRestarts, Types, ScreenTypes
  <2> QED BY <1>15, <2>1, <2>2, <2>3, <2>4, UnchangedTypes DEF OwnerRestarts, Types, kept
<1> QED BY <1>6, <1>7, <1>8, <1>9, <1>10, <1>11, <1>12, <1>13, <1>14, <1>15

(* The steps of the stream. *)
LEMMA StreamStepTypes ==
    ASSUME Types, TypeOK,
           StreamWakes \/ StreamReads \/ StreamWrites \/ TerminalLooks \/ TerminalWrites \/ StreamEnds
    PROVE  Types'
<1>1. Latest \in Ids /\ NoCursor \in Ids /\ Now \in Captures /\ wire \in Seq(Frames) /\ Busy \in BOOLEAN
      /\ Nothing \in Captures
  BY IdTypes, ShownType DEF Types, StreamTypes, Now
<1>2. SUFFICES StreamTypes'
  BY UnchangedTypes DEF Types, kept, StreamWakes, StreamReads, StreamWrites, TerminalLooks, TerminalWrites, StreamEnds
<1> HIDE DEF Latest, NoCursor, Now
<1>3. CASE StreamWakes
  <2>1. stream.cursor \in Ids
    BY <1>3, StreamSteps DEF StreamWakes
  <2>2. stream' \in WebStreams
    BY <1>1, <1>3, <2>1, StreamKinds DEF StreamWakes
  <2>3. wire' \in Seq(Frames)
    BY <1>1, <1>3, FrameTypes DEF StreamWakes
  <2> QED BY <1>3, <2>2, <2>3 DEF StreamWakes, StreamTypes, kept
<1>4. CASE StreamReads
  <2>1. stream.id \in Ids
    BY <1>4, StreamSteps DEF StreamReads
  <2>2. stream' \in WebStreams
    BY <1>1, <1>4, <2>1, StreamKinds DEF StreamReads
  <2> QED BY <1>1, <1>4, <2>2 DEF StreamReads, StreamTypes, kept
<1>5. CASE StreamWrites
  <2>1. stream.id \in Ids /\ stream.capture \in Captures /\ backend = "web"
    BY <1>5, StreamSteps DEF StreamWrites
  <2>2. stream' \in WebStreams
    BY <1>1, <1>5, <2>1, StreamKinds DEF StreamWrites
  <2>3. wire' \in Seq(Frames)
    BY <1>5, <2>1, FrameTypes DEF StreamWrites
  <2> QED BY <1>5, <2>1, <2>2, <2>3 DEF StreamWrites, StreamTypes, kept
<1>6. CASE TerminalLooks
  <2>1. stream \in [step : {"waits", "looks"}, running : BOOLEAN, wrote : Captures]
    BY <1>6, StreamSteps DEF TerminalLooks
  <2>2. stream' \in TerminalStreams
    BY <1>1, <1>6, <2>1, StreamKinds DEF TerminalLooks
  <2> QED BY <1>1, <1>6, <2>2 DEF TerminalLooks, StreamTypes, kept
<1>7. CASE TerminalWrites
  <2>1. stream \in [step : {"waits", "looks"}, running : BOOLEAN, wrote : Captures] /\ stream.running \in BOOLEAN
    BY <1>7, StreamSteps DEF TerminalWrites
  <2>2. Shown(stream.running) \in Captures
    BY <2>1, ShownType
  <2> DEFINE capture == Shown(stream.running)
  <2>3. stream' = [stream EXCEPT !.step = "waits", !.wrote = capture]
        /\ wire' = (IF stream.wrote = capture THEN wire
                    ELSE <<[type |-> "capture", id |-> NoCursor, capture |-> capture]>>)
        /\ backend = "terminal" /\ kept' = kept
    BY <1>7 DEF TerminalWrites
  <2> HIDE DEF capture
  <2>4. capture \in Captures
    BY <2>2 DEF capture
  <2>5. stream' \in TerminalStreams
    BY <1>1, <2>1, <2>3, <2>4, StreamKinds
  <2>6. wire' \in Seq(Frames)
    BY <1>1, <2>3, <2>4, FrameTypes
  <2> QED BY <2>3, <2>5, <2>6 DEF StreamTypes, kept
<1>8. CASE StreamEnds
  <2>1. stream' \in WebStreams /\ stream' \in TerminalStreams
    BY <1>1, <1>8, StreamKinds DEF StreamEnds
  <2> QED BY <1>1, <1>8, <2>1 DEF StreamEnds, StreamTypes, kept
<1> QED BY <1>3, <1>4, <1>5, <1>6, <1>7, <1>8
(* The steps of the browser. *)
LEMMA ScreenStepTypes ==
    ASSUME Types, TypeOK,
           Starts \/ Receives \/ Paints \/ SeesEnd \/ Breaks \/ Timer \/ OwnerLooks \/ OwnerReads
           \/ Answers \/ RefreshFails \/ Hides \/ Wakes \/ Focuses
    PROVE  Types'
<1>1. /\ browser \in Browsers /\ refresh \in Refreshes /\ wire \in Seq(Frames)
      /\ browser.last \in Ids /\ (browser.paint.waits => browser.paint.capture \in Captures)
      /\ Nothing \in Captures /\ Busy \in BOOLEAN /\ NoCursor \in Ids
      /\ RefreshOvertaken \in Refreshes /\ NextRefresh \in Refreshes /\ NoRefresh \in Refreshes
      /\ <<>> \in Seq(Frames)
      /\ NoStream \in WebStreams /\ NoStream \in TerminalStreams
      /\ NewStream(browser.last) \in (IF backend = "web" THEN WebStreams ELSE TerminalStreams)
  <2>1. browser \in Browsers /\ refresh \in Refreshes /\ wire \in Seq(Frames) /\ backend \in {"web", "terminal"}
    BY DEF Types, ScreenTypes, StreamTypes, KeptTypes
  <2>2. Nothing \in Captures /\ Busy \in BOOLEAN /\ NoCursor \in Ids
    BY ShownType, IdTypes
  <2>3. browser.last \in Ids /\ (browser.paint.waits => browser.paint.capture \in Captures)
    BY <2>1, <2>2, BrowserTypes
  <2>4. RefreshOvertaken \in Refreshes /\ NextRefresh \in Refreshes /\ NoRefresh \in Refreshes
    BY <2>1, RefreshTypes
  <2>5. <<>> \in Seq(Frames)
    BY EmptySeq
  <2>6. NoStream \in WebStreams /\ NoStream \in TerminalStreams
    BY DEF NoStream, WebStreams, TerminalStreams
  <2>7. NewStream(browser.last) \in (IF backend = "web" THEN WebStreams ELSE TerminalStreams)
    BY <2>1, <2>2, <2>3, StreamKinds
  <2> QED BY <2>1, <2>2, <2>3, <2>4, <2>5, <2>6, <2>7
<1>2. UNCHANGED sources /\ UNCHANGED projection /\ UNCHANGED kept
  BY DEF Starts, Receives, Paints, SeesEnd, Breaks, Timer, OwnerLooks, OwnerReads, Answers, RefreshFails, Hides, Wakes, Focuses
<1>3. SUFFICES StreamTypes' /\ ScreenTypes'
  BY <1>2, UnchangedTypes DEF Types
<1>4. ASSUME UNCHANGED <<stream, wire>> PROVE StreamTypes'
  BY <1>2, <1>4, UnchangedTypes DEF kept
<1>5. ASSUME Opens PROVE StreamTypes' /\ browser' \in Browsers
  <2>1. browser' \in Browsers
    BY <1>1, <1>5, BrowserTypes DEF Opens
  <2>2. StreamTypes'
    BY <1>1, <1>2, <1>5 DEF Opens, StreamTypes, kept
  <2> QED BY <2>1, <2>2
<1>6. CASE Starts
  BY <1>1, <1>5, <1>6 DEF Starts, ScreenTypes
<1>7. CASE Receives
  <2> DEFINE f == Head(wire)
             b == [browser EXCEPT !.last = IF f.id = NoCursor THEN @ ELSE f.id]
  <2>1. f \in Frames /\ wire' \in Seq(Frames) /\ stream' = stream
    BY <1>1, <1>7, HeadTailProperties DEF Receives
  <2>2. f.id \in Ids /\ (f.type = "capture" => f.capture \in Captures) /\ f.type \in {"state", "capture"}
    BY <1>1, <2>1, FrameTypes
  <2>3. \/ f.type = "state" /\ browser' = b /\ refresh' = refresh
        \/ /\ f.type = "capture"
           /\ browser' = [b EXCEPT !.paint = [waits |-> TRUE, capture |-> f.capture]] /\ refresh' = refresh
        \/ f.type = "capture" /\ browser' = Delivered(b, f.capture) /\ refresh' = RefreshOvertaken
    BY <1>7, <2>2 DEF Receives
  <2>4. b \in Browsers
    <3>1. b = [browser EXCEPT !.last = browser.last] \/ b = [browser EXCEPT !.last = f.id]
      OBVIOUS
    <3> HIDE DEF b, f
    <3> QED BY <1>1, <2>2, <3>1, BrowserTypes
  <2> HIDE DEF b, f
  <2>5. browser' \in Browsers /\ refresh' \in Refreshes
    BY <1>1, <2>2, <2>3, <2>4, BrowserTypes
  <2>6. StreamTypes'
    BY <1>2, <2>1 DEF Types, StreamTypes, kept
  <2> QED BY <2>5, <2>6 DEF ScreenTypes
<1>8. CASE Paints
  <2>1. browser' \in Browsers /\ refresh' \in Refreshes
    BY <1>1, <1>8, BrowserTypes DEF Paints
  <2> QED BY <1>4, <1>8, <2>1 DEF Paints, ScreenTypes
<1>9. CASE SeesEnd
  <2>1. browser' \in Browsers
    BY <1>1, <1>9, BrowserTypes DEF SeesEnd
  <2> QED BY <1>1, <1>4, <1>9, <2>1 DEF SeesEnd, ScreenTypes
<1>10. CASE Breaks
  <2>1. browser' \in Browsers
    BY <1>1, <1>10, BrowserTypes DEF Breaks
  <2>2. StreamTypes'
    BY <1>1, <1>2, <1>10 DEF Breaks, StreamTypes, kept
  <2> QED BY <1>1, <1>10, <2>1, <2>2 DEF Breaks, ScreenTypes
<1>11. CASE Timer
  <2>1. refresh' \in Refreshes
    BY <1>1, <1>11, RefreshTypes DEF Timer
  <2> QED BY <1>1, <1>4, <1>11, <2>1 DEF Timer, ScreenTypes
<1>12. CASE OwnerLooks
  <2>1. refresh \in [step : {"asked"}, safety : BOOLEAN, moved : BOOLEAN, again : BOOLEAN]
    BY <1>1, <1>12 DEF OwnerLooks, Refreshes
  <2>2. refresh.safety \in BOOLEAN /\ refresh.moved \in BOOLEAN /\ refresh.again \in BOOLEAN
    BY <2>1
  <2>5. refresh' \in Refreshes
    BY <1>1, <1>12, <2>2 DEF OwnerLooks, Refreshes
  <2> QED BY <1>1, <1>4, <1>12, <2>5 DEF OwnerLooks, ScreenTypes
<1>13. CASE OwnerReads
  <2>1. refresh.safety \in BOOLEAN /\ refresh.moved \in BOOLEAN /\ refresh.again \in BOOLEAN
    BY <1>1, <1>13 DEF OwnerReads, Refreshes
  <2>2. (backend = "terminal" /\ refresh.running) \in BOOLEAN
    OBVIOUS
  <2>3. Shown(backend = "terminal" /\ refresh.running) \in Captures
    BY <2>2, ShownType
  <2>4. \A capture \in Captures :
            [step |-> "read", safety |-> refresh.safety, moved |-> refresh.moved,
             again |-> refresh.again, capture |-> capture] \in Refreshes
    BY <2>1 DEF Refreshes
  <2>5. refresh' \in Refreshes
    BY <1>13, <2>3, <2>4 DEF OwnerReads
  <2> QED BY <1>1, <1>4, <1>13, <2>5 DEF OwnerReads, ScreenTypes
<1>14. CASE Answers
  <2>1. refresh.capture \in Captures
    BY <1>1, <1>14 DEF Answers, Refreshes
  <2>2. browser' \in Browsers
    BY <1>1, <1>14, <2>1, BrowserTypes DEF Answers
  <2> QED BY <1>1, <1>4, <1>14, <2>2 DEF Answers, ScreenTypes
<1>15. CASE RefreshFails
  BY <1>1, <1>4, <1>15 DEF RefreshFails, ScreenTypes
<1>16. CASE Hides
  <2>1. browser' \in Browsers
    BY <1>1, <1>16, BrowserTypes DEF Hides
  <2>2. StreamTypes'
    BY <1>1, <1>2, <1>16 DEF Hides, StreamTypes, kept
  <2> QED BY <1>1, <1>16, <2>1, <2>2 DEF Hides, ScreenTypes
<1>17. CASE Wakes
  BY <1>1, <1>5, <1>17, RefreshTypes DEF Wakes, ScreenTypes
<1>18. CASE Focuses
  BY <1>1, <1>5, <1>18, RefreshTypes DEF Focuses, ScreenTypes
<1> QED BY <1>6, <1>7, <1>8, <1>9, <1>10, <1>11, <1>12, <1>13, <1>14, <1>15, <1>16, <1>17, <1>18

(* Every step keeps the types. *)
LEMMA TypesStay ==
    ASSUME Types, TypeOK, [CaptureNext]_captureVars
    PROVE  Types'
<1>1. CASE CaptureNext
  BY <1>1, SourceStepTypes, StreamStepTypes, ScreenStepTypes DEF CaptureNext
<1>2. CASE UNCHANGED captureVars
  BY <1>2, UnchangedTypes DEF captureVars, sources, projection, kept, screen, Types
<1> QED BY <1>1, <1>2

-----------------------------------------------------------------------------
(* The stream changes the journal by its operations only.                  *)

LEMMA StreamIsJournal ==
    ASSUME [CaptureNext]_captureVars
    PROVE  [Next]_vars
<1>1. 1 \in Sizes /\ 2 \in Sizes
  BY SizesOfEvents
<1>2. ASSUME NEW size \in {1, 2}, Publishes(size) PROVE Next
  BY <1>1, <1>2 DEF Publishes, Next
<1>3. CASE FlushesDelta
  BY <1>2, <1>3 DEF FlushesDelta
<1>4. CASE HearsNotice
  BY <1>2, <1>4 DEF HearsNotice, NothingPublished, journal, vars
<1>5. CASE Hydrates
  BY <1>2, <1>5 DEF Hydrates
<1>6. CASE OwnerRestarts
  BY <1>6 DEF OwnerRestarts, Next
<1>7. CASE HearsDelta
  BY <1>7 DEF HearsDelta, NothingPublished, journal, vars
<1>8. CASE \/ WorkerGoesOn \/ WorkerSpeaks \/ Connects \/ WorkerReads \/ LinkLost
           \/ StreamWakes \/ StreamReads \/ StreamWrites \/ TerminalLooks \/ TerminalWrites \/ StreamEnds
  BY <1>8 DEF WorkerGoesOn, WorkerSpeaks, Connects, WorkerReads, LinkLost, StreamWakes, StreamReads,
              StreamWrites, TerminalLooks, TerminalWrites, StreamEnds, journal, vars
<1>9. CASE \/ Starts \/ Receives \/ Paints \/ SeesEnd \/ Breaks \/ Timer \/ OwnerLooks \/ OwnerReads
           \/ Answers \/ RefreshFails \/ Hides \/ Wakes \/ Focuses
  BY <1>9 DEF Starts, Receives, Paints, SeesEnd, Breaks, Timer, OwnerLooks, OwnerReads, Answers,
              RefreshFails, Hides, Wakes, Focuses, journal, vars
<1>10. CASE UNCHANGED captureVars
  BY <1>10 DEF captureVars, journal, vars
<1> QED BY <1>3, <1>4, <1>5, <1>6, <1>7, <1>8, <1>9, <1>10 DEF CaptureNext

(* The journal of the stream is an EventJournal: whatever holds of every   *)
(* journal holds of this one.                                              *)
THEOREM StreamUsesTheJournal == CaptureSpec => Spec
<1>1. CaptureInit => Init
  BY DEF CaptureInit
<1>2. [CaptureNext]_captureVars => [Next]_vars
  BY StreamIsJournal
<1> QED BY <1>1, <1>2, PTL DEF CaptureSpec, Spec
-----------------------------------------------------------------------------
(* Frames cover their number.                                              *)

(* What the numbers of frames, streams and the journal are. *)
LEMMA CoverTypes ==
    ASSUME Types, TypeOK
    PROVE  /\ epoch \in Nat /\ sequence \in Nat /\ said \in Seq(Nat)
           /\ actor.revision \in Nat
           /\ wire \in Seq(Frames) /\ DOMAIN wire = 1..Len(wire) /\ Len(wire) \in Nat
           /\ \A i \in DOMAIN wire :
                  /\ wire[i].id.epoch \in Int /\ wire[i].id.sequence \in Int
                  /\ wire[i].type = "capture" => wire[i].capture.revision \in Nat
           /\ stream.step = "writes" => stream.capture.revision \in Nat
<1>1. wire \in Seq(Frames) /\ actor \in Captures /\ said \in Seq(Nat)
  BY DEF Types, StreamTypes, ActorTypes
<1>2. \A c \in Captures : c.revision \in Nat
  BY DEF Captures
<1>3. \A id \in Ids : id.epoch \in Int /\ id.sequence \in Int
  BY DEF Ids
<1>4. \A f \in Frames : f.id \in Ids /\ (f.type = "capture" => f.capture \in Captures)
  BY DEF Frames
<1>5. DOMAIN wire = 1..Len(wire) /\ Len(wire) \in Nat /\ \A i \in DOMAIN wire : wire[i] \in Frames
  BY <1>1, LenProperties, ElementOfSeq
<1>6. stream.step = "writes" => stream.capture \in Captures
  BY StreamSteps
<1>7. epoch \in Nat /\ sequence \in Nat
  BY BoundsAreNatural DEF TypeOK
<1> QED BY <1>1, <1>2, <1>3, <1>4, <1>5, <1>6, <1>7

(* Nothing is published, and what the actor has only grows. *)
LEMMA QuietCovers ==
    ASSUME Types, TypeOK, CoverInv, actor' \in Captures, actor'.revision >= actor.revision,
           UNCHANGED <<epoch, sequence, said, stream, wire>>
    PROVE  CoverInv'
<1>1. actor'.revision \in Nat
  BY DEF Captures
<1>2. \A i \in 1..sequence : said[i] \in Nat
  BY CoverTypes, ElementOfSeq DEF CoverInv
<1>3. \A i \in 1..sequence : said[i] <= actor'.revision
  BY <1>1, <1>2, CoverTypes DEF CoverInv
<1> QED BY <1>3 DEF CoverInv, Covered, Shows

(* The actor has at least what it publishes. *)
LEMMA PublishCovers ==
    ASSUME Types, TypeOK, CoverInv, actor' \in Captures, actor'.revision >= actor.revision,
           NEW size, Publishes(size), UNCHANGED <<stream, wire>>
    PROVE  CoverInv'
<1>1. actor'.revision \in Nat /\ actor.revision \in Nat /\ sequence \in Nat /\ said \in Seq(Nat)
  BY CoverTypes DEF Captures
<1>2. sequence' = sequence + 1 /\ epoch' = epoch /\ said' = Append(said, actor'.revision)
  BY DEF Publishes, Publish
<1>3. Len(said) = sequence
  BY DEF CoverInv
<1>4. Len(said') = sequence + 1 /\ said'[sequence + 1] = actor'.revision
      /\ \A i \in 1..sequence : said'[i] = said[i] /\ said[i] \in Nat
  BY <1>1, <1>2, <1>3, AppendProperties, ElementOfSeq
<1>5. \A i \in 1..(sequence + 1) : i \in 1..sequence \/ i = sequence + 1
  BY <1>1
<1>6. \A i \in 1..(sequence + 1) : said'[i] <= actor'.revision
  <2>1. \A i \in 1..sequence : said[i] <= actor'.revision
    BY <1>1, <1>4 DEF CoverInv
  <2> QED BY <1>1, <1>4, <1>5, <2>1
<1>7. \A capture, id : id.sequence \in Int /\ id.sequence <= sequence /\ Shows(capture, id) => Shows(capture, id)'
  BY <1>1, <1>4 DEF Shows
<1>8. ASSUME NEW i \in DOMAIN wire, wire[i].type = "capture" PROVE Covered(wire[i])'
  <2>1. Covered(wire[i]) /\ wire[i].id.epoch \in Int /\ wire[i].id.sequence \in Int
    BY <1>8, CoverTypes DEF CoverInv
  <2>2. wire[i].id.sequence <= sequence => wire[i].id.sequence <= sequence + 1
    BY <1>1, <2>1
  <2> QED BY <1>1, <1>2, <1>7, <2>1, <2>2 DEF Covered, Shows
<1>9. stream.step \in {"reads", "writes"} => stream.id.epoch = epoch /\ stream.id.sequence \in 0..(sequence + 1)
  BY <1>1 DEF CoverInv
<1>10. stream.step = "writes" => Shows(stream.capture, stream.id)'
  <2> SUFFICES ASSUME stream.step = "writes" PROVE Shows(stream.capture, stream.id)'
    OBVIOUS
  <2>1. stream.id.sequence \in 0..sequence /\ Shows(stream.capture, stream.id)
    BY DEF CoverInv
  <2>2. stream.id.sequence \in Int /\ stream.id.sequence <= sequence
    BY <1>1, <2>1
  <2>3. stream' = stream
    OBVIOUS
  <2> QED BY <1>4, <1>1, <2>1, <2>2, <2>3 DEF Shows
<1> QED BY <1>2, <1>4, <1>6, <1>8, <1>9, <1>10 DEF CoverInv
(* Only the stream and its frames move. *)
LEMMA FramesCover ==
    ASSUME CoverInv, UNCHANGED <<epoch, sequence, said, actor>>,
           stream'.step \in {"reads", "writes"} => stream'.id.epoch = epoch /\ stream'.id.sequence \in 0..sequence,
           stream'.step = "writes" => Shows(stream'.capture, stream'.id),
           \A i \in DOMAIN wire' : wire'[i].type = "capture" => Covered(wire'[i])
    PROVE  CoverInv'
BY DEF CoverInv, Covered, Shows

(* One frame is put on the wire, or none. *)
LEMMA FramesOfOne ==
    /\ \A f : DOMAIN <<f>> = {1} /\ <<f>>[1] = f
    /\ DOMAIN <<>> = {}
OBVIOUS

(* The steps of the stream. *)
LEMMA StreamStepCovers ==
    ASSUME Types, TypeOK, CoverInv,
           StreamWakes \/ StreamReads \/ StreamWrites \/ TerminalLooks \/ TerminalWrites \/ StreamEnds
    PROVE  CoverInv'
<1>1. epoch \in Nat /\ sequence \in Nat
  BY CoverTypes
<1>2. UNCHANGED <<epoch, sequence, said, actor>>
  BY DEF StreamWakes, StreamReads, StreamWrites, TerminalLooks, TerminalWrites, StreamEnds, journal, projection
<1>3. \A i \in DOMAIN wire : wire[i].type = "capture" => Covered(wire[i])
  BY DEF CoverInv
<1>4. CASE StreamWakes
  <2>1. stream' = [step |-> "reads", cursor |-> stream.cursor, id |-> Latest]
    BY <1>4 DEF StreamWakes
  <2>2. stream'.step = "reads" /\ stream'.id.epoch = epoch /\ stream'.id.sequence \in 0..sequence
    BY <1>1, <2>1 DEF Latest
  <2>3. wire' = wire \/ wire' = <<[type |-> "state", id |-> Latest]>>
    BY <1>4 DEF StreamWakes
  <2>4. \A i \in DOMAIN wire' : wire'[i].type = "capture" => Covered(wire'[i])
    BY <1>3, <2>3, FramesOfOne
  <2> QED BY <1>2, <2>2, <2>4, FramesCover
<1>5. CASE StreamReads
  <2>1. stream.step = "reads" /\ stream' = [step |-> "writes", id |-> stream.id, capture |-> Now] /\ wire' = wire
    BY <1>5 DEF StreamReads
  <2>2. stream.id.epoch = epoch /\ stream.id.sequence \in 0..sequence
    BY <2>1 DEF CoverInv
  <2>3. Now = actor
    BY <1>5 DEF StreamReads, Now, Shown
  <2>4. Shows(actor, stream.id)
    <3> SUFFICES ASSUME stream.id.sequence > 0 PROVE actor.revision >= said[stream.id.sequence]
      BY DEF Shows
    <3>1. stream.id.sequence \in 1..sequence
      BY <1>1, <2>2
    <3>2. said[stream.id.sequence] <= actor.revision
      BY <3>1 DEF CoverInv
    <3>3. said[stream.id.sequence] \in Nat /\ actor.revision \in Nat
      BY <3>1, CoverTypes, ElementOfSeq DEF CoverInv
    <3> QED BY <3>2, <3>3
  <2>5. stream'.step = "writes" /\ stream'.id = stream.id /\ stream'.capture = actor
    BY <2>1, <2>3
  <2> QED BY <1>2, <1>3, <2>1, <2>2, <2>4, <2>5, FramesCover
<1>6. CASE StreamWrites
  <2> DEFINE f == [type |-> "capture", id |-> stream.id, capture |-> stream.capture]
  <2>1. stream.step = "writes" /\ wire' = <<f>> /\ stream' = [step |-> "waits", cursor |-> stream.id]
    BY <1>6 DEF StreamWrites
  <2>2. stream.id.epoch = epoch /\ stream.id.sequence \in 0..sequence /\ Shows(stream.capture, stream.id)
    BY <2>1 DEF CoverInv
  <2>3. f.id = stream.id /\ f.capture = stream.capture
    OBVIOUS
  <2> HIDE DEF f
  <2>4. Covered(f)
    BY <1>1, <2>2, <2>3 DEF Covered
  <2>5. \A i \in DOMAIN wire' : wire'[i].type = "capture" => Covered(wire'[i])
    BY <2>1, <2>4, FramesOfOne
  <2>6. stream'.step = "waits"
    BY <2>1
  <2> QED BY <1>2, <2>5, <2>6, FramesCover
<1>7. CASE TerminalLooks
  <2>1. stream \in [step : {"waits", "looks"}, running : BOOLEAN, wrote : Captures]
    BY <1>7, StreamSteps DEF TerminalLooks
  <2>2. stream'.step = "looks" /\ wire' = wire
    BY <1>7, <2>1 DEF TerminalLooks
  <2> QED BY <1>2, <1>3, <2>2, FramesCover
<1>8. CASE TerminalWrites
  <2> DEFINE f == [type |-> "capture", id |-> NoCursor, capture |-> Shown(stream.running)]
  <2>1. stream \in [step : {"waits", "looks"}, running : BOOLEAN, wrote : Captures]
    BY <1>8, StreamSteps DEF TerminalWrites
  <2>2. stream'.step = "waits"
    BY <1>8, <2>1 DEF TerminalWrites
  <2>3. wire' = wire \/ wire' = <<f>>
    BY <1>8 DEF TerminalWrites
  <2>4. f.id = NoCursor
    OBVIOUS
  <2> HIDE DEF f
  <2>5. Covered(f)
    BY <1>1, <2>4 DEF Covered, NoCursor
  <2>6. \A i \in DOMAIN wire' : wire'[i].type = "capture" => Covered(wire'[i])
    BY <1>3, <2>3, <2>5, FramesOfOne
  <2> QED BY <1>2, <2>2, <2>6, FramesCover
<1>9. CASE StreamEnds
  <2>1. stream'.step = "none" /\ wire' = wire
    BY <1>9 DEF StreamEnds, NoStream
  <2> QED BY <1>2, <1>3, <2>1, FramesCover
<1> QED BY <1>4, <1>5, <1>6, <1>7, <1>8, <1>9

(* The steps of the browser. *)
LEMMA ScreenStepCovers ==
    ASSUME Types, TypeOK, CoverInv,
           Starts \/ Receives \/ Paints \/ SeesEnd \/ Breaks \/ Timer \/ OwnerLooks \/ OwnerReads
           \/ Answers \/ RefreshFails \/ Hides \/ Wakes \/ Focuses
    PROVE  CoverInv'
<1>1. UNCHANGED <<epoch, sequence, said, actor>>
  BY DEF Starts, Receives, Paints, SeesEnd, Breaks, Timer, OwnerLooks, OwnerReads, Answers, RefreshFails,
         Hides, Wakes, Focuses, journal, projection
<1>2. ASSUME stream'.step \in {"none", "waits"}, wire' = <<>> PROVE CoverInv'
  BY <1>1, <1>2, FramesOfOne, FramesCover
<1>3. NoStream.step = "none" /\ \A cursor : NewStream(cursor).step = "waits"
  BY DEF NoStream, NewStream
<1>4. CASE Starts \/ Wakes \/ Focuses
  BY <1>2, <1>3, <1>4 DEF Starts, Wakes, Focuses, Opens
<1>5. CASE Breaks \/ Hides
  BY <1>2, <1>3, <1>5 DEF Breaks, Hides
<1>6. CASE Paints \/ SeesEnd \/ Timer \/ OwnerLooks \/ OwnerReads \/ Answers \/ RefreshFails
  <2>1. UNCHANGED <<stream, wire>>
    BY <1>6 DEF Paints, SeesEnd, Timer, OwnerLooks, OwnerReads, Answers, RefreshFails
  <2> QED BY <1>1, <2>1, FramesCover DEF CoverInv
<1>7. CASE Receives
  <2>1. stream' = stream /\ wire # <<>> /\ wire' = Tail(wire)
    BY <1>7 DEF Receives
  <2>2. wire \in Seq(Frames) /\ Len(wire) \in Nat /\ DOMAIN wire = 1..Len(wire)
    BY CoverTypes
  <2>3. Tail(wire) \in Seq(Frames) /\ Len(Tail(wire)) = Len(wire) - 1
        /\ \A i \in 1..Len(Tail(wire)) : Tail(wire)[i] = wire[i + 1]
    BY <2>1, <2>2, HeadTailProperties
  <2>4. DOMAIN wire' = 1..(Len(wire) - 1) /\ \A i \in 1..(Len(wire) - 1) : wire'[i] = wire[i + 1] /\ i + 1 \in 1..Len(wire)
    BY <2>1, <2>2, <2>3, LenProperties
  <2>5. \A i \in DOMAIN wire' : wire'[i].type = "capture" => Covered(wire'[i])
    BY <2>2, <2>4 DEF CoverInv
  <2> QED BY <1>1, <2>1, <2>5, FramesCover DEF CoverInv
<1> QED BY <1>4, <1>5, <1>6, <1>7

(* Every step keeps the cover. *)
LEMMA CoverStays ==
    ASSUME Types, Types', TypeOK, CoverInv, [CaptureNext]_captureVars
    PROVE  CoverInv'
<1>1. actor \in Captures /\ actor' \in Captures /\ actor.revision \in Nat /\ actor.revision >= actor.revision
      /\ queue \in Seq(NoticeSet) /\ \A n \in NoticeSet : Apply(actor, n).revision >= actor.revision
  BY ApplyType, CoverTypes DEF Types, ActorTypes, SourceTypes
<1>2. queue # <<>> => Head(queue) \in NoticeSet
  BY <1>1, HeadTailProperties
<1>3. CASE \/ WorkerGoesOn \/ WorkerSpeaks \/ Connects \/ WorkerReads \/ LinkLost
  <2>1. UNCHANGED <<epoch, sequence, said, stream, wire, actor>>
    BY <1>3 DEF WorkerGoesOn, WorkerSpeaks, Connects, WorkerReads, LinkLost, journal, projection
  <2> QED BY <1>1, <2>1, QuietCovers
<1>4. CASE HearsDelta
  <2>1. UNCHANGED <<epoch, sequence, said, stream, wire>>
    BY <1>4 DEF HearsDelta, NothingPublished, journal
  <2>2. actor' = Apply(actor, Head(queue)) /\ queue # <<>>
    BY <1>4 DEF HearsDelta, Told
  <2> QED BY <1>1, <1>2, <2>1, <2>2, QuietCovers
<1>5. CASE FlushesDelta
  <2>1. Publishes(2) /\ UNCHANGED <<stream, wire>> /\ actor' = actor
    BY <1>5 DEF FlushesDelta
  <2> QED BY <1>1, <2>1, PublishCovers
<1>6. CASE HearsNotice
  <2>1. actor' = Apply(actor, Head(queue)) /\ queue # <<>> /\ UNCHANGED <<stream, wire>>
    BY <1>6 DEF HearsNotice
  <2>2. actor'.revision >= actor.revision
    BY <1>1, <1>2, <2>1
  <2>3. CASE Publishes(1)
    BY <1>1, <2>1, <2>2, <2>3, PublishCovers
  <2>4. CASE NothingPublished
    BY <1>1, <2>1, <2>2, <2>4, QuietCovers DEF NothingPublished, journal
  <2> QED BY <1>6, <2>3, <2>4 DEF HearsNotice
<1>7. CASE Hydrates
  <2>1. Publishes(1) /\ UNCHANGED <<stream, wire>> /\ actor' = HydratedFrom(answer)
    BY <1>7 DEF Hydrates
  <2>2. actor'.revision >= actor.revision
    BY <2>1, HydratedType
  <2> QED BY <1>1, <2>1, <2>2, PublishCovers
<1>8. CASE OwnerRestarts
  <2>1. epoch' = epoch + 1 /\ sequence' = 0 /\ said' = <<>> /\ stream'.step = "none" /\ wire' = wire
    BY <1>8 DEF OwnerRestarts, Restart, NoStream
  <2>2. epoch \in Nat /\ Len(<<>>) = 0
    BY CoverTypes, EmptySeq
  <2>3. ASSUME NEW i \in DOMAIN wire, wire[i].type = "capture" PROVE Covered(wire[i])'
    <3>1. Covered(wire[i]) /\ wire[i].id.epoch \in Int
      BY <2>3, CoverTypes DEF CoverInv
    <3>2. wire[i].id.epoch <= epoch + 1 /\ wire[i].id.epoch # epoch + 1
      BY <2>2, <3>1 DEF Covered
    <3> QED BY <2>1, <3>2 DEF Covered
  <2>4. 1..0 = {}
    OBVIOUS
  <2> QED BY <2>1, <2>2, <2>3, <2>4 DEF CoverInv
<1>9. CASE UNCHANGED captureVars
  <2>1. UNCHANGED <<epoch, sequence, said, stream, wire, actor>>
    BY <1>9 DEF captureVars, journal, projection
  <2> QED BY <1>1, <2>1, QuietCovers
<1> QED BY <1>3, <1>4, <1>5, <1>6, <1>7, <1>8, <1>9, StreamStepCovers, ScreenStepCovers DEF CaptureNext
(* The stream is where it is: frames on the way cover their number. *)
LEMMA CoverIsKept == ASSUME Types, TypeOK, CoverInv PROVE FramesCoverTheirId
<1> SUFFICES ASSUME NEW i \in DOMAIN wire, wire[i].type = "capture",
                    wire[i].id.epoch = epoch, wire[i].id.sequence > 0
             PROVE  /\ wire[i].id.sequence <= sequence
                    /\ wire[i].capture.revision >= said[wire[i].id.sequence]
  BY DEF FramesCoverTheirId
<1>1. Covered(wire[i])
  BY DEF CoverInv
<1> QED BY <1>1 DEF Covered, Shows

-----------------------------------------------------------------------------
(* The end of the answer.                                                  *)

(* The first notification is taken. *)
LEMMA TailKeepsEnds ==
    ASSUME NEW q \in Seq(NoticeSet), q # <<>>
    PROVE  /\ EndFollows(q) => EndFollows(Tail(q))
           /\ EndFollows(q) /\ Head(q).kind \in {"item/started", "delta"} => HasEnd(Tail(q))
           /\ HasEnd(q) /\ Head(q).kind # "item/completed" => HasEnd(Tail(q))
           /\ \A i \in DOMAIN Tail(q) : \E j \in DOMAIN q : q[j] = Tail(q)[i]
           /\ 1 \in DOMAIN q /\ Head(q) = q[1]
<1> DEFINE t == Tail(q)
<1>1. Len(q) \in Nat \ {0} /\ DOMAIN q = 1..Len(q) /\ Head(q) = q[1]
  BY EmptySeq, LenProperties
<1>2. t \in Seq(NoticeSet) /\ Len(t) = Len(q) - 1 /\ DOMAIN t = 1..(Len(q) - 1)
      /\ \A i \in 1..(Len(q) - 1) : t[i] = q[i + 1]
  BY HeadTailProperties, LenProperties
<1> HIDE DEF t
<1>3. \A i \in DOMAIN t : i + 1 \in DOMAIN q /\ t[i] = q[i + 1]
  BY <1>1, <1>2
<1>4. \A j \in DOMAIN q : j > 1 => j - 1 \in DOMAIN t /\ t[j - 1] = q[j]
  <2> SUFFICES ASSUME NEW j \in DOMAIN q, j > 1 PROVE j - 1 \in DOMAIN t /\ t[j - 1] = q[j]
    OBVIOUS
  <2>1. j - 1 \in 1..(Len(q) - 1) /\ (j - 1) + 1 = j
    BY <1>1
  <2> QED BY <1>2, <2>1
<1>5. ASSUME EndFollows(q) PROVE EndFollows(t)
  <2> SUFFICES ASSUME NEW i \in DOMAIN t, t[i].kind \in {"item/started", "delta"}
               PROVE  \E j \in DOMAIN t : i < j /\ t[j].kind = "item/completed"
    BY DEF EndFollows
  <2>1. PICK j \in DOMAIN q : i + 1 < j /\ q[j].kind = "item/completed"
    BY <1>3, <1>5 DEF EndFollows
  <2>2. j > 1 /\ i < j - 1
    BY <1>1, <1>2, <2>1
  <2> QED BY <1>4, <2>1, <2>2
<1>6. ASSUME EndFollows(q), q[1].kind \in {"item/started", "delta"} PROVE HasEnd(t)
  <2>1. 1 \in DOMAIN q
    BY <1>1
  <2>2. PICK j \in DOMAIN q : 1 < j /\ q[j].kind = "item/completed"
    BY <1>6, <2>1 DEF EndFollows
  <2>3. j > 1
    BY <1>1, <2>2
  <2> QED BY <1>4, <2>2, <2>3 DEF HasEnd
<1>7. ASSUME HasEnd(q), q[1].kind # "item/completed" PROVE HasEnd(t)
  <2>1. PICK j \in DOMAIN q : q[j].kind = "item/completed"
    BY <1>7 DEF HasEnd
  <2>2. j > 1
    BY <1>1, <1>7, <2>1
  <2> QED BY <1>4, <2>1, <2>2 DEF HasEnd
<1>8. 1 \in DOMAIN q
  BY <1>1
<1> QED BY <1>1, <1>3, <1>5, <1>6, <1>7, <1>8 DEF t

(* A notification comes last. *)
LEMMA AppendKeepsEnds ==
    ASSUME NEW q \in Seq(NoticeSet), NEW n \in NoticeSet
    PROVE  /\ n.kind = "item/completed" => EndFollows(Append(q, n)) /\ HasEnd(Append(q, n))
           /\ EndFollows(q) /\ n.kind \notin {"item/started", "delta"} => EndFollows(Append(q, n))
           /\ HasEnd(q) => HasEnd(Append(q, n))
           /\ \A i \in DOMAIN Append(q, n) : Append(q, n)[i] = n \/ \E j \in DOMAIN q : q[j] = Append(q, n)[i]
<1> DEFINE t == Append(q, n)
<1>1. Len(q) \in Nat /\ DOMAIN q = 1..Len(q)
  BY LenProperties
<1>2. t \in Seq(NoticeSet) /\ DOMAIN t = 1..(Len(q) + 1) /\ t[Len(q) + 1] = n
      /\ \A i \in 1..Len(q) : t[i] = q[i]
  BY <1>1, AppendProperties, LenProperties
<1> HIDE DEF t
<1>3. Len(q) + 1 \in DOMAIN t
  BY <1>1, <1>2
<1>4. \A i \in DOMAIN t : i = Len(q) + 1 \/ (i \in DOMAIN q /\ t[i] = q[i] /\ i < Len(q) + 1)
  BY <1>1, <1>2
<1>5. \A i \in DOMAIN q : i \in DOMAIN t /\ t[i] = q[i]
  BY <1>1, <1>2
<1>6. ASSUME n.kind = "item/completed" PROVE EndFollows(t) /\ HasEnd(t)
  BY <1>2, <1>3, <1>4, <1>6 DEF EndFollows, HasEnd
<1>7. ASSUME EndFollows(q), n.kind \notin {"item/started", "delta"} PROVE EndFollows(t)
  BY <1>2, <1>4, <1>5, <1>7 DEF EndFollows
<1>8. ASSUME HasEnd(q) PROVE HasEnd(t)
  BY <1>5, <1>8 DEF HasEnd
<1>9. \A i \in DOMAIN t : t[i] = n \/ \E j \in DOMAIN q : q[j] = t[i]
  BY <1>2, <1>4
<1> QED BY <1>6, <1>7, <1>8, <1>9 DEF t
(* What the actor knows of the end of the answer. *)
LEMMA ApplyEnds ==
    ASSUME NEW a \in Captures, NEW n \in NoticeSet
    PROVE  /\ n.kind = "item/completed" => Apply(a, n).text = n.text /\ Apply(a, n).final
           /\ n.kind \in {"turn/started", "turn/completed"} =>
                  Apply(a, n).text = a.text /\ Apply(a, n).final = a.final
<1>1. a.text \in Texts /\ a.final \in BOOLEAN
      /\ \A text \in Texts : Completed(a, text).text = text /\ Completed(a, text).final
  BY DEF Captures, Completed
<1>2. n.text \in Texts
  BY DEF NoticeSet
<1>3. n.kind = "item/completed" => Apply(a, n) = Completed(a, n.text)
  BY DEF Apply
<1>4. n.kind = "turn/started" => Apply(a, n) = Started(a)
  BY DEF Apply
<1>5. n.kind = "turn/completed" => Apply(a, n) = TurnCompleted(a)
  BY DEF Apply
<1>6. Started(a).text = a.text /\ Started(a).final = a.final /\ TurnCompleted(a).text = a.text /\ TurnCompleted(a).final = a.final
  BY DEF Started, TurnCompleted, Captures
<1> QED BY <1>1, <1>2, <1>3, <1>4, <1>5, <1>6

(* A reading of the thread from after the end is the whole answer. *)
LEMMA HydratedEnds ==
    ASSUME Types, answer.phase \in {"answered", "over"}
    PROVE  HydratedFrom(answer).text = answer.text /\ HydratedFrom(answer).final
<1>1. actor \in Captures /\ answer.text \in Texts
  BY DEF Types, SourceTypes, ActorTypes
<1> DEFINE item == Completed(actor, answer.text)
<1>2. item \in Captures /\ item.text = answer.text /\ item.final
  <2>0. actor.revision + 1 \in Nat
    BY <1>1 DEF Captures
  <2>1. [actor EXCEPT !.text = answer.text, !.final = TRUE, !.revision = @ + 1] \in Captures
    BY <1>1, <2>0 DEF Captures
  <2> QED BY <1>1, <2>1 DEF Completed, Captures
<1>3. HydratedFrom(answer) = [item EXCEPT !.running = answer.phase \in {"turn", "answer", "answered"}]
  BY DEF HydratedFrom
<1> HIDE DEF item
<1> QED BY <1>2, <1>3 DEF Captures

(* The end is known when none is waiting. *)
LEMMA KnownEnds == EndIsKnown <=> AnswerEnded /\ ~HasEnd(queue)
BY DEF EndIsKnown, HasEnd

(* A notification is taken: the end of an unfinished text is still to come. *)
LEMMA HearingKeepsEnds ==
    ASSUME Types, EndInv, queue # <<>>, queue' = Tail(queue), actor' = Apply(actor, Head(queue)),
           UNCHANGED <<worker, link, answer, late, backend>>
    PROVE  EndInv'
<1> DEFINE n == Head(queue)
<1>1. queue \in Seq(NoticeSet) /\ n \in NoticeSet /\ actor \in Captures
  BY HeadTailProperties DEF Types, SourceTypes, ActorTypes
<1>2. /\ EndFollows(queue) => EndFollows(queue')
      /\ EndFollows(queue) /\ n.kind \in {"item/started", "delta"} => HasEnd(queue')
      /\ HasEnd(queue) /\ n.kind # "item/completed" => HasEnd(queue')
      /\ \A i \in DOMAIN queue' : \E j \in DOMAIN queue : queue[j] = queue'[i]
      /\ 1 \in DOMAIN queue /\ n = queue[1]
  <2> HIDE DEF EndFollows, HasEnd
  <2> QED BY <1>1, TailKeepsEnds
<1>3. AnswerEnded' = AnswerEnded
  BY DEF AnswerEnded
<1>4. link' # "down"
  BY DEF EndInv
<1>5. \A i \in DOMAIN queue' : queue'[i].kind = "item/completed" => AnswerEnded' /\ queue'[i].text = worker'.text
  BY <1>2, <1>3 DEF EndInv
<1>6. AnswerEnded' => EndFollows(queue')
  BY <1>2, <1>3 DEF EndInv
<1>7. FinalTextIsWhole'
  <2> SUFFICES ASSUME link = "up", AnswerEnded, ~HasEnd(queue'), ~late
               PROVE  actor'.text = worker.text /\ actor'.final
    BY <1>3 DEF FinalTextIsWhole, EndIsKnown, HasEnd
  <2>1. n.kind \in {"turn/started", "turn/completed", "item/completed"}
    <3>1. n.kind \in Kinds /\ n.kind \notin {"item/started", "delta"}
      BY <1>1, <1>2 DEF EndInv, NoticeSet
    <3> QED BY <3>1 DEF Kinds
  <2>2. CASE n.kind = "item/completed"
    <3>1. n.text = worker.text
      BY <1>2, <2>2 DEF EndInv
    <3> HIDE DEF n
    <3>2. actor' = Apply(actor, n)
      BY DEF n
    <3> QED BY <1>1, <2>2, <3>1, <3>2, ApplyEnds
  <2>3. CASE n.kind # "item/completed"
    <3>1. ~HasEnd(queue)
      BY <1>2, <2>3
    <3>2. actor.text = worker.text /\ actor.final
      BY <3>1, KnownEnds DEF EndInv, FinalTextIsWhole
    <3>3. actor' = Apply(actor, n)
      OBVIOUS
    <3> HIDE DEF n
    <3> QED BY <1>1, <2>1, <2>3, <3>2, <3>3, ApplyEnds
  <2> QED BY <2>2, <2>3
<1> QED BY <1>3, <1>4, <1>5, <1>6, <1>7 DEF EndInv
(* Codex goes on: the end of the answer is told with the whole of it. *)
LEMMA GoingOnKeepsEnds ==
    ASSUME Types, EndInv, WorkerGoesOn
    PROVE  EndInv'
<1>1. /\ worker \in [phase : PhaseNames, text : Texts] /\ worker.phase # "over" /\ worker.text \in Texts
      /\ queue \in Seq(NoticeSet) /\ link \in {"down", "joining", "up"}
  BY DEF Types, SourceTypes, WorkerGoesOn
<1>2. worker'.phase = Follows(worker.phase) /\ worker'.text = worker.text
      /\ UNCHANGED <<link, answer, actor, late, backend>>
  BY <1>1 DEF WorkerGoesOn, projection, kept
<1> DEFINE n == [kind |-> Notices[worker'.phase], text |-> worker.text]
<1>3. queue' = IF link = "down" \/ backend = "terminal" THEN queue ELSE Append(queue, n)
  BY DEF WorkerGoesOn, Notifies
<1>4. n \in NoticeSet /\ n.kind = Notices[worker'.phase] /\ n.text = worker.text
  BY <1>1, <1>2, GoesOnType DEF NoticeSet
<1> HIDE DEF n
<1>5. (link = "down" \/ backend = "terminal") => link = "down" /\ queue = <<>>
  BY DEF EndInv
<1>6. /\ n.kind = "item/completed" => EndFollows(Append(queue, n)) /\ HasEnd(Append(queue, n))
      /\ EndFollows(queue) /\ n.kind \notin {"item/started", "delta"} => EndFollows(Append(queue, n))
      /\ HasEnd(queue) => HasEnd(Append(queue, n))
      /\ \A i \in DOMAIN Append(queue, n) : Append(queue, n)[i] = n \/ \E j \in DOMAIN queue : queue[j] = Append(queue, n)[i]
  BY <1>1, <1>4, AppendKeepsEnds
<1>7. \A i \in DOMAIN queue' : (queue'[i] = n /\ link # "down") \/ \E j \in DOMAIN queue : queue[j] = queue'[i]
  BY <1>3, <1>5, <1>6
<1>8. link' = "down" => queue' = <<>>
  BY <1>2, <1>3, <1>5
<1>9. EndFollows(<<>>)
  BY FramesOfOne DEF EndFollows
<1>10. CASE worker.phase \in {"idle", "turn"}
  <2>1. ~AnswerEnded /\ ~AnswerEnded'
    BY <1>2, <1>10, PhasesInOrder DEF AnswerEnded
  <2>2. n.kind # "item/completed"
    BY <1>2, <1>4, <1>10, PhasesInOrder
  <2>3. \A i \in DOMAIN queue' : queue'[i].kind # "item/completed"
    BY <1>7, <2>1, <2>2 DEF EndInv
  <2>4. FinalTextIsWhole'
    BY <2>1 DEF FinalTextIsWhole, EndIsKnown
  <2> QED BY <1>2, <1>8, <2>1, <2>3, <2>4 DEF EndInv
<1>11. CASE worker.phase = "answer"
  <2>1. ~AnswerEnded /\ AnswerEnded'
    BY <1>2, <1>11, PhasesInOrder DEF AnswerEnded
  <2>2. n.kind = "item/completed"
    BY <1>2, <1>4, <1>11, PhasesInOrder
  <2>3. \A i \in DOMAIN queue' : queue'[i].kind = "item/completed" => AnswerEnded' /\ queue'[i].text = worker'.text
    BY <1>2, <1>4, <1>7, <2>1 DEF EndInv
  <2>4. EndFollows(queue')
    BY <1>3, <1>5, <1>6, <1>9, <2>2
  <2>5. link # "down" => HasEnd(queue')
    BY <1>3, <1>5, <1>6, <2>2
  <2>6. FinalTextIsWhole'
    BY <1>2, <2>5 DEF FinalTextIsWhole, EndIsKnown, HasEnd
  <2> QED BY <1>2, <1>8, <2>1, <2>3, <2>4, <2>6 DEF EndInv
<1>12. CASE worker.phase = "answered"
  <2>1. AnswerEnded /\ AnswerEnded'
    BY <1>2, <1>12, PhasesInOrder DEF AnswerEnded
  <2>2. n.kind = "turn/completed"
    BY <1>2, <1>4, <1>12, PhasesInOrder
  <2>3. \A i \in DOMAIN queue' : queue'[i].kind = "item/completed" => AnswerEnded' /\ queue'[i].text = worker'.text
    BY <1>2, <1>7, <2>1, <2>2 DEF EndInv
  <2>4. EndFollows(queue')
    BY <1>3, <1>6, <2>1, <2>2 DEF EndInv
  <2>5. HasEnd(queue) => HasEnd(queue')
    BY <1>3, <1>6
  <2>6. FinalTextIsWhole'
    <3> SUFFICES ASSUME link = "up", ~HasEnd(queue'), ~late PROVE actor.text = worker.text /\ actor.final
      BY <1>2 DEF FinalTextIsWhole, EndIsKnown, HasEnd
    <3> QED BY <2>1, <2>5, KnownEnds DEF EndInv, FinalTextIsWhole
  <2> QED BY <1>2, <1>8, <2>1, <2>3, <2>4, <2>6 DEF EndInv
<1> QED BY <1>1, <1>10, <1>11, <1>12 DEF PhaseNames

(* Codex says another delta. *)
LEMMA SpeakingKeepsEnds ==
    ASSUME Types, EndInv, WorkerSpeaks
    PROVE  EndInv'
<1>1. worker \in [phase : PhaseNames, text : Texts] /\ queue \in Seq(NoticeSet) /\ worker.text \in Texts
  BY DEF Types, SourceTypes
<1>2. worker.phase = "answer" /\ worker'.phase = "answer" /\ UNCHANGED <<link, answer, actor, late, backend>>
  BY <1>1 DEF WorkerSpeaks, projection, kept
<1> DEFINE n == [kind |-> "delta", text |-> <<Len(worker'.text)>>]
<1>3. queue' = IF link = "down" \/ backend = "terminal" THEN queue ELSE Append(queue, n)
  BY DEF WorkerSpeaks, Notifies
<1>4. n \in NoticeSet /\ n.kind = "delta"
  <2>1. Len(worker.text) + 1 \in Nat
    BY <1>1, LenProperties DEF Texts
  <2>2. Append(worker.text, Len(worker.text) + 1) \in Texts
    BY <1>1, <2>1, AppendProperties DEF Texts
  <2>3. worker'.text = Append(worker.text, Len(worker.text) + 1)
    BY <1>1 DEF WorkerSpeaks
  <2>4. Len(worker'.text) \in Nat
    BY <2>2, <2>3, LenProperties DEF Texts
  <2>5. <<Len(worker'.text)>> \in Texts
    BY <2>4 DEF Texts
  <2> QED BY <2>5 DEF NoticeSet, Kinds
<1> HIDE DEF n
<1>5. ~AnswerEnded /\ ~AnswerEnded'
  BY <1>2 DEF AnswerEnded
<1>6. \A i \in DOMAIN queue' : queue'[i] = n \/ \E j \in DOMAIN queue : queue[j] = queue'[i]
  BY <1>1, <1>3, <1>4, AppendKeepsEnds
<1>7. \A i \in DOMAIN queue' : queue'[i].kind # "item/completed"
  BY <1>4, <1>5, <1>6 DEF EndInv
<1>8. link' = "down" => queue' = <<>>
  BY <1>2, <1>3 DEF EndInv
<1>9. FinalTextIsWhole'
  BY <1>5 DEF FinalTextIsWhole, EndIsKnown
<1> QED BY <1>2, <1>5, <1>7, <1>8, <1>9 DEF EndInv

(* The thread is read and what was read is applied. *)
LEMMA HydratingKeepsEnds ==
    ASSUME Types, EndInv, WorkerReads \/ Hydrates
    PROVE  EndInv'
<1>1. worker \in [phase : PhaseNames, text : Texts]
  BY DEF Types, SourceTypes
<1>2. CASE WorkerReads
  <2>1. PICK phase \in {worker.phase} \cup (IF worker.phase = "answer" THEN {"turn"} ELSE {}) :
            answer' = [phase |-> phase, text |-> worker.text]
    BY <1>2 DEF WorkerReads
  <2>2. answer'.text = worker.text /\ (answer'.phase \in {"answered", "over"} => worker.phase = answer'.phase)
    BY <2>1
  <2>3. UNCHANGED <<worker, link, queue, actor, late, backend>>
    BY <1>2 DEF WorkerReads, projection, kept
  <2> QED BY <2>2, <2>3 DEF EndInv, AnswerEnded, EndFollows, FinalTextIsWhole, EndIsKnown
<1>3. CASE Hydrates
  <2>1. link = "joining" /\ link' = "up" /\ answer'.phase = "none" /\ UNCHANGED <<worker, queue, backend>>
        /\ actor' = HydratedFrom(answer)
        /\ late' = (answer.phase \notin {"answered", "over"} /\ (late \/ EndIsKnown))
    BY <1>3 DEF Hydrates, NoAnswer, kept
  <2>2. FinalTextIsWhole'
    <3> SUFFICES ASSUME EndIsKnown, ~late' PROVE actor'.text = worker.text /\ actor'.final
      BY <2>1 DEF FinalTextIsWhole, EndIsKnown, AnswerEnded
    <3>1. answer.phase \in {"answered", "over"}
      BY <2>1
    <3> QED BY <2>1, <3>1, HydratedEnds DEF EndInv
  <2>3. AnswerEnded' = AnswerEnded
    BY <2>1 DEF AnswerEnded
  <2> QED BY <2>1, <2>2, <2>3 DEF EndInv, EndFollows
<1> QED BY <1>2, <1>3

(* Every step keeps the end. *)
LEMMA EndStays ==
    ASSUME Types, EndInv, [CaptureNext]_captureVars
    PROVE  EndInv'
<1>1. EndFollows(<<>>)
  BY FramesOfOne DEF EndFollows
<1>2. CASE HearsDelta \/ HearsNotice
  BY <1>2, HearingKeepsEnds DEF HearsDelta, HearsNotice, Told, kept
<1>3. CASE Connects
  <2>1. backend = "web" /\ link = "down" /\ link' = "joining" /\ UNCHANGED <<worker, answer, queue, actor, late, backend>>
    BY <1>3 DEF Connects, projection, kept
  <2> QED BY <2>1 DEF EndInv, AnswerEnded, EndFollows, FinalTextIsWhole
<1>4. CASE LinkLost \/ OwnerRestarts
  <2>1. link' = "down" /\ answer'.phase = "none" /\ queue' = <<>> /\ UNCHANGED <<worker, backend>>
    BY <1>4 DEF LinkLost, OwnerRestarts, NoAnswer, kept
  <2> QED BY <1>1, <2>1, FramesOfOne DEF EndInv, FinalTextIsWhole
<1>5. ASSUME UNCHANGED <<worker, link, answer, queue, actor, late, backend>> PROVE EndInv'
  BY <1>5 DEF EndInv, AnswerEnded, EndFollows, FinalTextIsWhole, EndIsKnown
<1>6. CASE FlushesDelta
  BY <1>5, <1>6 DEF FlushesDelta, sources, kept
<1>7. CASE \/ StreamWakes \/ StreamReads \/ StreamWrites \/ TerminalLooks \/ TerminalWrites \/ StreamEnds
  BY <1>5, <1>7 DEF StreamWakes, StreamReads, StreamWrites, TerminalLooks, TerminalWrites, StreamEnds,
                    sources, projection, kept
<1>8. CASE \/ Starts \/ Receives \/ Paints \/ SeesEnd \/ Breaks \/ Timer \/ OwnerLooks \/ OwnerReads
           \/ Answers \/ RefreshFails \/ Hides \/ Wakes \/ Focuses
  BY <1>5, <1>8 DEF Starts, Receives, Paints, SeesEnd, Breaks, Timer, OwnerLooks, OwnerReads, Answers,
                    RefreshFails, Hides, Wakes, Focuses, sources, projection, kept
<1>9. CASE UNCHANGED captureVars
  BY <1>5, <1>9 DEF captureVars, sources, projection, kept
<1> QED BY <1>2, <1>3, <1>4, <1>6, <1>7, <1>8, <1>9, GoingOnKeepsEnds, SpeakingKeepsEnds, HydratingKeepsEnds
        DEF CaptureNext

-----------------------------------------------------------------------------
CaptureInv == JournalInv /\ Types /\ CoverInv /\ EndInv

(* The whole invariant holds at the start ... *)
LEMMA CaptureStarts == ASSUME CaptureInit PROVE CaptureInv
<1>1. JournalInv
  BY JournalStarts DEF CaptureInit
<1>2. Types
  BY TypesStart
<1>3. CoverInv
  <2>1. sequence = 0 /\ said = <<>> /\ stream.step = "none" /\ wire = <<>>
    BY DEF CaptureInit, Init, NoStream
  <2>2. Len(<<>>) = 0 /\ 1..0 = {}
    BY EmptySeq
  <2> QED BY <2>1, <2>2, FramesOfOne DEF CoverInv
<1>4. EndInv
  <2>1. queue = <<>> /\ worker.phase = "idle" /\ answer.phase = "none" /\ (backend = "terminal" => link = "down")
    BY DEF CaptureInit, NoAnswer
  <2>2. ~AnswerEnded
    BY <2>1 DEF AnswerEnded
  <2> QED BY <2>1, <2>2, FramesOfOne DEF EndInv, FinalTextIsWhole, EndIsKnown
<1> QED BY <1>1, <1>2, <1>3, <1>4 DEF CaptureInv

(* ... and every step keeps it. *)
LEMMA CaptureStays == ASSUME CaptureInv, [CaptureNext]_captureVars PROVE CaptureInv'
<1>1. TypeOK
  BY DEF CaptureInv, JournalInv
<1>2. JournalInv'
  BY StreamIsJournal, JournalStays DEF CaptureInv
<1>3. Types'
  BY <1>1, TypesStay DEF CaptureInv
<1>4. CoverInv'
  BY <1>1, <1>3, CoverStays DEF CaptureInv
<1>5. EndInv'
  BY EndStays DEF CaptureInv
<1> QED BY <1>2, <1>3, <1>4, <1>5 DEF CaptureInv

(* The journal of the stream keeps its budgets and answers a browser that  *)
(* comes back exactly: no event it has missed is left out or told twice.   *)
THEOREM JournalServesTheStream == CaptureSpec => [](BudgetKept /\ ReplayIsExact)
BY StreamUsesTheJournal, JournalKeepsItsBudget, JournalReplaysExactly, PTL

(* A frame of the stream shows all that its number stands for, so that a   *)
(* browser that resumes with the number misses nothing (the stream takes   *)
(* the number before it reads the capture).                                *)
THEOREM FramesShowWhatTheyNumber == CaptureSpec => []FramesCoverTheirId
<1>1. CaptureInit => CaptureInv
  BY CaptureStarts
<1>2. CaptureInv /\ [CaptureNext]_captureVars => CaptureInv'
  BY CaptureStays
<1>3. CaptureInv => FramesCoverTheirId
  BY CoverIsKept DEF CaptureInv, JournalInv
<1> QED BY <1>1, <1>2, <1>3, PTL DEF CaptureSpec

(* When the answer has ended and the actor has heard of it over a link     *)
(* that is up, the actor has the whole text, in whatever order the deltas, *)
(* the end, a lost link and a reading of the thread came.                  *)
THEOREM EndedAnswerIsWhole == CaptureSpec => []FinalTextIsWhole
<1>1. CaptureInit => CaptureInv
  BY CaptureStarts
<1>2. CaptureInv /\ [CaptureNext]_captureVars => CaptureInv'
  BY CaptureStays
<1>3. CaptureInv => FinalTextIsWhole
  BY DEF CaptureInv, EndInv
<1> QED BY <1>1, <1>2, <1>3, PTL DEF CaptureSpec
=============================================================================
