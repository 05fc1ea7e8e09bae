---------------------------- MODULE FramingProofs ----------------------------
(***************************************************************************)
(* Theorems about the framing, for any number of requests, connections and *)
(* failures, wherever the stream is cut: requests are delivered in order   *)
(* and at most once, whole while there is one connection, and each lost    *)
(* connection spoils at most one packet.                                   *)
(*                                                                         *)
(* First lemmas about streams as sequences of tokens, then the steps.      *)
(***************************************************************************)
EXTENDS Framing, CommunicationProofs, FiniteSetTheorems

(* t is the part of s that follows its first k tokens, or begins it.       *)
PartOf(t, s, k) ==
  /\ k \in Nat /\ Len(t) \in Nat /\ Len(s) \in Nat
  /\ \A i \in 1 .. Len(t) : i + k \in 1 .. Len(s) /\ t[i] = s[i + k]

(* u is s, then t. *)
JoinOf(u, s, t) ==
  /\ Len(s) \in Nat /\ Len(t) \in Nat /\ Len(u) = Len(s) + Len(t)
  /\ \A i \in 1 .. Len(s) : u[i] = s[i]
  /\ \A i \in 1 .. Len(t) : u[i + Len(s)] = t[i]

(* What the steps make of streams are such parts and joins.                *)
LEMMA PrefixIsPart ==
  ASSUME NEW S, NEW s \in Seq(S), NEW k \in 0 .. Len(s)
  PROVE  /\ SubSeq(s, 1, k) \in Seq(S) /\ Len(SubSeq(s, 1, k)) = k
         /\ PartOf(SubSeq(s, 1, k), s, 0)
<1>1. \A i \in 1 .. k : s[i] \in S
  BY LenProperties
<1> QED
  BY <1>1, SubSeqProperties, LenProperties DEF PartOf

LEMMA SuffixIsPart ==
  ASSUME NEW S, NEW s \in Seq(S), NEW k \in 0 .. Len(s)
  PROVE  /\ SubSeq(s, k + 1, Len(s)) \in Seq(S)
         /\ Len(SubSeq(s, k + 1, Len(s))) = Len(s) - k
         /\ PartOf(SubSeq(s, k + 1, Len(s)), s, k)
<1>1. \A i \in k + 1 .. Len(s) : s[i] \in S
  BY LenProperties
<1> QED
  BY <1>1, SubSeqProperties, LenProperties DEF PartOf

LEMMA ConcatIsJoin ==
  ASSUME NEW S, NEW s \in Seq(S), NEW t \in Seq(S)
  PROVE  s \o t \in Seq(S) /\ JoinOf(s \o t, s, t)
<1>1. /\ s \o t \in Seq(S) /\ Len(s \o t) = Len(s) + Len(t)
      /\ \A i \in 1 .. Len(s) + Len(t) :
           (s \o t)[i] = IF i <= Len(s) THEN s[i] ELSE t[i - Len(s)]
  BY ConcatProperties
<1>2. Len(s) \in Nat /\ Len(t) \in Nat
  BY LenProperties
<1>3. ASSUME NEW i \in 1 .. Len(t) PROVE (s \o t)[i + Len(s)] = t[i]
  <2>1. /\ i + Len(s) \in 1 .. Len(s) + Len(t) /\ ~(i + Len(s) <= Len(s))
        /\ i + Len(s) - Len(s) = i
    BY <1>2
  <2> QED
    BY <1>1, <2>1
<1>4. ASSUME NEW i \in 1 .. Len(s) PROVE (s \o t)[i] = s[i]
  BY <1>1, <1>2, <1>4
<1> QED
  BY <1>1, <1>2, <1>3, <1>4 DEF JoinOf

LEMMA JoinParts ==
  ASSUME NEW u, NEW s, NEW t, JoinOf(u, s, t)
  PROVE  PartOf(s, u, 0) /\ PartOf(t, u, Len(s))
  BY DEF JoinOf, PartOf

-----------------------------------------------------------------------------
(* Order and precedence hold of every part of a stream.                    *)
LEMMA PartInOrder ==
  ASSUME NEW s, NEW t, NEW k, PartOf(t, s, k), NEW from, StreamInOrder(s, from)
  PROVE  StreamInOrder(t, from)
<1> SUFFICES ASSUME NEW i \in 1 .. Len(t), NEW j \in 1 .. Len(t), i < j,
                    t[i] \in Requests, t[j] \in Requests
             PROVE  /\ from[t[i]] <= from[t[j]]
                    /\ from[t[i]] = from[t[j]] => t[i] <= t[j]
                    /\ t[i] = t[j] => j = i + 1
  BY DEF StreamInOrder
<1>1. /\ i + k \in 1 .. Len(s) /\ j + k \in 1 .. Len(s) /\ k \in Nat
      /\ t[i] = s[i + k] /\ t[j] = s[j + k] /\ Len(t) \in Nat
  BY DEF PartOf
<1>2. i + k < j + k
  BY <1>1
<1>3. /\ from[s[i + k]] <= from[s[j + k]]
      /\ from[s[i + k]] = from[s[j + k]] => s[i + k] <= s[j + k]
      /\ s[i + k] = s[j + k] => j + k = i + k + 1
  BY <1>1, <1>2 DEF StreamInOrder
<1> QED
  BY <1>1, <1>3

LEMMA PartFollows ==
  ASSUME NEW s, NEW t, NEW k, PartOf(t, s, k), NEW from, NEW delivered,
         StreamFollows(s, delivered, from)
  PROVE  StreamFollows(t, delivered, from)
  BY DEF PartOf, StreamFollows

(* A frame is whole wherever its tokens are.                               *)
LEMMA SameTokens ==
  ASSUME NEW s, NEW t, NEW p \in Int, NEW q \in Int, p >= 6,
         \A i \in 1 .. 5 : t[p - i] = s[q - i],
         WholeAt(q, s)
  PROVE  WholeAt(p, t)
  BY DEF WholeAt

(* No other token is an end marker, and the last one ends no later frame.  *)
LEMMA Markers ==
  /\ Bob \notin Requests /\ Start \notin Requests /\ End \notin Requests
  /\ Noise \notin Requests
  /\ End # Bob /\ End # Start /\ Bob # Start /\ End # Noise /\ Start # Noise
  /\ Bob # Noise
  BY BoundsAssumption DEF Bob, Start, End, Noise, Requests

LEMMA AfterEnd ==
  ASSUME NEW s, NEW p \in Nat \ {0}, NEW k \in Nat, s[k] = End, WholeAt(p + k, s)
  PROVE  p >= 6
<1>1. /\ s[p + k - 5] = Bob /\ s[p + k - 4] = Start /\ s[p + k - 1] = Bob
      /\ s[p + k - 3] \in Requests /\ s[p + k - 2] = s[p + k - 3]
  BY DEF WholeAt
<1>2. /\ p = 1 => k = p + k - 1
      /\ p = 2 => k = p + k - 2
      /\ p = 3 => k = p + k - 3
      /\ p = 4 => k = p + k - 4
      /\ p = 5 => k = p + k - 5
  OBVIOUS
<1>3. p # 1 /\ p # 2 /\ p # 3 /\ p # 4 /\ p # 5
  BY <1>1, <1>2, Markers
<1> QED
  BY <1>3

(* Frames are whole in what begins a stream of whole frames, and in what   *)
(* follows the end of one of its frames.                                   *)
LEMMA PartWhole ==
  ASSUME NEW s, NEW t, NEW k, PartOf(t, s, k),
         FramesWhole(s), k = 0 \/ EndsAt(k, s)
  PROVE  FramesWhole(t)
<1> SUFFICES ASSUME NEW p \in 1 .. Len(t), t[p] = End
             PROVE  WholeAt(p, t)
  BY DEF FramesWhole, EndsAt
<1>1. /\ k \in Nat /\ p \in Nat \ {0} /\ p + k \in 1 .. Len(s) /\ t[p] = s[p + k]
      /\ Len(t) \in Nat
  BY DEF PartOf
<1>2. WholeAt(p + k, s)
  BY <1>1 DEF FramesWhole, EndsAt
<1>3. ASSUME k = 0 PROVE p >= 6
  BY <1>1, <1>2, <1>3 DEF WholeAt
<1>4. ASSUME EndsAt(k, s) PROVE p >= 6
  BY <1>1, <1>2, <1>4, AfterEnd DEF EndsAt
<1>5. p >= 6
  BY <1>3, <1>4
<1>6. ASSUME NEW i \in 1 .. 5 PROVE t[p - i] = s[(p + k) - i]
  <2>1. p - i \in 1 .. Len(t) /\ p - i + k = (p + k) - i
    BY <1>1, <1>5
  <2> QED
    BY <2>1 DEF PartOf
<1> QED
  BY <1>1, <1>2, <1>5, <1>6, SameTokens

(* Frames stay whole when a stream goes on with another.                   *)
LEMMA JoinWhole ==
  ASSUME NEW u, NEW s, NEW t, JoinOf(u, s, t), FramesWhole(s), FramesWhole(t)
  PROVE  FramesWhole(u)
<1> SUFFICES ASSUME NEW p \in 1 .. Len(u), u[p] = End
             PROVE  WholeAt(p, u)
  BY DEF FramesWhole, EndsAt
<1>1. /\ Len(s) \in Nat /\ Len(t) \in Nat /\ Len(u) = Len(s) + Len(t)
      /\ p \in Nat
  BY DEF JoinOf
<1>2. CASE p <= Len(s)
  <2>1. p \in 1 .. Len(s) /\ s[p] = End
    BY <1>1, <1>2 DEF JoinOf
  <2>2. WholeAt(p, s) /\ p >= 6
    BY <2>1 DEF FramesWhole, EndsAt, WholeAt
  <2>3. ASSUME NEW i \in 1 .. 5 PROVE u[p - i] = s[p - i]
    <3>1. p - i \in 1 .. Len(s)
      BY <1>1, <1>2, <2>2
    <3> QED
      BY <3>1 DEF JoinOf
  <2>4. p \in Int /\ p >= 6 /\ \A i \in 1 .. 5 : u[p - i] = s[p - i]
    BY <1>1, <2>2, <2>3
  <2> QED
    BY <2>2, <2>4, SameTokens
<1>3. CASE p > Len(s)
  <2>1. PICK q \in 1 .. Len(t) : p = q + Len(s)
    <3>1. p - Len(s) \in 1 .. Len(t) /\ p = (p - Len(s)) + Len(s)
      BY <1>1, <1>3
    <3> QED
      BY <3>1
  <2>2. t[q] = End
    BY <2>1 DEF JoinOf
  <2>3. WholeAt(q, t) /\ q >= 6 /\ q \in Nat
    BY <1>1, <2>2 DEF FramesWhole, EndsAt, WholeAt
  <2>4. ASSUME NEW i \in 1 .. 5 PROVE u[p - i] = t[q - i]
    <3>1. q - i \in 1 .. Len(t) /\ (q - i) + Len(s) = p - i
      BY <1>1, <2>1, <2>3
    <3> QED
      BY <3>1 DEF JoinOf
  <2>5. p >= 6
    BY <1>1, <2>1, <2>3
  <2>6. p \in Int /\ q \in Int /\ \A i \in 1 .. 5 : u[p - i] = t[q - i]
    BY <1>1, <2>3, <2>4
  <2> QED
    BY <2>3, <2>5, <2>6, SameTokens
<1> QED
  BY <1>1, <1>2, <1>3

(* The frame of a request: its six tokens.                                 *)
LEMMA FrameValues ==
  ASSUME NEW S, NEW r \in S, {Bob, Start, End} \subseteq S
  PROVE  /\ Frame(r) \in Seq(S) /\ Len(Frame(r)) = 6
         /\ Frame(r)[1] = Bob /\ Frame(r)[2] = Start /\ Frame(r)[3] = r
         /\ Frame(r)[4] = r /\ Frame(r)[5] = Bob /\ Frame(r)[6] = End
<1> DEFINE a == <<Bob, Start>>
           b == <<r, r>>
           c == <<Bob, End>>
<1>1. a \in Seq(S) /\ Len(a) = 2 /\ a[1] = Bob /\ a[2] = Start
  OBVIOUS
<1>2. b \in Seq(S) /\ Len(b) = 2 /\ b[1] = r /\ b[2] = r
  OBVIOUS
<1>3. c \in Seq(S) /\ Len(c) = 2 /\ c[1] = Bob /\ c[2] = End
  OBVIOUS
<1>4. Frame(r) = (a \o b) \o c
  BY DEF Frame, BOBSTART, BOBEND
<1> HIDE DEF a, b, c
<1>5. /\ a \o b \in Seq(S) /\ Len(a \o b) = 4
      /\ (a \o b)[1] = a[1] /\ (a \o b)[2] = a[2]
      /\ (a \o b)[3] = b[1] /\ (a \o b)[4] = b[2]
  <2>1. /\ a \o b \in Seq(S) /\ Len(a \o b) = Len(a) + Len(b)
        /\ \A i \in 1 .. Len(a) + Len(b) :
             (a \o b)[i] = IF i <= Len(a) THEN a[i] ELSE b[i - Len(a)]
    <3>1. a \in Seq(S) /\ b \in Seq(S)
      BY <1>1, <1>2
    <3> QED
      BY <3>1, ConcatProperties
  <2> QED
    BY <1>1, <1>2, <2>1
<1> DEFINE d == a \o b
<1>6. d \in Seq(S) /\ Len(d) = 4
  BY <1>5
<1> HIDE DEF d
<1>7. /\ d \o c \in Seq(S) /\ JoinOf(d \o c, d, c)
  BY <1>3, <1>6, ConcatIsJoin
<1>8. /\ (d \o c)[1] = d[1] /\ (d \o c)[2] = d[2] /\ (d \o c)[3] = d[3]
      /\ (d \o c)[4] = d[4] /\ (d \o c)[5] = c[1] /\ (d \o c)[6] = c[2]
  BY <1>3, <1>6, <1>7, SMTT(40) DEF JoinOf
<1>9. Len(d \o c) = 6
  BY <1>3, <1>6, <1>7 DEF JoinOf
<1> QED
  BY <1>1, <1>2, <1>3, <1>4, <1>5, <1>7, <1>8, <1>9 DEF d

LEMMA FrameTokens ==
  ASSUME NEW r \in Requests
  PROVE  /\ Frame(r) \in Seq(Tokens) /\ Len(Frame(r)) = 6
         /\ Frame(r)[1] = Bob /\ Frame(r)[2] = Start /\ Frame(r)[3] = r
         /\ Frame(r)[4] = r /\ Frame(r)[5] = Bob /\ Frame(r)[6] = End
<1>1. r \in Tokens /\ {Bob, Start, End} \subseteq Tokens
  BY DEF Tokens
<1> QED
  BY <1>1, FrameValues

LEMMA FrameRequest ==
  ASSUME NEW r \in Requests, NEW i \in 1 .. Len(Frame(r)), Frame(r)[i] \in Requests
  PROVE  Frame(r)[i] = r
<1> DEFINE f == Frame(r)
<1>1. /\ Len(f) = 6 /\ f[1] = Bob /\ f[2] = Start /\ f[3] = r /\ f[4] = r
      /\ f[5] = Bob /\ f[6] = End
  BY FrameTokens
<1> HIDE DEF f
<1>2. \A k \in 1 .. Len(f) : f[k] \in Requests => f[k] = r
  BY <1>1, Markers
<1> QED
  BY <1>2 DEF f

LEMMA FrameWhole ==
  ASSUME NEW r \in Requests
  PROVE  /\ FramesWhole(Frame(r))
         /\ \A from \in [Requests -> Int] : StreamInOrder(Frame(r), from)
<1>0. r # End /\ r # Bob /\ r # Start
  BY Markers
<1> DEFINE f == Frame(r)
<1>1. /\ f[1] = Bob /\ f[2] = Start /\ f[3] = r /\ f[4] = r /\ f[5] = Bob
      /\ f[6] = End /\ Len(f) = 6
  BY FrameTokens
<1> HIDE DEF f
<1>2. ASSUME NEW p \in 1 .. 6, f[p] = End PROVE WholeAt(p, f)
  <2>1. p = 6
    BY <1>0, <1>1, <1>2, Markers
  <2> QED
    BY <1>1, <2>1 DEF WholeAt
<1>3. ASSUME NEW i \in 1 .. 6, f[i] \in Requests PROVE i = 3 \/ i = 4
  BY <1>1, <1>3, Markers
<1>4. ASSUME NEW i \in 1 .. 6, NEW j \in 1 .. 6, i < j,
             f[i] \in Requests, f[j] \in Requests
      PROVE  i = 3 /\ j = 4
  BY <1>3, <1>4
<1>5. FramesWhole(f)
  BY <1>1, <1>2 DEF FramesWhole, EndsAt
<1>6. ASSUME NEW from \in [Requests -> Int] PROVE StreamInOrder(f, from)
  <2> SUFFICES ASSUME NEW i \in 1 .. 6, NEW j \in 1 .. 6, i < j,
                      f[i] \in Requests, f[j] \in Requests
               PROVE  /\ from[f[i]] <= from[f[j]]
                      /\ from[f[i]] = from[f[j]] => f[i] <= f[j]
                      /\ f[i] = f[j] => j = i + 1
    BY <1>1 DEF StreamInOrder
  <2>1. i = 3 /\ j = 4 /\ f[i] = r /\ f[j] = r /\ from[r] \in Int /\ r \in Int
    BY <1>1, <1>4, BoundsAssumption, SMTT(40) DEF Requests
  <2> QED
    BY <2>1
<1> QED
  BY <1>5, <1>6 DEF f

-----------------------------------------------------------------------------
(* The markers and the frames of a part are those of the stream.           *)
LEMMA OccursAt ==
  ASSUME NEW s, NEW j
  PROVE  j \in Occurrences(BOBSTART, s) <=>
           j \in 1 .. Len(s) - 1 /\ s[j] = Bob /\ s[j + 1] = Start
  BY DEF Occurrences, BOBSTART

LEMMA BringerTyped ==
  ASSUME NEW s, NEW from \in [Requests -> Nat], FramesWhole(s),
         NEW p \in 1 .. Len(s), EndsAt(p, s)
  PROVE  /\ p >= 6 /\ p - 2 \in 1 .. Len(s) /\ s[p - 2] \in Requests
         /\ Bringer(p, s, from) \in Nat /\ Bringer(p, s, from) = from[s[p - 2]]
<1>1. WholeAt(p, s)
  BY DEF FramesWhole
<1>2. p >= 6 /\ s[p - 2] \in Requests
  BY <1>1 DEF WholeAt
<1> QED
  BY <1>2 DEF Bringer

LEMMA PartEnds ==
  ASSUME NEW s, NEW t, NEW k, PartOf(t, s, k), FramesWhole(t),
         NEW from \in [Requests -> Nat], NEW p \in 1 .. Len(t), EndsAt(p, t)
  PROVE  /\ p + k \in 1 .. Len(s) /\ EndsAt(p + k, s)
         /\ Bringer(p + k, s, from) = Bringer(p, t, from)
<1>1. p - 2 \in 1 .. Len(t) /\ p \in Nat /\ k \in Nat
  BY BringerTyped DEF PartOf
<1>2. p + k \in 1 .. Len(s) /\ t[p] = s[p + k] /\ t[p - 2] = s[(p - 2) + k]
  BY <1>1 DEF PartOf
<1>3. (p - 2) + k = (p + k) - 2
  BY <1>1
<1> QED
  BY <1>2, <1>3 DEF EndsAt, Bringer

(* What of a part ends a frame, and where a frame broke off in it.         *)
LEMMA BrokenInSuffix ==
  ASSUME NEW s, NEW t, NEW k, PartOf(t, s, k), Len(t) + k = Len(s),
         NEW j \in Nat, BrokenAt(j, t)
  PROVE  BrokenAt(j + k, s)
<1>1. j \in 1 .. Len(t) - 1 /\ t[j] = Bob /\ t[j + 1] = Start /\ ~EndsAt(j + 5, t)
  BY OccursAt DEF BrokenAt
<1>2. Len(t) \in Nat /\ Len(s) \in Nat /\ k \in Nat
  BY DEF PartOf
<1>3. j \in 1 .. Len(t) /\ j + 1 \in 1 .. Len(t) /\ (j + 1) + k = (j + k) + 1
  BY <1>1, <1>2
<1>4. s[j + k] = Bob /\ s[(j + k) + 1] = Start
  BY <1>1, <1>3 DEF PartOf
<1>5. j + k \in 1 .. Len(s) - 1
  BY <1>1, <1>2
<1>6. ASSUME EndsAt((j + k) + 5, s) PROVE FALSE
  <2>1. (j + k) + 5 \in 1 .. Len(s) /\ s[(j + k) + 5] = End
    BY <1>6 DEF EndsAt
  <2>2. j + 5 \in 1 .. Len(t) /\ (j + 5) + k = (j + k) + 5
    BY <1>1, <1>2, <2>1
  <2>3. t[j + 5] = End
    BY <2>1, <2>2 DEF PartOf
  <2> QED
    BY <1>1, <2>2, <2>3 DEF EndsAt
<1> QED
  BY <1>4, <1>5, <1>6, OccursAt DEF BrokenAt

LEMMA BrokenInPrefix ==
  ASSUME NEW s, NEW t, PartOf(t, s, 0), FramesWhole(s),
         NEW p \in 1 .. Len(t), EndsAt(p, t), NEW j \in 1 .. p
  PROVE  BrokenAt(j, t) <=> BrokenAt(j, s)
<1>1. /\ Len(t) \in Nat /\ Len(s) \in Nat /\ p \in Nat /\ j \in Nat /\ Len(t) <= Len(s)
      /\ \A i \in 1 .. Len(t) : t[i] = s[i]
  <2>1. Len(t) \in Nat /\ Len(s) \in Nat /\ \A i \in 1 .. Len(t) : i + 0 = i
    BY DEF PartOf
  <2>2. \A i \in 1 .. Len(t) : i \in 1 .. Len(s) /\ t[i] = s[i]
    BY <2>1 DEF PartOf
  <2> QED
    BY <2>1, <2>2
<1>2. p \in 1 .. Len(s) /\ s[p] = End /\ t[p] = End
  BY <1>1 DEF EndsAt
<1>3. ASSUME BrokenAt(j, s) PROVE BrokenAt(j, t)
  <2>1. s[j] = Bob /\ s[j + 1] = Start /\ ~EndsAt(j + 5, s)
    BY <1>3, OccursAt DEF BrokenAt
  <2>2. j # p
    BY <1>2, <2>1, Markers
  <2>3. j \in 1 .. Len(t) - 1 /\ j \in 1 .. Len(t) /\ j + 1 \in 1 .. Len(t)
    BY <1>1, <2>2
  <2>4. t[j] = Bob /\ t[j + 1] = Start
    BY <1>1, <2>1, <2>3
  <2>5. ~EndsAt(j + 5, t)
    BY <1>1, <2>1 DEF EndsAt
  <2> QED
    BY <2>3, <2>4, <2>5, OccursAt DEF BrokenAt
<1>4. ASSUME BrokenAt(j, t) PROVE BrokenAt(j, s)
  <2>1. j \in 1 .. Len(t) - 1 /\ t[j] = Bob /\ t[j + 1] = Start /\ ~EndsAt(j + 5, t)
    BY <1>4, OccursAt DEF BrokenAt
  <2>2. j \in 1 .. Len(s) - 1 /\ s[j] = Bob /\ s[j + 1] = Start
    BY <1>1, <2>1, SMTT(40)
  <2>3. ASSUME EndsAt(j + 5, s) PROVE FALSE
    <3>1. WholeAt(j + 5, s)
      BY <2>3 DEF FramesWhole, EndsAt
    <3>2. /\ (j + 5) - 5 = j /\ (j + 5) - 4 = j + 1 /\ (j + 5) - 3 = j + 2
          /\ (j + 5) - 2 = j + 3 /\ (j + 5) - 1 = j + 4
      BY <1>1
    <3>3. /\ s[j] = Bob /\ s[j + 1] = Start /\ s[j + 2] \in Requests
          /\ s[j + 3] \in Requests /\ s[j + 4] = Bob
      BY <3>1, <3>2 DEF WholeAt
    <3>4. p # j /\ p # j + 1 /\ p # j + 2 /\ p # j + 3 /\ p # j + 4
      BY <1>2, <3>3, Markers
    <3>5. j + 5 \in 1 .. Len(t)
      BY <1>1, <3>4
    <3>6. t[j + 5] = End
      BY <1>1, <2>3, <3>5 DEF EndsAt
    <3> QED
      BY <2>1, <3>5, <3>6 DEF EndsAt
  <2> QED
    BY <2>2, <2>3, OccursAt DEF BrokenAt
<1> QED
  BY <1>3, <1>4

(* The two conditions on broken frames, in what begins a stream.           *)
LEMMA PrefixBefore ==
  ASSUME NEW s, NEW t, PartOf(t, s, 0), FramesWhole(s), FramesWhole(t),
         NEW from \in [Requests -> Nat], NEW spoiled, NEW c,
         NEW p \in 1 .. Len(t), EndsAt(p, t)
  PROVE  BreaksBefore(p, c, s, spoiled, from) <=> BreaksBefore(p, c, t, spoiled, from)
<1>1. \A j \in 1 .. p : BrokenAt(j, t) <=> BrokenAt(j, s)
  BY BrokenInPrefix
<1>2. /\ p \in Nat /\ Len(t) \in Nat
      /\ \A i \in 1 .. Len(t) : i \in 1 .. Len(s) /\ t[i] = s[i]
  <2>1. Len(t) \in Nat /\ Len(s) \in Nat /\ \A i \in 1 .. Len(t) : i + 0 = i
    BY DEF PartOf
  <2> QED
    BY <2>1 DEF PartOf
<1>3. ASSUME NEW q \in 1 .. p
      PROVE  /\ EndsAt(q, t) <=> EndsAt(q, s)
             /\ EndsAt(q, t) => Bringer(q, t, from) = Bringer(q, s, from)
  <2>1. q \in 1 .. Len(t) /\ q \in 1 .. Len(s) /\ t[q] = s[q]
    BY <1>2
  <2>2. ASSUME EndsAt(q, t) PROVE Bringer(q, t, from) = Bringer(q, s, from)
    BY <1>2, <2>1, <2>2, BringerTyped DEF Bringer
  <2> QED
    BY <2>1, <2>2 DEF EndsAt
<1>4. \A j \in 1 .. p : \A q \in 1 .. j : q \in 1 .. p
  BY <1>2
<1> QED
  BY <1>1, <1>3, <1>4 DEF BreaksBefore

LEMMA PrefixBreaks ==
  ASSUME NEW s, NEW t, PartOf(t, s, 0), FramesWhole(s), FramesWhole(t),
         NEW from \in [Requests -> Nat], NEW spoiled,
         BreaksBetween(s, spoiled, from)
  PROVE  BreaksBetween(t, spoiled, from)
<1> SUFFICES ASSUME NEW p \in 1 .. Len(t), EndsAt(p, t)
             PROVE  /\ spoiled < Bringer(p, t, from)
                    /\ BreaksBefore(p, Bringer(p, t, from), t, spoiled, from)
  BY DEF BreaksBetween
<1>1. /\ p + 0 \in 1 .. Len(s) /\ EndsAt(p + 0, s)
      /\ Bringer(p + 0, s, from) = Bringer(p, t, from)
  BY PartEnds
<1>2. p + 0 = p
  BY DEF PartOf
<1>3. /\ spoiled < Bringer(p, t, from)
      /\ BreaksBefore(p, Bringer(p, t, from), s, spoiled, from)
  BY <1>1, <1>2 DEF BreaksBetween
<1> QED
  BY <1>3, PrefixBefore

(* In what follows a frame that was taken, also if the packet was spoiled. *)
LEMMA SuffixBefore ==
  ASSUME NEW s, NEW t, NEW k, PartOf(t, s, k), Len(t) + k = Len(s), EndsAt(k, s),
         FramesWhole(s), FramesWhole(t), NEW from \in [Requests -> Nat],
         NEW spoiled \in Nat, NEW after \in Nat,
         after = spoiled \/ (after = spoiled + 1 /\ after < Bringer(k, s, from)),
         NEW c \in Nat, NEW p \in 0 .. Len(t),
         BreaksBefore(p + k, c, s, spoiled, from)
  PROVE  BreaksBefore(p, c, t, after, from)
<1> SUFFICES ASSUME NEW j \in 1 .. p, BrokenAt(j, t)
             PROVE  /\ after + 1 < c
                    /\ \A q \in 1 .. j : EndsAt(q, t) => Bringer(q, t, from) < c
  BY DEF BreaksBefore
<1>1. /\ k \in Nat /\ Len(t) \in Nat /\ Len(s) \in Nat /\ j \in Nat /\ p \in Nat
      /\ k \in 1 .. Len(s)
  BY DEF PartOf, EndsAt
<1>2. BrokenAt(j + k, s) /\ j + k \in 1 .. p + k
  BY <1>1, BrokenInSuffix
<1>3. /\ spoiled + 1 < c
      /\ \A q \in 1 .. j + k : EndsAt(q, s) => Bringer(q, s, from) < c
  BY <1>2 DEF BreaksBefore
<1>4. Bringer(k, s, from) < c /\ Bringer(k, s, from) \in Nat
  BY <1>1, <1>3, BringerTyped
<1>5. ASSUME NEW q \in 1 .. j, EndsAt(q, t) PROVE Bringer(q, t, from) < c
  <2>1. q \in 1 .. Len(t) /\ q + k \in 1 .. j + k
    BY <1>1, <1>5 DEF EndsAt
  <2>2. EndsAt(q + k, s) /\ Bringer(q + k, s, from) = Bringer(q, t, from)
    BY <1>5, <2>1, PartEnds
  <2> QED
    BY <1>3, <2>1, <2>2
<1> QED
  BY <1>3, <1>4, <1>5

LEMMA SuffixBreaks ==
  ASSUME NEW s, NEW t, NEW k, PartOf(t, s, k), Len(t) + k = Len(s), EndsAt(k, s),
         FramesWhole(s), FramesWhole(t), NEW from \in [Requests -> Nat],
         StreamInOrder(s, from),
         NEW spoiled \in Nat, NEW after \in Nat,
         after = spoiled \/ (after = spoiled + 1 /\ after < Bringer(k, s, from)),
         BreaksBetween(s, spoiled, from)
  PROVE  BreaksBetween(t, after, from)
<1> SUFFICES ASSUME NEW p \in 1 .. Len(t), EndsAt(p, t)
             PROVE  /\ after < Bringer(p, t, from)
                    /\ BreaksBefore(p, Bringer(p, t, from), t, after, from)
  BY DEF BreaksBetween
<1>1. /\ k \in Nat /\ Len(t) \in Nat /\ Len(s) \in Nat /\ p \in Nat
      /\ k \in 1 .. Len(s) /\ p \in 0 .. Len(t)
  BY DEF PartOf, EndsAt
<1>2. /\ p + k \in 1 .. Len(s) /\ EndsAt(p + k, s)
      /\ Bringer(p + k, s, from) = Bringer(p, t, from)
  BY PartEnds
<1>3. /\ spoiled < Bringer(p, t, from)
      /\ BreaksBefore(p + k, Bringer(p, t, from), s, spoiled, from)
  BY <1>2 DEF BreaksBetween
<1>4. /\ Bringer(p, t, from) \in Nat /\ p >= 6
      /\ Bringer(k, s, from) \in Nat /\ Bringer(k, s, from) = from[s[k - 2]]
      /\ k >= 6 /\ s[k - 2] \in Requests /\ s[(p + k) - 2] \in Requests
      /\ Bringer(p + k, s, from) = from[s[(p + k) - 2]]
  BY <1>1, <1>2, BringerTyped
<1>5. /\ k - 2 \in 1 .. Len(s) /\ (p + k) - 2 \in 1 .. Len(s)
      /\ k - 2 < (p + k) - 2
  BY <1>1, <1>2, <1>4, SMTT(40)
<1>6. from[s[k - 2]] <= from[s[(p + k) - 2]]
  BY <1>4, <1>5 DEF StreamInOrder
<1>7. after < Bringer(p, t, from)
  BY <1>2, <1>3, <1>4, <1>6
<1>8. BreaksBefore(p, Bringer(p, t, from), t, after, from)
  BY <1>1, <1>3, <1>4, SuffixBefore
<1> QED
  BY <1>7, <1>8

(* A stream that goes on: order, precedence, and where frames broke off.   *)
LEMMA JoinOrder ==
  ASSUME NEW u, NEW s, NEW t, JoinOf(u, s, t), NEW from,
         StreamInOrder(s, from), StreamInOrder(t, from),
         \A i \in 1 .. Len(s), j \in 1 .. Len(t) :
           s[i] \in Requests /\ t[j] \in Requests =>
             /\ from[s[i]] <= from[t[j]] /\ s[i] # t[j]
             /\ from[s[i]] = from[t[j]] => s[i] <= t[j]
  PROVE  StreamInOrder(u, from)
<1> SUFFICES ASSUME NEW i \in 1 .. Len(u), NEW j \in 1 .. Len(u), i < j,
                    u[i] \in Requests, u[j] \in Requests
             PROVE  /\ from[u[i]] <= from[u[j]]
                    /\ from[u[i]] = from[u[j]] => u[i] <= u[j]
                    /\ u[i] = u[j] => j = i + 1
  BY DEF StreamInOrder
<1>1. /\ Len(s) \in Nat /\ Len(t) \in Nat /\ Len(u) = Len(s) + Len(t)
      /\ i \in Nat /\ j \in Nat
  BY DEF JoinOf
<1>2. CASE j <= Len(s)
  <2>1. i \in 1 .. Len(s) /\ j \in 1 .. Len(s)
    BY <1>1, <1>2
  <2>2. u[i] = s[i] /\ u[j] = s[j]
    BY <2>1 DEF JoinOf
  <2> QED
    BY <2>1, <2>2 DEF StreamInOrder
<1>3. CASE j > Len(s)
  <2>1. PICK b \in 1 .. Len(t) : j = b + Len(s)
    <3>1. j - Len(s) \in 1 .. Len(t) /\ j = (j - Len(s)) + Len(s)
      BY <1>1, <1>3
    <3> QED
      BY <3>1
  <2>2. u[j] = t[b]
    BY <2>1 DEF JoinOf
  <2>3. CASE i <= Len(s)
    <3>1. i \in 1 .. Len(s)
      BY <1>1, <2>3
    <3>2. u[i] = s[i]
      BY <3>1 DEF JoinOf
    <3> QED
      BY <2>2, <3>1, <3>2
  <2>4. CASE i > Len(s)
    <3>1. PICK a \in 1 .. Len(t) : i = a + Len(s)
      <4>1. i - Len(s) \in 1 .. Len(t) /\ i = (i - Len(s)) + Len(s)
        BY <1>1, <2>4
      <4> QED
        BY <4>1
    <3>2. u[i] = t[a]
      BY <3>1 DEF JoinOf
    <3>3. a < b
      BY <1>1, <2>1, <3>1
    <3>4. /\ from[t[a]] <= from[t[b]]
          /\ from[t[a]] = from[t[b]] => t[a] <= t[b]
          /\ t[a] = t[b] => b = a + 1
      BY <2>2, <3>2, <3>3 DEF StreamInOrder
    <3>5. b = a + 1 => j = i + 1
      BY <1>1, <2>1, <3>1
    <3> QED
      BY <2>2, <3>2, <3>4, <3>5
  <2> QED
    BY <1>1, <2>3, <2>4
<1> QED
  BY <1>1, <1>2, <1>3

LEMMA JoinFollows ==
  ASSUME NEW u, NEW s, NEW t, JoinOf(u, s, t), NEW from, NEW delivered,
         StreamFollows(s, delivered, from), StreamFollows(t, delivered, from)
  PROVE  StreamFollows(u, delivered, from)
<1> SUFFICES ASSUME NEW i \in 1 .. Len(u), NEW d \in 1 .. Len(delivered),
                    u[i] \in Requests, delivered[d] # Garbage
             PROVE  /\ u[i] # delivered[d]
                    /\ from[u[i]] = from[delivered[d]] => delivered[d] < u[i]
  BY DEF StreamFollows
<1>1. /\ Len(s) \in Nat /\ Len(t) \in Nat /\ Len(u) = Len(s) + Len(t) /\ i \in Nat
  BY DEF JoinOf
<1>2. CASE i <= Len(s)
  <2>1. i \in 1 .. Len(s)
    BY <1>1, <1>2
  <2>2. u[i] = s[i]
    BY <2>1 DEF JoinOf
  <2> QED
    BY <2>1, <2>2 DEF StreamFollows
<1>3. CASE i > Len(s)
  <2>1. i - Len(s) \in 1 .. Len(t) /\ (i - Len(s)) + Len(s) = i
    BY <1>1, <1>3
  <2>2. u[i] = t[i - Len(s)]
    BY <2>1 DEF JoinOf
  <2> QED
    BY <2>1, <2>2 DEF StreamFollows
<1> QED
  BY <1>1, <1>2, <1>3

LEMMA JoinBreaks ==
  ASSUME NEW u, NEW s, NEW t, JoinOf(u, s, t), FramesWhole(s), FramesWhole(t),
         NEW from \in [Requests -> Nat], NEW spoiled,
         BreaksBetween(s, spoiled, from),
         \A p \in 1 .. Len(t) : EndsAt(p, t) =>
           /\ spoiled < Bringer(p, t, from)
           /\ BreaksBefore(p + Len(s), Bringer(p, t, from), u, spoiled, from)
  PROVE  BreaksBetween(u, spoiled, from)
<1> SUFFICES ASSUME NEW p \in 1 .. Len(u), EndsAt(p, u)
             PROVE  /\ spoiled < Bringer(p, u, from)
                    /\ BreaksBefore(p, Bringer(p, u, from), u, spoiled, from)
  BY DEF BreaksBetween
<1>1. /\ Len(s) \in Nat /\ Len(t) \in Nat /\ Len(u) = Len(s) + Len(t)
      /\ p \in Nat /\ u[p] = End
  BY DEF JoinOf, EndsAt
<1>2. FramesWhole(u) /\ PartOf(s, u, 0) /\ PartOf(t, u, Len(s))
  BY JoinWhole, JoinParts
<1>3. CASE p <= Len(s)
  <2>1. p \in 1 .. Len(s) /\ p + 0 = p
    BY <1>1, <1>3
  <2>2. EndsAt(p, s)
    BY <1>1, <2>1 DEF JoinOf, EndsAt
  <2>3. Bringer(p, u, from) = Bringer(p, s, from)
    BY <1>2, <2>1, <2>2, PartEnds
  <2>4. /\ spoiled < Bringer(p, s, from)
        /\ BreaksBefore(p, Bringer(p, s, from), s, spoiled, from)
    BY <2>1, <2>2 DEF BreaksBetween
  <2> QED
    BY <1>2, <2>1, <2>2, <2>3, <2>4, PrefixBefore
<1>4. CASE p > Len(s)
  <2>1. PICK q \in 1 .. Len(t) : p = q + Len(s)
    <3>1. p - Len(s) \in 1 .. Len(t) /\ p = (p - Len(s)) + Len(s)
      BY <1>1, <1>4
    <3> QED
      BY <3>1
  <2>2. EndsAt(q, t)
    BY <1>1, <2>1 DEF JoinOf, EndsAt
  <2>3. Bringer(p, u, from) = Bringer(q, t, from)
    BY <1>2, <2>1, <2>2, PartEnds
  <2> QED
    BY <2>1, <2>2, <2>3
<1> QED
  BY <1>1, <1>3, <1>4

LEMMA BrokenOfSuffix ==
  ASSUME NEW s, NEW t, NEW k, PartOf(t, s, k), Len(t) + k = Len(s),
         NEW j \in Nat \ {0}, BrokenAt(j + k, s)
  PROVE  BrokenAt(j, t)
<1>1. /\ j + k \in 1 .. Len(s) - 1 /\ s[j + k] = Bob /\ s[(j + k) + 1] = Start
      /\ ~EndsAt((j + k) + 5, s)
  BY OccursAt DEF BrokenAt
<1>2. Len(t) \in Nat /\ Len(s) \in Nat /\ k \in Nat
  BY DEF PartOf
<1>3. /\ j \in 1 .. Len(t) - 1 /\ j \in 1 .. Len(t) /\ j + 1 \in 1 .. Len(t)
      /\ (j + 1) + k = (j + k) + 1
  BY <1>1, <1>2
<1>4. t[j] = Bob /\ t[j + 1] = Start
  BY <1>1, <1>3 DEF PartOf
<1>5. ASSUME EndsAt(j + 5, t) PROVE FALSE
  <2>1. j + 5 \in 1 .. Len(t) /\ t[j + 5] = End /\ (j + 5) + k = (j + k) + 5
    BY <1>2, <1>5 DEF EndsAt
  <2>2. (j + k) + 5 \in 1 .. Len(s) /\ s[(j + k) + 5] = End
    BY <2>1 DEF PartOf
  <2> QED
    BY <1>1, <2>2 DEF EndsAt
<1> QED
  BY <1>3, <1>4, <1>5, OccursAt DEF BrokenAt

(* What connection d still carries, behind more that was read of an        *)
(* earlier one, c.                                                         *)
LEMMA LaterBefore ==
  ASSUME NEW u, NEW s, NEW t, JoinOf(u, s, t), NEW v, NEW b, JoinOf(v, b, t),
         FramesWhole(s), FramesWhole(t), NEW from \in [Requests -> Nat],
         NEW spoiled \in Nat, NEW c \in Nat, NEW d \in Nat, c < d, spoiled < c,
         \A i \in 1 .. Len(s) : s[i] \in Requests => from[s[i]] <= c,
         NEW p \in 0 .. Len(t), BreaksBefore(p + Len(b), d, v, spoiled, from)
  PROVE  BreaksBefore(p + Len(s), d, u, spoiled, from)
<1> SUFFICES ASSUME NEW j \in 1 .. p + Len(s), BrokenAt(j, u)
             PROVE  /\ spoiled + 1 < d
                    /\ \A q \in 1 .. j : EndsAt(q, u) => Bringer(q, u, from) < d
  BY DEF BreaksBefore
<1>1. /\ Len(s) \in Nat /\ Len(t) \in Nat /\ Len(u) = Len(s) + Len(t)
      /\ Len(b) \in Nat /\ Len(v) = Len(b) + Len(t) /\ p \in Nat /\ j \in Nat
  BY DEF JoinOf
<1>2. /\ FramesWhole(u) /\ PartOf(s, u, 0) /\ PartOf(t, u, Len(s))
      /\ PartOf(t, v, Len(b))
  BY JoinWhole, JoinParts
<1>3. spoiled + 1 < d
  OBVIOUS
<1>4. ASSUME NEW q \in 1 .. j, EndsAt(q, u) PROVE Bringer(q, u, from) < d
  <2>1. q \in 1 .. Len(u) /\ u[q] = End /\ q \in Nat
    BY <1>4 DEF EndsAt
  <2>2. CASE q <= Len(s)
    <3>1. q \in 1 .. Len(s) /\ q + 0 = q
      BY <2>1, <2>2
    <3>2. EndsAt(q, s)
      BY <2>1, <3>1 DEF JoinOf, EndsAt
    <3>3. Bringer(q, u, from) = Bringer(q, s, from)
      BY <1>2, <3>1, <3>2, PartEnds, SMTT(40)
    <3>4. /\ q - 2 \in 1 .. Len(s) /\ s[q - 2] \in Requests
          /\ Bringer(q, s, from) = from[s[q - 2]] /\ Bringer(q, s, from) \in Nat
      BY <3>1, <3>2, BringerTyped
    <3>5. from[s[q - 2]] <= c
      BY <3>4
    <3> QED
      BY <3>3, <3>4, <3>5, SMTT(40)
  <2>3. CASE q > Len(s)
    <3>1. PICK x \in 1 .. Len(t) : q = x + Len(s)
      <4>1. q - Len(s) \in 1 .. Len(t) /\ q = (q - Len(s)) + Len(s)
        BY <1>1, <2>1, <2>3
      <4> QED
        BY <4>1
    <3>2. PICK y \in 1 .. p : j = y + Len(s)
      <4>1. j - Len(s) \in 1 .. p /\ j = (j - Len(s)) + Len(s)
        BY <1>1, <2>1, <2>3
      <4> QED
        BY <4>1
    <3>3. EndsAt(x, t)
      BY <2>1, <3>1 DEF JoinOf, EndsAt
    <3>4. Bringer(q, u, from) = Bringer(x, t, from)
      BY <1>2, <3>1, <3>3, PartEnds, SMTT(40)
    <3>5. EndsAt(x + Len(b), v) /\ Bringer(x + Len(b), v, from) = Bringer(x, t, from)
      BY <1>2, <3>3, PartEnds, SMTT(40)
    <3>6. y \in Nat \ {0} /\ y \in Nat
      BY <1>1
    <3>7. Len(t) + Len(s) = Len(u) /\ Len(t) + Len(b) = Len(v)
      BY <1>1
    <3>8. BrokenAt(y, t)
      BY <1>2, <3>2, <3>6, <3>7, BrokenOfSuffix
    <3>9. BrokenAt(y + Len(b), v)
      BY <1>2, <3>6, <3>7, <3>8, BrokenInSuffix
    <3>10. y + Len(b) \in 1 .. p + Len(b) /\ x + Len(b) \in 1 .. y + Len(b)
      BY <1>1, <3>1, <3>2, <3>6, SMTT(40)
    <3>11. Bringer(x + Len(b), v, from) < d
      BY <3>5, <3>9, <3>10 DEF BreaksBefore
    <3> QED
      BY <3>4, <3>5, <3>11
  <2> QED
    BY <1>1, <2>1, <2>2, <2>3
<1> QED
  BY <1>3, <1>4

-----------------------------------------------------------------------------
(* The server sends another frame: it breaks nothing off.                  *)
LEMMA SendBefore ==
  ASSUME NEW u, NEW s, NEW r \in Requests, JoinOf(u, s, Frame(r)),
         FramesWhole(s), NEW from \in [Requests -> Nat], NEW spoiled, NEW c,
         BreaksBefore(Len(s), c, s, spoiled, from)
  PROVE  BreaksBefore(Len(u), c, u, spoiled, from)
<1> SUFFICES ASSUME NEW j \in 1 .. Len(u), BrokenAt(j, u)
             PROVE  /\ spoiled + 1 < c
                    /\ \A q \in 1 .. j : EndsAt(q, u) => Bringer(q, u, from) < c
  BY DEF BreaksBefore
<1> DEFINE f == Frame(r)
<1>1. /\ Len(f) = 6 /\ f[1] = Bob /\ f[2] = Start /\ f[3] = r /\ f[4] = r
      /\ f[5] = Bob /\ f[6] = End /\ FramesWhole(f) /\ JoinOf(u, s, f)
  BY FrameTokens, FrameWhole
<1> HIDE DEF f
<1>2. /\ Len(s) \in Nat /\ Len(u) = Len(s) + 6 /\ j \in Nat
      /\ PartOf(s, u, 0)
  <2>1. Len(s) \in Nat /\ Len(u) = Len(s) + 6
    BY <1>1 DEF JoinOf
  <2>2. PartOf(s, u, 0)
    BY <1>1, JoinParts
  <2> QED
    BY <2>1, <2>2
<1>3. /\ j \in 1 .. Len(u) - 1 /\ u[j] = Bob /\ u[j + 1] = Start
      /\ ~EndsAt(j + 5, u)
  BY OccursAt DEF BrokenAt
<1>4. /\ u[1 + Len(s)] = Bob /\ u[2 + Len(s)] = Start /\ u[3 + Len(s)] = r
      /\ u[4 + Len(s)] = r /\ u[5 + Len(s)] = Bob /\ u[6 + Len(s)] = End
  BY <1>1 DEF JoinOf
<1>5. j < Len(s)
  <2>1. j # Len(s)
    <3>1. j = Len(s) => j + 1 = 1 + Len(s)
      BY <1>2
    <3> QED
      BY <1>3, <1>4, <3>1, Markers
  <2>2. j # 1 + Len(s)
    <3>1. j = 1 + Len(s) => j + 5 = 6 + Len(s) /\ j + 5 \in 1 .. Len(u)
      BY <1>2
    <3> QED
      BY <1>3, <1>4, <3>1 DEF EndsAt
  <2>3. j # 2 + Len(s) /\ j # 3 + Len(s) /\ j # 4 + Len(s)
    BY <1>3, <1>4, Markers
  <2>4. j # 5 + Len(s)
    <3>1. j = 5 + Len(s) => j + 1 = 6 + Len(s)
      BY <1>2
    <3> QED
      BY <1>3, <1>4, <3>1, Markers
  <2> QED
    BY <1>2, <1>3, <2>1, <2>2, <2>3, <2>4
<1>6. \A i \in 1 .. Len(s) : u[i] = s[i] /\ i \in 1 .. Len(u)
  BY <1>1, <1>2 DEF JoinOf
<1>7. BrokenAt(j, s)
  <2>1. j \in 1 .. Len(s) - 1 /\ j \in 1 .. Len(s) /\ j + 1 \in 1 .. Len(s)
    BY <1>2, <1>5
  <2>2. s[j] = Bob /\ s[j + 1] = Start
    BY <1>3, <1>6, <2>1
  <2>3. ~EndsAt(j + 5, s)
    BY <1>3, <1>6 DEF EndsAt
  <2> QED
    BY <2>1, <2>2, <2>3, OccursAt DEF BrokenAt
<1>8. j \in 1 .. Len(s)
  BY <1>2, <1>5
<1>9. /\ spoiled + 1 < c
      /\ \A q \in 1 .. j : EndsAt(q, s) => Bringer(q, s, from) < c
  BY <1>7, <1>8 DEF BreaksBefore
<1>10. ASSUME NEW q \in 1 .. j, EndsAt(q, u) PROVE Bringer(q, u, from) < c
  <2>1. q \in 1 .. Len(s) /\ q + 0 = q
    BY <1>2, <1>8
  <2>2. EndsAt(q, s)
    BY <1>6, <1>10, <2>1 DEF EndsAt
  <2>3. Bringer(q, u, from) = Bringer(q, s, from)
    BY <1>2, <2>1, <2>2, PartEnds
  <2> QED
    BY <1>9, <2>2, <2>3
<1> QED
  BY <1>9, <1>10

LEMMA SendBreaks ==
  ASSUME NEW u, NEW s, NEW r \in Requests, JoinOf(u, s, Frame(r)),
         FramesWhole(s), NEW from \in [Requests -> Nat], NEW spoiled,
         BreaksBetween(s, spoiled, from), spoiled < from[r],
         BreaksBefore(Len(s), from[r], s, spoiled, from)
  PROVE  BreaksBetween(u, spoiled, from)
<1> DEFINE f == Frame(r)
<1>1. /\ Len(f) = 6 /\ f[1] = Bob /\ f[2] = Start /\ f[3] = r /\ f[4] = r
      /\ f[5] = Bob /\ f[6] = End /\ FramesWhole(f) /\ JoinOf(u, s, f)
  BY FrameTokens, FrameWhole
<1>2. BreaksBefore(Len(u), from[r], u, spoiled, from)
  BY SendBefore
<1> HIDE DEF f
<1>3. ASSUME NEW p \in 1 .. Len(f), EndsAt(p, f)
      PROVE  /\ spoiled < Bringer(p, f, from)
             /\ BreaksBefore(p + Len(s), Bringer(p, f, from), u, spoiled, from)
  <2>1. p = 6 /\ p - 2 = 4
    <3>1. p = 6
      BY <1>1, <1>3, Markers DEF EndsAt
    <3> QED
      BY <3>1
  <2>2. Bringer(p, f, from) = from[r]
    BY <1>1, <2>1 DEF Bringer
  <2>3. p + Len(s) = Len(u)
    BY <1>1, <2>1 DEF JoinOf
  <2> QED
    BY <1>2, <2>2, <2>3
<1> QED
  BY <1>1, <1>3, JoinBreaks

(* What is neither a marker's end nor a request changes nothing.           *)
LEMMA NoiseOK ==
  ASSUME NEW u, NEW s, NEW t, JoinOf(u, s, t),
         \A i \in 1 .. Len(t) : t[i] = Noise,
         NEW from \in [Requests -> Nat], NEW delivered,
         StreamOK(s, delivered, from)
  PROVE  StreamOK(u, delivered, from)
<1>1. \A i \in 1 .. Len(t) : t[i] \notin Requests /\ t[i] # End
  BY Markers
<1>2. FramesWhole(t) /\ StreamInOrder(t, from) /\ StreamFollows(t, delivered, from)
  BY <1>1 DEF FramesWhole, EndsAt, StreamInOrder, StreamFollows
<1>3. /\ FramesWhole(s) /\ StreamInOrder(s, from) /\ StreamFollows(s, delivered, from)
      /\ BreaksBetween(s, Spoiled(delivered), from)
  BY DEF StreamOK
<1>4. FramesWhole(u)
  BY <1>2, <1>3, JoinWhole
<1>5. StreamInOrder(u, from)
  BY <1>1, <1>2, <1>3, JoinOrder
<1>6. StreamFollows(u, delivered, from)
  BY <1>2, <1>3, JoinFollows
<1>7. \A p \in 1 .. Len(t) : ~EndsAt(p, t)
  BY <1>1 DEF EndsAt
<1>8. BreaksBetween(u, Spoiled(delivered), from)
  BY <1>2, <1>3, <1>7, JoinBreaks
<1> QED
  BY <1>4, <1>5, <1>6, <1>8 DEF StreamOK

(* Only the connections of the requests that are there matter.             *)
LEMMA SameOrigins ==
  ASSUME NEW s, NEW from \in [Requests -> Nat], NEW from2 \in [Requests -> Nat],
         NEW delivered,
         \A i \in 1 .. Len(s) : s[i] \in Requests => from2[s[i]] = from[s[i]],
         \A d \in 1 .. Len(delivered) :
           delivered[d] # Garbage => from2[delivered[d]] = from[delivered[d]],
         Len(s) \in Nat
  PROVE  /\ StreamOK(s, delivered, from) => StreamOK(s, delivered, from2)
         /\ FramesWhole(s) => \A p \in 0 .. Len(s) : \A c :
              BreaksBefore(p, c, s, Spoiled(delivered), from)
                => BreaksBefore(p, c, s, Spoiled(delivered), from2)
<1>1. ASSUME FramesWhole(s), NEW p \in 1 .. Len(s), EndsAt(p, s)
      PROVE  Bringer(p, s, from2) = Bringer(p, s, from)
  BY <1>1, BringerTyped, SMTT(40)
<1>2. ASSUME FramesWhole(s), NEW p \in 0 .. Len(s), NEW c,
             BreaksBefore(p, c, s, Spoiled(delivered), from)
      PROVE  BreaksBefore(p, c, s, Spoiled(delivered), from2)
  <2>1. \A j \in 1 .. p : \A q \in 1 .. j : q \in 1 .. Len(s)
    OBVIOUS
  <2>2. \A j \in 1 .. p : \A q \in 1 .. j :
          EndsAt(q, s) => Bringer(q, s, from2) = Bringer(q, s, from)
    BY <1>1, <1>2, <2>1
  <2> QED
    BY <1>2, <2>2 DEF BreaksBefore
<1>3. ASSUME StreamOK(s, delivered, from)
      PROVE  StreamOK(s, delivered, from2)
  <2>1. /\ FramesWhole(s) /\ StreamInOrder(s, from) /\ StreamFollows(s, delivered, from)
        /\ BreaksBetween(s, Spoiled(delivered), from)
    BY <1>3 DEF StreamOK
  <2>2. StreamInOrder(s, from2)
    BY <2>1 DEF StreamInOrder
  <2>3. StreamFollows(s, delivered, from2)
    BY <2>1 DEF StreamFollows
  <2>4. ASSUME NEW p \in 1 .. Len(s), EndsAt(p, s)
        PROVE  /\ Spoiled(delivered) < Bringer(p, s, from2)
               /\ BreaksBefore(p, Bringer(p, s, from2), s, Spoiled(delivered), from2)
    <3>1. p \in 0 .. Len(s) /\ Bringer(p, s, from2) = Bringer(p, s, from)
      BY <1>1, <2>1, <2>4
    <3>2. /\ Spoiled(delivered) < Bringer(p, s, from)
          /\ BreaksBefore(p, Bringer(p, s, from), s, Spoiled(delivered), from)
      BY <2>1, <2>4 DEF BreaksBetween
    <3> QED
      BY <1>2, <2>1, <3>1, <3>2
  <2> QED
    BY <2>1, <2>2, <2>3, <2>4 DEF StreamOK, BreaksBetween
<1> QED
  BY <1>2, <1>3

-----------------------------------------------------------------------------
(* Packets are counted as they come; an illegible one counts as spoiled.   *)
LEMMA SpoiledCounts ==
  ASSUME NEW S, NEW d \in Seq(S)
  PROVE  /\ Spoiled(d) \in Nat
         /\ Spoiled(d) = 0 <=> \A i \in 1 .. Len(d) : d[i] # Garbage
<1> DEFINE G == {i \in 1 .. Len(d) : d[i] = Garbage}
<1>1. Len(d) \in Nat
  BY LenProperties
<1>2. IsFiniteSet(G)
  <2>1. IsFiniteSet(1 .. Len(d))
    BY <1>1, FS_Interval
  <2> QED
    BY <2>1, FS_Subset
<1>3. Cardinality(G) \in Nat /\ (Cardinality(G) = 0 <=> G = {})
  BY <1>2, FS_CardinalityType, FS_EmptySet
<1> QED
  BY <1>3 DEF Spoiled

LEMMA SpoiledAppend ==
  ASSUME NEW S, NEW d \in Seq(S), NEW x \in S
  PROVE  Spoiled(Append(d, x)) = IF x = Garbage THEN Spoiled(d) + 1 ELSE Spoiled(d)
<1> DEFINE G == {i \in 1 .. Len(d) : d[i] = Garbage}
           e == Append(d, x)
           H == {i \in 1 .. Len(e) : e[i] = Garbage}
<1>1. /\ Len(d) \in Nat /\ Len(e) = Len(d) + 1 /\ e[Len(d) + 1] = x
      /\ \A i \in 1 .. Len(d) : e[i] = d[i]
  BY LenProperties, AppendProperties
<1>2. Len(d) + 1 \notin G
  BY <1>1
<1>3. IsFiniteSet(G)
  <2>1. IsFiniteSet(1 .. Len(d))
    BY <1>1, FS_Interval
  <2> QED
    BY <2>1, FS_Subset
<1> HIDE DEF e
<1>4. CASE x = Garbage
  <2>1. H = G \cup {Len(d) + 1}
    BY <1>1, <1>4
  <2>2. Cardinality(G \cup {Len(d) + 1}) = Cardinality(G) + 1
    BY <1>2, <1>3, FS_AddElement
  <2> QED
    BY <1>4, <2>1, <2>2 DEF Spoiled, e
<1>5. CASE x # Garbage
  <2>1. H = G
    BY <1>1, <1>5
  <2> QED
    BY <1>5, <2>1 DEF Spoiled, e
<1> QED
  BY <1>4, <1>5

(* The packet that is taken out of s when the frame that ends at k is: a   *)
(* request that was there, or what a frame that broke off has spoiled.     *)
Taken(packet, k, s) ==
  \/ /\ packet \in Requests
     /\ \E i \in 1 .. k - 2 : s[i] = packet /\ s[i + 1] = packet
  \/ /\ packet = Garbage
     /\ \E j \in 1 .. k : BrokenAt(j, s)

(* The first markers of the buffer, and the packet between them.           *)
LEMMA FirstFrame ==
  ASSUME NEW b \in Seq(Tokens), FramesWhole(b),
         NEW start \in 1 .. Len(b), NEW end \in 1 .. Len(b),
         IsFirst(start, BOBSTART, b), IsFirst(end, BOBEND, b)
  PROVE  /\ start \in Nat /\ end \in Nat /\ start <= end - 4
         /\ EndsAt(end + 1, b) /\ WholeAt(end + 1, b)
         /\ Payload(b, start, end) = SubSeq(b, start + 2, end - 1)
         /\ start < end - 4 => BrokenAt(start, b)
<1>1. Len(b) \in Nat
  BY LenProperties
<1>2. /\ end \in 1 .. Len(b) - 1 /\ b[end] = Bob /\ b[end + 1] = End
      /\ \A j \in 1 .. Len(b) - 1 : b[j] = Bob /\ b[j + 1] = End => end <= j
  BY DEF IsFirst, Occurrences, BOBEND
<1>3. /\ start \in 1 .. Len(b) - 1 /\ b[start] = Bob /\ b[start + 1] = Start
      /\ \A j \in 1 .. Len(b) - 1 : b[j] = Bob /\ b[j + 1] = Start => start <= j
  BY DEF IsFirst, Occurrences, BOBSTART
<1>4. end + 1 \in 1 .. Len(b) /\ EndsAt(end + 1, b)
  BY <1>1, <1>2 DEF EndsAt
<1>5. WholeAt(end + 1, b)
  BY <1>4 DEF FramesWhole
<1>6. /\ (end + 1) - 5 = end - 4 /\ (end + 1) - 4 = (end - 4) + 1
      /\ (end - 4) \in Int
  BY <1>1
<1>7. end + 1 >= 6 /\ b[end - 4] = Bob /\ b[(end - 4) + 1] = Start
  BY <1>5, <1>6 DEF WholeAt
<1>8. end - 4 \in 1 .. Len(b) - 1
  BY <1>1, <1>2, <1>7
<1>9. start <= end - 4
  BY <1>3, <1>7, <1>8
<1>10. ASSUME start < end - 4 PROVE BrokenAt(start, b)
  <2>1. ASSUME EndsAt(start + 5, b) PROVE FALSE
    <3>1. WholeAt(start + 5, b) /\ start + 5 \in 1 .. Len(b) /\ b[start + 5] = End
      BY <2>1 DEF FramesWhole, EndsAt
    <3>2. (start + 5) - 1 = start + 4 /\ (start + 4) + 1 = start + 5
      BY <1>1
    <3>3. b[start + 4] = Bob /\ b[(start + 4) + 1] = End
      BY <3>1, <3>2 DEF WholeAt
    <3>4. start + 4 \in 1 .. Len(b) - 1
      BY <1>1, <3>1
    <3>5. end <= start + 4
      BY <1>2, <3>3, <3>4
    <3> QED
      BY <1>1, <1>10, <3>5
  <2> QED
    BY <1>3, <2>1, OccursAt DEF BrokenAt
<1>11. Payload(b, start, end) = SubSeq(b, start + 2, end - 1)
  BY <1>1, <1>9 DEF Payload
<1> QED
  BY <1>1, <1>4, <1>5, <1>9, <1>10, <1>11

LEMMA FirstPacket ==
  ASSUME NEW b \in Seq(Tokens), FramesWhole(b),
         NEW start \in 1 .. Len(b), NEW end \in 1 .. Len(b),
         IsFirst(start, BOBSTART, b), IsFirst(end, BOBEND, b),
         NEW packet \in ReadJsonFromString(Payload(b, start, end))
  PROVE  Taken(packet, end + 1, b)
<1> DEFINE payload == SubSeq(b, start + 2, end - 1)
<1>1. /\ start \in Nat /\ end \in Nat /\ start <= end - 4 /\ Len(b) \in Nat
      /\ WholeAt(end + 1, b) /\ start >= 1 /\ end <= Len(b)
      /\ Payload(b, start, end) = payload
      /\ start < end - 4 => BrokenAt(start, b)
  BY FirstFrame, LenProperties
<1>2. /\ payload \in Seq(Tokens) /\ Len(payload) = (end - 1) - (start + 2) + 1
      /\ \A i \in 1 .. (end - 1) - (start + 2) + 1 : payload[i] = b[start + 2 + i - 1]
  <2>1. \A i \in start + 2 .. end - 1 : b[i] \in Tokens
    BY <1>1, LenProperties
  <2> QED
    BY <1>1, <2>1, SubSeqProperties
<1>3. /\ Len(payload) >= 2 /\ payload[1] = b[start + 2] /\ payload[2] = b[(start + 2) + 1]
      /\ start = end - 4 => Len(payload) = 2
  <2>1. 1 \in 1 .. (end - 1) - (start + 2) + 1 /\ 2 \in 1 .. (end - 1) - (start + 2) + 1
    BY <1>1
  <2>2. start + 2 + 1 - 1 = start + 2 /\ start + 2 + 2 - 1 = (start + 2) + 1
    BY <1>1
  <2>3. payload[1] = b[start + 2] /\ payload[2] = b[(start + 2) + 1]
    BY <1>2, <2>1, <2>2
  <2>4. Len(payload) >= 2 /\ (start = end - 4 => Len(payload) = 2)
    BY <1>1, <1>2, SMTT(40)
  <2> QED
    BY <2>3, <2>4
<1>4. packet \in ReadJsonFromString(payload)
  BY <1>1
<1> HIDE DEF payload
<1>5. CASE packet \in Requests /\ payload[1] = packet /\ payload[2] = packet
  <2>1. start + 2 \in 1 .. (end + 1) - 2
    BY <1>1
  <2> QED
    BY <1>3, <1>5, <2>1 DEF Taken
<1>6. CASE packet = Garbage /\ ~\E r \in Requests : payload = <<r, r>>
  <2>1. ASSUME start = end - 4 PROVE FALSE
    <3>1. /\ (end + 1) - 3 = start + 2 /\ (end + 1) - 2 = (start + 2) + 1
      BY <1>1, <2>1
    <3>2. b[start + 2] \in Requests /\ b[(start + 2) + 1] = b[start + 2]
      BY <1>1, <3>1 DEF WholeAt
    <3>3. payload = <<payload[1], payload[2]>>
      <4> DEFINE pair == <<payload[1], payload[2]>>
      <4>1. payload[1] \in Tokens /\ payload[2] \in Tokens /\ Len(payload) = 2
        BY <1>3, <2>1, <3>2 DEF Tokens
      <4>2. pair \in Seq(Tokens) /\ Len(pair) = 2
        BY <4>1
      <4>3. pair[1] = payload[1] /\ pair[2] = payload[2]
        OBVIOUS
      <4> HIDE DEF pair
      <4>4. \A i \in 1 .. Len(payload) : payload[i] = pair[i]
        BY <4>1, <4>3
      <4>5. payload = pair
        BY <1>2, <4>1, <4>2, <4>4, SeqEqual
      <4> QED
        BY <4>5 DEF pair
    <3> QED
      BY <1>3, <1>6, <3>2, <3>3
  <2>2. BrokenAt(start, b) /\ start \in 1 .. end + 1
    BY <1>1, <2>1
  <2> QED
    BY <1>6, <2>2 DEF Taken
<1> QED
  BY <1>4, <1>5, <1>6 DEF ReadJsonFromString

(* A stream that begins with the buffer loses the same packet.             *)
LEMMA TakenOfStream ==
  ASSUME NEW s, NEW b, PartOf(b, s, 0), FramesWhole(s), NEW k \in 1 .. Len(b),
         EndsAt(k, b), NEW packet, Taken(packet, k, b)
  PROVE  EndsAt(k, s) /\ Taken(packet, k, s)
<1>1. /\ Len(b) \in Nat /\ Len(s) \in Nat /\ k \in Nat
      /\ \A i \in 1 .. Len(b) : i \in 1 .. Len(s) /\ b[i] = s[i]
  <2>1. Len(b) \in Nat /\ Len(s) \in Nat /\ \A i \in 1 .. Len(b) : i + 0 = i
    BY DEF PartOf
  <2> QED
    BY <2>1 DEF PartOf
<1>2. EndsAt(k, s)
  BY <1>1 DEF EndsAt
<1>3. ASSUME packet \in Requests,
             NEW i \in 1 .. k - 2, b[i] = packet, b[i + 1] = packet
      PROVE  Taken(packet, k, s)
  <2>1. i \in 1 .. Len(b) /\ i + 1 \in 1 .. Len(b)
    BY <1>1
  <2>2. s[i] = packet /\ s[i + 1] = packet
    BY <1>1, <1>3, <2>1
  <2> QED
    BY <1>3, <2>2 DEF Taken
<1>4. ASSUME packet = Garbage, NEW j \in 1 .. k, BrokenAt(j, b)
      PROVE  Taken(packet, k, s)
  <2>1. BrokenAt(j, s)
    BY <1>4, BrokenInPrefix
  <2> QED
    BY <1>4, <2>1 DEF Taken
<1> QED
  BY <1>2, <1>3, <1>4 DEF Taken

(* What is left of a stream after a frame, and the packets with the one    *)
(* that was taken.                                                         *)
LEMMA TakeSpoils ==
  ASSUME NEW s, NEW k \in 1 .. Len(s), Len(s) \in Nat, EndsAt(k, s), FramesWhole(s),
         NEW from \in [Requests -> Nat],
         NEW d \in Seq(Requests \cup {Garbage}), NEW packet, Taken(packet, k, s),
         BreaksBetween(s, Spoiled(d), from)
  PROVE  /\ packet \in Requests \cup {Garbage}
         /\ Spoiled(d) \in Nat /\ Spoiled(Append(d, packet)) \in Nat
         /\ Bringer(k, s, from) \in Nat
         /\ Spoiled(Append(d, packet)) < Bringer(k, s, from)
         /\ \/ Spoiled(Append(d, packet)) = Spoiled(d)
            \/ Spoiled(Append(d, packet)) = Spoiled(d) + 1
<1>1. packet \in Requests \cup {Garbage} /\ (packet \in Requests => packet # Garbage)
  BY BoundsAssumption DEF Taken, Requests, Garbage
<1>2. /\ Spoiled(d) \in Nat
      /\ Spoiled(Append(d, packet))
           = IF packet = Garbage THEN Spoiled(d) + 1 ELSE Spoiled(d)
  BY <1>1, SpoiledCounts, SpoiledAppend
<1>3. /\ Bringer(k, s, from) \in Nat /\ Spoiled(d) < Bringer(k, s, from)
      /\ BreaksBefore(k, Bringer(k, s, from), s, Spoiled(d), from)
  BY BringerTyped DEF BreaksBetween
<1>4. ASSUME packet = Garbage PROVE Spoiled(d) + 1 < Bringer(k, s, from)
  BY <1>1, <1>3, <1>4 DEF Taken, BreaksBefore
<1> QED
  BY <1>1, <1>2, <1>3, <1>4

LEMMA TakeOK ==
  ASSUME NEW s, NEW t, NEW k \in 1 .. Len(s), PartOf(t, s, k), Len(t) + k = Len(s),
         EndsAt(k, s), NEW from \in [Requests -> Nat],
         NEW d \in Seq(Requests \cup {Garbage}), NEW packet, Taken(packet, k, s),
         StreamOK(s, d, from)
  PROVE  /\ StreamOK(t, Append(d, packet), from)
         /\ \A c \in Nat :
              BreaksBefore(Len(s), c, s, Spoiled(d), from)
                => BreaksBefore(Len(t), c, t, Spoiled(Append(d, packet)), from)
<1> DEFINE e == Append(d, packet)
<1>1. /\ FramesWhole(s) /\ StreamInOrder(s, from) /\ StreamFollows(s, d, from)
      /\ BreaksBetween(s, Spoiled(d), from)
  BY DEF StreamOK
<1>2. Len(t) \in Nat /\ Len(s) \in Nat /\ k \in Nat
  BY DEF PartOf
<1>3. /\ packet \in Requests \cup {Garbage}
      /\ Spoiled(d) \in Nat /\ Spoiled(e) \in Nat
      /\ Bringer(k, s, from) \in Nat /\ Spoiled(e) < Bringer(k, s, from)
      /\ Spoiled(e) = Spoiled(d) \/ Spoiled(e) = Spoiled(d) + 1
  BY <1>1, <1>2, TakeSpoils
<1>4. /\ Len(d) \in Nat /\ Len(e) = Len(d) + 1 /\ e[Len(d) + 1] = packet
      /\ \A i \in 1 .. Len(d) : e[i] = d[i]
  BY <1>3, LenProperties, AppendProperties
<1> HIDE DEF e
<1>5. FramesWhole(t)
  BY <1>1, PartWhole
<1>6. StreamInOrder(t, from) /\ StreamFollows(t, d, from)
  BY <1>1, PartInOrder, PartFollows
<1>7. BreaksBetween(t, Spoiled(e), from)
  BY <1>1, <1>3, <1>5, SuffixBreaks
<1>8. ASSUME NEW c \in Nat, BreaksBefore(Len(s), c, s, Spoiled(d), from)
      PROVE  BreaksBefore(Len(t), c, t, Spoiled(e), from)
  BY <1>1, <1>2, <1>3, <1>5, <1>8, SuffixBefore, SMTT(40)
<1>9. StreamFollows(t, e, from)
  <2> SUFFICES ASSUME NEW i \in 1 .. Len(t), NEW j \in 1 .. Len(e),
                      t[i] \in Requests, e[j] # Garbage
               PROVE  /\ t[i] # e[j]
                      /\ from[t[i]] = from[e[j]] => e[j] < t[i]
    BY DEF StreamFollows
  <2>1. CASE j \in 1 .. Len(d)
    BY <1>4, <1>6, <2>1 DEF StreamFollows
  <2>2. CASE j = Len(d) + 1
    <3>1. e[j] = packet /\ packet \in Requests
      BY <1>3, <1>4, <2>2
    <3>2. PICK a \in 1 .. k - 2 : s[a] = packet /\ s[a + 1] = packet
      BY <1>4, <2>2 DEF Taken
    <3>3. i + k \in 1 .. Len(s) /\ t[i] = s[i + k]
      BY DEF PartOf
    <3>4. a \in 1 .. Len(s) /\ a < i + k /\ i + k # a + 1
      BY <1>2
    <3>5. /\ from[s[a]] <= from[s[i + k]]
          /\ from[s[a]] = from[s[i + k]] => s[a] <= s[i + k]
          /\ s[a] # s[i + k]
      BY <1>1, <3>1, <3>2, <3>3, <3>4 DEF StreamInOrder
    <3>6. t[i] \in Int /\ packet \in Int
      BY <3>1, BoundsAssumption DEF Requests
    <3> QED
      BY <3>1, <3>2, <3>3, <3>5, <3>6
  <2>3. j \in 1 .. Len(d) \/ j = Len(d) + 1
    BY <1>4
  <2> QED
    BY <2>1, <2>2, <2>3
<1> QED
  BY <1>5, <1>6, <1>7, <1>8, <1>9 DEF StreamOK, e

-----------------------------------------------------------------------------
(* What was delivered is a sequence of packets; a step that hands on what  *)
(* is queued leaves it alone.                                              *)
LEMMA FramingTypes ==
  ASSUME TypeOK
  PROVE  /\ messageBuffers \in Seq(Tokens) /\ Len(messageBuffers) \in Nat
         /\ inbound \in [Conns -> Seq(Tokens)]
         /\ \A c \in Conns : Len(inbound[c]) \in Nat
         /\ origin \in [Requests -> Nat] /\ asked \in Nat /\ conns \in Nat
         /\ Delivered \in Seq(Requests \cup {Garbage})
         /\ Len(Delivered) \in Nat
         /\ reading \in Nat /\ Conns \subseteq Nat \ {0}
         /\ Spoiled(Delivered) \in Nat
         /\ \A fd \in Fds : fdTable[fd] \in Int
<1>1. Delivered \in Seq(Requests \cup {Garbage})
  BY ConcatProperties DEF TypeOK, Delivered
<1>2. messageBuffers \in Seq(Tokens) /\ inbound \in [Conns -> Seq(Tokens)]
  BY DEF TypeOK
<1>3. /\ origin \in [Requests -> Nat] /\ asked \in Nat /\ conns \in Nat
      /\ reading \in Nat /\ Conns \subseteq Nat \ {0}
  BY BoundsAssumption DEF TypeOK, Conns, Free
<1>4. \A fd \in Fds : fdTable[fd] \in Int
  <2>1. fdTable \in [Fds -> Files]
    BY DEF TypeOK
  <2>2. Files \subseteq Int
    BY BoundsAssumption DEF Files, Conns, Free, Other, Fresh
  <2> QED
    BY <2>1, <2>2
<1>5. /\ Len(messageBuffers) \in Nat /\ Len(Delivered) \in Nat
      /\ \A c \in Conns : Len(inbound[c]) \in Nat
  BY <1>1, <1>2, LenProperties
<1> QED
  BY <1>1, <1>2, <1>3, <1>4, <1>5, SpoiledCounts

LEMMA StreamJoins ==
  ASSUME TypeOK, NEW c \in Conns
  PROVE  /\ Stream(c) \in Seq(Tokens) /\ Len(Stream(c)) \in Nat
         /\ JoinOf(Stream(c), messageBuffers, inbound[c])
         /\ PartOf(messageBuffers, Stream(c), 0)
         /\ PartOf(inbound[c], Stream(c), Len(messageBuffers))
<1>1. messageBuffers \in Seq(Tokens) /\ inbound[c] \in Seq(Tokens)
  BY FramingTypes
<1>2. Stream(c) \in Seq(Tokens) /\ JoinOf(Stream(c), messageBuffers, inbound[c])
  BY <1>1, ConcatIsJoin DEF Stream
<1>3. /\ PartOf(messageBuffers, Stream(c), 0)
      /\ PartOf(inbound[c], Stream(c), Len(messageBuffers))
  BY <1>2, JoinParts
<1> QED
  BY <1>2, <1>3, LenProperties

(* What the requests that are delivered and those to come have in common.  *)
Framed == OriginInv /\ StreamInv /\ RequestsInOrder /\ GarbagePerReconnect

LEMMA SpoiledPerReconnect ==
  GarbagePerReconnect
    <=> (Spoiled(Delivered) < conns
           \/ {i \in 1 .. Len(Delivered) : Delivered[i] = Garbage} = {})
  BY DEF GarbagePerReconnect, Spoiled

LEMMA PopKeeps ==
  ASSUME TypeOK, MatchPop
  PROVE  Delivered' = Delivered
<1> DEFINE S == Requests \cup {Garbage}
           h == Head(receiveMessage)
           t == Tail(receiveMessage)
<1>1. /\ receiveMessage \in Seq(S) /\ receiveMessage # <<>>
      /\ dispatched \in Seq(S)
      /\ receiveMessage' = t /\ dispatched' = Append(dispatched, h)
  BY DEF TypeOK, MatchPop, PopReceiveMessage
<1> HIDE DEF S
<1>2. /\ h \in S /\ t \in Seq(S) /\ <<h>> \in Seq(S)
      /\ Append(dispatched, h) = dispatched \o <<h>>
  <2>1. h \in S /\ t \in Seq(S)
    BY <1>1, PopTyped
  <2>2. <<h>> \in Seq(S)
    BY <2>1
  <2>3. Append(dispatched, h) = dispatched \o <<h>>
    BY <1>1, <2>1, AppendIsConcat
  <2> QED
    BY <2>1, <2>2, <2>3
<1>3. receiveMessage = <<h>> \o t
  BY <1>1
<1>4. PICK one \in Seq(S) : one = <<h>>
  BY <1>2
<1>5. receiveMessage = one \o t /\ Append(dispatched, h) = dispatched \o one
  BY <1>2, <1>3, <1>4, Zenon
<1>6. dispatched \o (one \o t) = (dispatched \o one) \o t
  <2> HIDE DEF h, t
  <2>1. dispatched \in Seq(S) /\ one \in Seq(S) /\ t \in Seq(S)
    BY <1>1, <1>2, <1>4
  <2> QED
    BY <2>1, ConcatAssociative, SMTT(40)
<1>7. dispatched \o receiveMessage = Append(dispatched, h) \o t
  BY <1>5, <1>6
<1> QED
  BY <1>1, <1>7 DEF Delivered

(* A step that moves no token and makes no connection.                     *)
LEMMA FramedQuiet ==
  ASSUME TypeOK, Framed,
         UNCHANGED <<messageBuffers, inbound, asked, origin, conns>>,
         Delivered' = Delivered,
         reading' = reading \/ reading' = Free,
         pc'["recv"] # "reading" => reading' = Free,
         \A fd \in Fds : fdTable'[fd] \in Conns => fdTable'[fd] = fdTable[fd],
         \A c \in Conns : state'[c] = "est" => state[c] = "est"
  PROVE  Framed'
<1>1. /\ reading \in Nat /\ conns \in Nat /\ Free = 0 /\ Free \notin Conns
      /\ Conns \subseteq Nat
  BY FramingTypes DEF Free
<1>2. \A c \in Conns : Referenced(c)' => Referenced(c)
  BY <1>1 DEF Referenced
<1>3. OriginInv'
  <2>1. /\ pc'["recv"] # "reading" => reading' = Free
        /\ reading' <= conns
    BY <1>1 DEF Framed, OriginInv
  <2>2. ASSUME NEW fd \in Fds, fdTable'[fd] \in Conns
        PROVE  fdTable'[fd] <= conns /\ reading' <= fdTable'[fd]
    <3>1. /\ fdTable'[fd] = fdTable[fd] /\ fdTable[fd] \in Conns
          /\ fdTable'[fd] \in Nat
      BY <1>1, <2>2
    <3>2. fdTable[fd] <= conns /\ reading <= fdTable[fd]
      BY <3>1 DEF Framed, OriginInv
    <3> QED
      BY <1>1, <3>1, <3>2
  <2> QED
    BY <2>1, <2>2 DEF Framed, OriginInv
<1>4. StreamInv'
  <2>1. \A c \in Conns : Stream(c)' = Stream(c)
    BY DEF Stream
  <2>2. StreamOK(messageBuffers, Delivered, origin)'
    BY DEF Framed, StreamInv
  <2>3. ASSUME NEW c \in Conns, Referenced(c)'
        PROVE  /\ StreamOK(Stream(c), Delivered, origin)'
               /\ \A i \in 1 .. Len(messageBuffers') :
                    messageBuffers'[i] \in Requests => origin'[messageBuffers'[i]] <= c
               /\ reading' \in Conns \ {c} => FramesWhole(inbound'[c])
               /\ Spoiled(Delivered') < c
               /\ state'[c] = "est" =>
                    BreaksBefore(Len(Stream(c)'), c, Stream(c)', Spoiled(Delivered'), origin')
    BY <1>1, <1>2, <2>1, <2>3 DEF Framed, StreamInv
  <2> QED
    BY <2>2, <2>3 DEF StreamInv
<1>5. RequestsInOrder' /\ GarbagePerReconnect'
  BY DEF Framed, RequestsInOrder, GarbagePerReconnect
<1> QED
  BY <1>3, <1>4, <1>5 DEF Framed

(* A connection that can be read is the socket's or the blocked read's,    *)
(* and no later than the newest.                                           *)
LEMMA OneSocket ==
  ASSUME TypeOK, SocketInv, NEW fd \in Fds, fdTable[fd] \in Conns \cup {Fresh}
  PROVE  fd = clientSocket
<1>1. Free \notin Conns /\ Other \notin Conns /\ Fresh # Free /\ Fresh # Other
  BY BoundsAssumption DEF Conns, Free, Other, Fresh
<1> QED
  BY <1>1 DEF SocketInv, IsSocket

LEMMA ReferencedBound ==
  ASSUME TypeOK, OriginInv, NEW c \in Conns, Referenced(c)
  PROVE  c <= conns
  BY FramingTypes DEF OriginInv, Referenced

(* A new connection carries on with what the last one left in the buffer.  *)
LEMMA NewConnection ==
  ASSUME TypeOK, BeforeFirst, Framed, NEW n \in Conns, n = conns + 1
  PROVE  /\ Stream(n) = messageBuffers
         /\ FramesWhole(inbound[n])
         /\ Spoiled(Delivered) < n
         /\ \A i \in 1 .. Len(messageBuffers) :
              messageBuffers[i] \in Requests => origin[messageBuffers[i]] <= n
         /\ BreaksBefore(Len(messageBuffers), n, messageBuffers,
                         Spoiled(Delivered), origin)
<1>1. /\ messageBuffers \in Seq(Tokens) /\ origin \in [Requests -> Nat]
      /\ conns \in Nat /\ Spoiled(Delivered) \in Nat /\ Len(messageBuffers) \in Nat
      /\ Delivered \in Seq(Requests \cup {Garbage})
  BY FramingTypes
<1>2. inbound[n] = <<>>
  BY <1>1 DEF Framed, OriginInv
<1>3. Stream(n) = messageBuffers
  BY <1>1, <1>2 DEF Stream
<1>4. FramesWhole(inbound[n])
  BY <1>2 DEF FramesWhole
<1>5. Spoiled(Delivered) < conns \/ Spoiled(Delivered) = 0
  BY <1>1, SpoiledPerReconnect, SpoiledCounts DEF Framed
<1>6. ASSUME NEW i \in 1 .. Len(messageBuffers), messageBuffers[i] \in Requests
      PROVE  origin[messageBuffers[i]] <= conns /\ origin[messageBuffers[i]] \in Nat
  BY <1>1, <1>6 DEF Framed, OriginInv
<1>7. FramesWhole(messageBuffers)
  BY DEF Framed, StreamInv, StreamOK
<1>8. ASSUME NEW j \in 1 .. Len(messageBuffers)
      PROVE  /\ Spoiled(Delivered) + 1 < n
             /\ \A q \in 1 .. j : EndsAt(q, messageBuffers) =>
                  Bringer(q, messageBuffers, origin) < n
  <2>1. messageBuffers # <<>>
    BY <1>1, EmptySeq
  <2>2. conns > 0
    BY <1>1, <2>1 DEF BeforeFirst
  <2>3. ASSUME NEW q \in 1 .. j, EndsAt(q, messageBuffers)
        PROVE  Bringer(q, messageBuffers, origin) < n
    <3>1. q \in 1 .. Len(messageBuffers)
      OBVIOUS
    <3>2. /\ q - 2 \in 1 .. Len(messageBuffers) /\ messageBuffers[q - 2] \in Requests
          /\ Bringer(q, messageBuffers, origin) = origin[messageBuffers[q - 2]]
      BY <1>1, <1>7, <2>3, <3>1, BringerTyped
    <3> QED
      BY <1>1, <1>6, <3>2
  <2> QED
    BY <1>1, <1>5, <2>2, <2>3
<1>9. BreaksBefore(Len(messageBuffers), n, messageBuffers, Spoiled(Delivered), origin)
  BY <1>8 DEF BreaksBefore
<1> QED
  BY <1>1, <1>3, <1>4, <1>5, <1>6, <1>9

LEMMA FramedConnectSocket ==
  ASSUME TypeOK, SocketInv, BeforeFirst, Framed, NEW t \in Threads, ConnectSocket(t)
  PROVE  Framed'
<1>0. /\ UNCHANGED <<messageBuffers, inbound, asked, origin, receiveMessage,
                     dispatched, reading>>
      /\ Delivered' = Delivered
      /\ pc' = [pc EXCEPT ![t] = "check"] /\ pc[t] = "connect"
  BY DEF ConnectSocket, queues, locals, history, Delivered, Goto, At
<1>1. /\ pc["recv"] # "reading" => reading = Free
      /\ pc'["recv"] # "reading" => pc["recv"] # "reading"
  <2>1. pc \in [Threads -> MainLabels \cup SendLabels \cup RecvLabels]
    BY DEF TypeOK
  <2> QED
    BY <1>0, <2>1 DEF Framed, OriginInv, Threads
<1>2. CASE ~CanConnect
  <2>1. UNCHANGED <<conns, fdTable, state>>
    BY <1>2 DEF ConnectSocket
  <2> QED
    BY <1>0, <1>1, <2>1, FramedQuiet
<1>3. CASE CanConnect
  <2> DEFINE n == conns + 1
  <2>1. /\ clientSocket \in Fds /\ fdTable[clientSocket] = Fresh
        /\ conns' = n /\ n \in Conns
        /\ fdTable' = [fdTable EXCEPT ![clientSocket] = n]
        /\ state' = [state EXCEPT ![n] = "est"]
    BY <1>3, FramingTypes, BoundsAssumption, SMTT(40)
    DEF ConnectSocket, CanConnect, File, Free, Fresh, Conns
  <2>2. /\ conns \in Nat /\ reading \in Nat /\ Conns \subseteq Nat /\ n \in Nat
        /\ reading <= conns /\ conns < n
        /\ fdTable \in [Fds -> Files] /\ Fresh \notin Conns
        /\ state \in [Conns -> {"none", "est", "fin", "reset", "dead"}]
    BY FramingTypes, BoundsAssumption, SMTT(40) DEF TypeOK, Framed, OriginInv, Conns, Fresh
  <2>3. \A fd \in Fds : fdTable[fd] \notin Conns
    BY <2>1, <2>2, OneSocket
  <2>4. ASSUME NEW fd \in Fds, fdTable'[fd] \in Conns
        PROVE  fd = clientSocket /\ fdTable'[fd] = n
    BY <2>1, <2>2, <2>3, <2>4
  <2>5. \A c \in Conns : Referenced(c)' => (reading = c /\ Referenced(c)) \/ c = n
    BY <1>0, <2>4 DEF Referenced
  <2> HIDE DEF n
  <2>6. OriginInv'
    <3>1. pc'["recv"] # "reading" => reading' = Free
      BY <1>0, <1>1
    <3>2. reading' <= conns'
      BY <1>0, <2>1, <2>2
    <3>3. \A fd \in Fds : fdTable'[fd] \in Conns =>
            fdTable'[fd] <= conns' /\ reading' <= fdTable'[fd]
      BY <1>0, <2>1, <2>2, <2>4
    <3>4. \A c \in Conns : c > conns' => inbound'[c] = <<>>
      BY <1>0, <2>1, <2>2 DEF Framed, OriginInv
    <3>5. \A i \in 1 .. Len(messageBuffers) :
            messageBuffers[i] \in Requests => origin[messageBuffers[i]] <= n
      BY <2>1, NewConnection DEF n
    <3>6. /\ \A c \in Conns : \A i \in 1 .. Len(inbound[c]) : inbound[c][i] \in Requests =>
               inbound[c][i] <= asked /\ origin[inbound[c][i]] = c
          /\ \A i \in 1 .. Len(messageBuffers) :
               messageBuffers[i] \in Requests => messageBuffers[i] <= asked
          /\ \A d \in 1 .. Len(Delivered) : Delivered[d] <= asked
      BY DEF Framed, OriginInv
    <3> QED
      BY <1>0, <2>1, <3>1, <3>2, <3>3, <3>4, <3>5, <3>6 DEF OriginInv
  <2>7. StreamInv'
    <3>1. \A c \in Conns : Stream(c)' = Stream(c)
      BY <1>0 DEF Stream
    <3>2. StreamOK(messageBuffers, Delivered, origin)'
      BY <1>0 DEF Framed, StreamInv
    <3>3. ASSUME NEW c \in Conns, Referenced(c)'
          PROVE  /\ StreamOK(Stream(c), Delivered, origin)'
                 /\ \A i \in 1 .. Len(messageBuffers') :
                      messageBuffers'[i] \in Requests => origin'[messageBuffers'[i]] <= c
                 /\ reading' \in Conns \ {c} => FramesWhole(inbound'[c])
                 /\ Spoiled(Delivered') < c
                 /\ state'[c] = "est" =>
                      BreaksBefore(Len(Stream(c)'), c, Stream(c)', Spoiled(Delivered'), origin')
      <4>1. CASE c = n
        <5>1. /\ Stream(n) = messageBuffers
              /\ FramesWhole(inbound[n])
              /\ Spoiled(Delivered) < n
              /\ \A i \in 1 .. Len(messageBuffers) :
                   messageBuffers[i] \in Requests => origin[messageBuffers[i]] <= n
              /\ BreaksBefore(Len(messageBuffers), n, messageBuffers,
                              Spoiled(Delivered), origin)
          BY <2>1, NewConnection DEF n
        <5> QED
          BY <1>0, <3>1, <3>2, <4>1, <5>1
      <4>2. CASE c # n
        <5>1. Referenced(c) /\ state'[c] = state[c]
          BY <2>1, <2>2, <2>5, <3>3, <4>2
        <5> QED
          BY <1>0, <3>1, <5>1 DEF Framed, StreamInv
      <4> QED
        BY <4>1, <4>2
    <3> QED
      BY <3>2, <3>3 DEF StreamInv
  <2>8. RequestsInOrder'
    BY <1>0 DEF Framed, RequestsInOrder
  <2>9. GarbagePerReconnect'
    <3>1. \/ Spoiled(Delivered) < conns
          \/ {i \in 1 .. Len(Delivered) : Delivered[i] = Garbage} = {}
      BY SpoiledPerReconnect DEF Framed
    <3>2. Spoiled(Delivered) \in Nat
      BY FramingTypes
    <3> QED
      BY <1>0, <2>1, <2>2, <3>1, <3>2 DEF GarbagePerReconnect, Spoiled
  <2> QED
    BY <2>6, <2>7, <2>8, <2>9 DEF Framed
<1> QED
  BY <1>2, <1>3

(* read() finds a connection, another file, or nothing.                    *)
LEMMA FramedRead ==
  ASSUME TypeOK, SocketInv, Framed, RecvRead
  PROVE  Framed'
<1> DEFINE file == File(clientSocket)
<1>0. /\ UNCHANGED <<inbound, asked, origin, conns, receiveMessage, dispatched,
                     fdTable, state>>
      /\ Delivered' = Delivered
      /\ pc["recv"] = "read"
      /\ pc \in [Threads -> MainLabels \cup SendLabels \cup RecvLabels]
  BY DEF RecvRead, queues, kernel, network, history, Delivered, At, TypeOK
<1>1. reading = Free
  BY <1>0 DEF Framed, OriginInv
<1>2. CASE UNCHANGED <<messageBuffers, reading>>
  BY <1>0, <1>1, <1>2, FramedQuiet
<1>3. CASE file \in Conns /\ reading' = file /\ Goto("recv", "reading")
           /\ UNCHANGED messageBuffers
  <2>1. clientSocket \in Fds /\ fdTable[clientSocket] = file
    BY <1>3, FramingTypes DEF File, Free
  <2>2. \A fd \in Fds : fdTable[fd] \in Conns => fdTable[fd] = file
    BY <2>1, OneSocket
  <2>3. \A c \in Conns : Referenced(c)' => c = file /\ Referenced(c)
    BY <1>0, <1>3, <2>1, <2>2 DEF Referenced
  <2>4. file <= conns /\ file \in Nat
    BY <1>3, <2>1, FramingTypes DEF Framed, OriginInv
  <2> HIDE DEF file
  <2>5. OriginInv'
    <3>1. pc'["recv"] # "reading" => reading' = Free
      BY <1>0, <1>3 DEF Goto, Threads
    <3>2. /\ reading' <= conns'
          /\ \A fd \in Fds : fdTable'[fd] \in Conns =>
               fdTable'[fd] <= conns' /\ reading' <= fdTable'[fd]
      BY <1>0, <1>3, <2>2, <2>4
    <3> QED
      BY <1>0, <1>3, <3>1, <3>2 DEF Framed, OriginInv
  <2>6. StreamInv'
    <3>1. \A c \in Conns : Stream(c)' = Stream(c)
      BY <1>0, <1>3 DEF Stream
    <3>2. StreamOK(messageBuffers, Delivered, origin)'
      BY <1>0, <1>3 DEF Framed, StreamInv
    <3>3. ASSUME NEW c \in Conns, Referenced(c)'
          PROVE  /\ StreamOK(Stream(c), Delivered, origin)'
                 /\ \A i \in 1 .. Len(messageBuffers') :
                      messageBuffers'[i] \in Requests => origin'[messageBuffers'[i]] <= c
                 /\ reading' \in Conns \ {c} => FramesWhole(inbound'[c])
                 /\ Spoiled(Delivered') < c
                 /\ state'[c] = "est" =>
                      BreaksBefore(Len(Stream(c)'), c, Stream(c)', Spoiled(Delivered'), origin')
      BY <1>0, <1>3, <2>3, <3>1, <3>3 DEF Framed, StreamInv
    <3> QED
      BY <3>2, <3>3 DEF StreamInv
  <2>7. RequestsInOrder' /\ GarbagePerReconnect'
    BY <1>0, <1>3 DEF Framed, RequestsInOrder, GarbagePerReconnect
  <2> QED
    BY <2>5, <2>6, <2>7 DEF Framed
<1>4. CASE /\ file = Other /\ Goto("recv", "parse") /\ UNCHANGED reading
           /\ messageBuffers' = Append(messageBuffers, Noise)
  <2>1. clientSocket \in Fds /\ fdTable[clientSocket] = Other
    BY <1>4 DEF File, Free, Other
  <2>2. \A c \in Conns : ~Referenced(c)'
    <3>1. Free \notin Conns /\ Other \notin Conns
      BY BoundsAssumption DEF Conns, Free, Other
    <3>2. \A fd \in Fds : fdTable[fd] \notin Conns
      BY <2>1, <3>1, OneSocket
    <3> QED
      BY <1>0, <1>1, <1>4, <3>1, <3>2 DEF Referenced
  <2>3. /\ messageBuffers \in Seq(Tokens) /\ <<Noise>> \in Seq(Tokens)
        /\ origin \in [Requests -> Nat]
    BY FramingTypes DEF Tokens
  <2>4. messageBuffers' = messageBuffers \o <<Noise>>
    BY <1>4, <2>3, AppendIsConcat DEF Tokens
  <2>5. JoinOf(messageBuffers', messageBuffers, <<Noise>>)
    BY <2>3, <2>4, ConcatIsJoin
  <2>6. \A i \in 1 .. Len(<<Noise>>) : <<Noise>>[i] = Noise
    OBVIOUS
  <2>7. StreamOK(messageBuffers', Delivered, origin)
    BY <2>3, <2>5, <2>6, NoiseOK DEF Framed, StreamInv
  <2>8. OriginInv'
    <3>1. ASSUME NEW i \in 1 .. Len(messageBuffers'), messageBuffers'[i] \in Requests
          PROVE  i \in 1 .. Len(messageBuffers) /\ messageBuffers'[i] = messageBuffers[i]
      <4>1. /\ Len(messageBuffers) \in Nat /\ Len(messageBuffers') = Len(messageBuffers) + 1
            /\ messageBuffers'[Len(messageBuffers) + 1] = Noise
            /\ \A k \in 1 .. Len(messageBuffers) : messageBuffers'[k] = messageBuffers[k]
        BY <1>4, <2>3, FramingTypes, AppendProperties DEF Tokens
      <4> QED
        BY <3>1, <4>1, Markers
    <3>2. pc'["recv"] # "reading" => reading' = Free
      BY <1>1, <1>4
    <3> QED
      BY <1>0, <1>4, <3>1, <3>2 DEF Framed, OriginInv
  <2>9. StreamInv'
    BY <1>0, <2>2, <2>7 DEF StreamInv
  <2>10. RequestsInOrder' /\ GarbagePerReconnect'
    BY <1>0 DEF Framed, RequestsInOrder, GarbagePerReconnect
  <2> QED
    BY <2>8, <2>9, <2>10 DEF Framed
<1> QED
  BY <1>2, <1>3, <1>4 DEF RecvRead

(* Bytes move from the connection that was read to the buffer; what later  *)
(* connections carry now follows them.                                     *)
LEMMA DataStreams ==
  ASSUME TypeOK, OriginInv, NEW c \in Conns, NEW k \in 1 .. Len(inbound[c]),
         messageBuffers' = messageBuffers \o SubSeq(inbound[c], 1, k),
         inbound' = [inbound EXCEPT ![c] = SubSeq(@, k + 1, Len(@))]
  PROVE  /\ Stream(c)' = Stream(c)
         /\ messageBuffers' \in Seq(Tokens) /\ PartOf(messageBuffers', Stream(c), 0)
         /\ Len(messageBuffers') \in Nat
         /\ \A i \in 1 .. Len(messageBuffers') : messageBuffers'[i] \in Requests =>
              \/ \E j \in 1 .. Len(messageBuffers) : messageBuffers'[i] = messageBuffers[j]
              \/ messageBuffers'[i] <= asked /\ origin[messageBuffers'[i]] = c
         /\ \A i \in 1 .. Len(inbound'[c]) : inbound'[c][i] \in Requests =>
              inbound'[c][i] <= asked /\ origin[inbound'[c][i]] = c
<1> DEFINE b == messageBuffers
           s == inbound[c]
           p == SubSeq(s, 1, k)
           r == SubSeq(s, k + 1, Len(s))
<1>1. /\ b \in Seq(Tokens) /\ s \in Seq(Tokens) /\ Len(s) \in Nat
      /\ k \in 0 .. Len(s) /\ inbound'[c] = r
  BY FramingTypes
<1>2. \A i \in 1 .. Len(s) : s[i] \in Requests => s[i] <= asked /\ origin[s[i]] = c
  BY DEF OriginInv
<1>3. p \in Seq(Tokens) /\ PartOf(p, s, 0)
  BY <1>1, PrefixIsPart
<1>4. r \in Seq(Tokens) /\ PartOf(r, s, k)
  BY <1>1, SuffixIsPart
<1>5. s = p \o r
  <2>1. 1 <= k + 1 /\ k \in 1 .. Len(s) /\ Len(s) \in k .. Len(s)
    BY <1>1
  <2>2. p \o r = SubSeq(s, 1, Len(s))
    BY <1>1, <2>1, ConcatAdjacentSubSeq
  <2>3. SubSeq(s, 1, Len(s)) = s
    BY <1>1, SubSeqFull
  <2> QED
    BY <2>2, <2>3
<1>6. ASSUME NEW i \in 1 .. Len(r), r[i] \in Requests
      PROVE  r[i] <= asked /\ origin[r[i]] = c
  BY <1>2, <1>4, <1>6, SMTT(40) DEF PartOf
<1>7. ASSUME NEW i \in 1 .. Len(p), p[i] \in Requests
      PROVE  p[i] <= asked /\ origin[p[i]] = c
  BY <1>2, <1>3, <1>7 DEF PartOf
<1>8. (b \o p) \o r = b \o (p \o r)
  <2> HIDE DEF b, p, r, s
  <2>1. b \in Seq(Tokens) /\ p \in Seq(Tokens) /\ r \in Seq(Tokens)
    BY <1>1, <1>3, <1>4
  <2> QED
    BY <2>1, ConcatAssociative, SMTT(40)
<1>9. Stream(c)' = (b \o p) \o r /\ Stream(c) = b \o s
  BY <1>1 DEF Stream
<1>10. Stream(c)' = Stream(c)
  BY <1>5, <1>8, <1>9
<1>11. JoinOf(b \o p, b, p) /\ b \o p \in Seq(Tokens)
  BY <1>1, <1>3, ConcatIsJoin
<1>12. JoinOf(Stream(c), b \o p, r)
  BY <1>4, <1>9, <1>10, <1>11, ConcatIsJoin
<1>13. PartOf(b \o p, Stream(c), 0)
  BY <1>12, JoinParts
<1>14. messageBuffers' = b \o p
  OBVIOUS
<1> HIDE DEF b, p, r, s
<1>15. ASSUME NEW i \in 1 .. Len(b \o p), (b \o p)[i] \in Requests
       PROVE  \/ \E j \in 1 .. Len(b) : (b \o p)[i] = b[j]
              \/ (b \o p)[i] <= asked /\ origin[(b \o p)[i]] = c
  <2>1. Len(b) \in Nat /\ Len(p) \in Nat /\ Len(b \o p) = Len(b) + Len(p)
    BY <1>11 DEF JoinOf
  <2>2. CASE i <= Len(b)
    <3>1. i \in 1 .. Len(b)
      BY <2>1, <2>2
    <3> QED
      BY <1>11, <3>1 DEF JoinOf
  <2>3. CASE i > Len(b)
    <3>1. i - Len(b) \in 1 .. Len(p) /\ (i - Len(b)) + Len(b) = i
      BY <2>1, <2>3
    <3>2. (b \o p)[i] = p[i - Len(b)]
      BY <1>11, <3>1 DEF JoinOf
    <3> QED
      BY <1>7, <1>15, <3>1, <3>2
  <2> QED
    BY <2>1, <2>2, <2>3, SMTT(40)
<1> QED
  BY <1>1, <1>6, <1>10, <1>11, <1>13, <1>14, <1>15, LenProperties DEF b, s, p, r

(* What begins a sound stream is sound.                                    *)
LEMMA PrefixOK ==
  ASSUME NEW s, NEW t, PartOf(t, s, 0), NEW from \in [Requests -> Nat], NEW delivered,
         StreamOK(s, delivered, from)
  PROVE  StreamOK(t, delivered, from)
<1>1. /\ FramesWhole(s) /\ StreamInOrder(s, from) /\ StreamFollows(s, delivered, from)
      /\ BreaksBetween(s, Spoiled(delivered), from)
  BY DEF StreamOK
<1>2. FramesWhole(t)
  BY <1>1, PartWhole
<1>3. StreamInOrder(t, from) /\ StreamFollows(t, delivered, from)
  BY <1>1, PartInOrder, PartFollows
<1>4. BreaksBetween(t, Spoiled(delivered), from)
  BY <1>1, <1>2, PrefixBreaks
<1> QED
  BY <1>2, <1>3, <1>4 DEF StreamOK

(* The stream of a later connection, d, when its tokens follow more of an  *)
(* earlier one, c.                                                         *)
LEMMA LaterStream ==
  ASSUME NEW u, NEW s, NEW t, JoinOf(u, s, t), NEW v, NEW b, JoinOf(v, b, t),
         NEW from \in [Requests -> Nat], NEW delivered,
         NEW c \in Nat, NEW d \in Nat, c < d,
         Spoiled(delivered) \in Nat, Spoiled(delivered) < c,
         StreamOK(s, delivered, from), StreamOK(v, delivered, from), FramesWhole(t),
         \A i \in 1 .. Len(s) : s[i] \in Requests => from[s[i]] <= c,
         \A i \in 1 .. Len(t) : t[i] \in Requests => from[t[i]] = d
  PROVE  /\ StreamOK(u, delivered, from)
         /\ BreaksBefore(Len(v), d, v, Spoiled(delivered), from)
              => BreaksBefore(Len(u), d, u, Spoiled(delivered), from)
<1> DEFINE g == Spoiled(delivered)
<1> HIDE DEF g
<1>1. /\ FramesWhole(s) /\ StreamInOrder(s, from) /\ StreamFollows(s, delivered, from)
      /\ BreaksBetween(s, g, from)
  BY DEF StreamOK, g
<1>2. /\ FramesWhole(v) /\ StreamInOrder(v, from) /\ StreamFollows(v, delivered, from)
      /\ BreaksBetween(v, g, from)
  BY DEF StreamOK, g
<1>3. PartOf(t, v, Len(b))
  BY JoinParts
<1>4. StreamInOrder(t, from) /\ StreamFollows(t, delivered, from)
  BY <1>2, <1>3, PartInOrder, PartFollows
<1>5. FramesWhole(u)
  BY <1>1, JoinWhole
<1>6. StreamInOrder(u, from)
  <2>1. ASSUME NEW i \in 1 .. Len(s), NEW j \in 1 .. Len(t),
               s[i] \in Requests, t[j] \in Requests
        PROVE  /\ from[s[i]] <= from[t[j]] /\ s[i] # t[j]
               /\ from[s[i]] = from[t[j]] => s[i] <= t[j]
    <3>1. from[s[i]] <= c /\ from[t[j]] = d /\ from[s[i]] \in Nat
      BY <2>1
    <3> QED
      BY <3>1
  <2> QED
    BY <1>1, <1>4, <2>1, JoinOrder
<1>7. StreamFollows(u, delivered, from)
  BY <1>1, <1>4, JoinFollows
<1>8. /\ Len(s) \in Nat /\ Len(t) \in Nat /\ Len(u) = Len(t) + Len(s)
      /\ Len(b) \in Nat /\ Len(v) = Len(t) + Len(b)
  BY DEF JoinOf
<1>9. g \in Nat /\ g < c
  BY DEF g
<1>10. ASSUME NEW p \in 0 .. Len(t), BreaksBefore(p + Len(b), d, v, g, from)
       PROVE  BreaksBefore(p + Len(s), d, u, g, from)
  BY <1>1, <1>9, <1>10, LaterBefore
<1>11. BreaksBetween(u, g, from)
  <2>1. ASSUME NEW p \in 1 .. Len(t), EndsAt(p, t)
        PROVE  /\ g < Bringer(p, t, from)
               /\ BreaksBefore(p + Len(s), Bringer(p, t, from), u, g, from)
    <3>1. /\ p - 2 \in 1 .. Len(t) /\ t[p - 2] \in Requests
          /\ Bringer(p, t, from) = from[t[p - 2]]
      BY <1>8, <2>1, BringerTyped
    <3>2. Bringer(p, t, from) = d
      BY <3>1
    <3>3. /\ p + Len(b) \in 1 .. Len(v) /\ EndsAt(p + Len(b), v)
          /\ Bringer(p + Len(b), v, from) = d
      BY <1>3, <2>1, <3>2, PartEnds
    <3>4. BreaksBefore(p + Len(b), d, v, g, from)
      BY <1>2, <3>3 DEF BreaksBetween
    <3>5. p \in 0 .. Len(t)
      BY <1>8
    <3> QED
      BY <1>9, <1>10, <3>2, <3>4, <3>5
  <2> QED
    BY <1>1, <2>1, JoinBreaks
<1>12. ASSUME BreaksBefore(Len(v), d, v, g, from)
       PROVE  BreaksBefore(Len(u), d, u, g, from)
  <2>1. Len(t) \in 0 .. Len(t)
    BY <1>8
  <2> QED
    BY <1>8, <1>10, <1>12, <2>1
<1> QED
  BY <1>5, <1>6, <1>7, <1>11, <1>12 DEF StreamOK, g

LEMMA FramedData ==
  ASSUME TypeOK, Framed, RecvData
  PROVE  Framed'
<1>c. PICK c \in Conns : c = reading
  BY DEF RecvData, At, TypeOK
<1>0. /\ UNCHANGED <<asked, origin, conns, receiveMessage, dispatched, fdTable, state>>
      /\ Delivered' = Delivered /\ reading' = Free
  BY DEF RecvData, queues, kernel, history, Delivered
<1>1. PICK k \in 1 .. Len(inbound[c]) :
        /\ messageBuffers' = messageBuffers \o SubSeq(inbound[c], 1, k)
        /\ inbound' = [inbound EXCEPT ![c] = SubSeq(@, k + 1, Len(@))]
  BY <1>c DEF RecvData
<1>2. Referenced(c)
  BY <1>c DEF Referenced
<1>3. /\ Stream(c)' = Stream(c)
      /\ messageBuffers' \in Seq(Tokens) /\ PartOf(messageBuffers', Stream(c), 0)
      /\ Len(messageBuffers') \in Nat
      /\ \A i \in 1 .. Len(messageBuffers') : messageBuffers'[i] \in Requests =>
           \/ \E j \in 1 .. Len(messageBuffers) : messageBuffers'[i] = messageBuffers[j]
           \/ messageBuffers'[i] <= asked /\ origin[messageBuffers'[i]] = c
      /\ \A i \in 1 .. Len(inbound'[c]) : inbound'[c][i] \in Requests =>
           inbound'[c][i] <= asked /\ origin[inbound'[c][i]] = c
  <2>1. OriginInv
    BY DEF Framed
  <2> QED
    BY <1>0, <1>1, <2>1, DataStreams
<1>4. /\ inbound \in [Conns -> Seq(Tokens)]
      /\ \A d \in Conns : d # c => inbound'[d] = inbound[d]
      /\ origin \in [Requests -> Nat] /\ conns \in Nat /\ Conns \subseteq Nat \ {0}
      /\ Spoiled(Delivered) \in Nat /\ Free \notin Conns /\ Free = 0
  BY <1>1, FramingTypes DEF Free
<1>5. /\ StreamOK(Stream(c), Delivered, origin)
      /\ \A i \in 1 .. Len(messageBuffers) :
           messageBuffers[i] \in Requests => origin[messageBuffers[i]] <= c
      /\ Spoiled(Delivered) < c
      /\ state[c] = "est" =>
           BreaksBefore(Len(Stream(c)), c, Stream(c), Spoiled(Delivered), origin)
  BY <1>0, <1>2 DEF Framed, StreamInv
<1>6. c <= conns /\ \A fd \in Fds : fdTable[fd] \in Conns =>
        fdTable[fd] <= conns /\ c <= fdTable[fd]
  BY <1>c DEF Framed, OriginInv
<1>7. \A i \in 1 .. Len(messageBuffers') :
        messageBuffers'[i] \in Requests => origin[messageBuffers'[i]] <= c
  BY <1>0, <1>3, <1>4, <1>5
<1>8. StreamOK(messageBuffers', Delivered, origin)
  BY <1>3, <1>4, <1>5, PrefixOK
<1>9. OriginInv'
  <2>1. reading' <= conns' /\ (pc'["recv"] # "reading" => reading' = Free)
    BY <1>0, <1>4
  <2>2. \A fd \in Fds : fdTable'[fd] \in Conns =>
          fdTable'[fd] <= conns' /\ reading' <= fdTable'[fd]
    <3>1. ASSUME NEW fd \in Fds, fdTable[fd] \in Conns
          PROVE  fdTable[fd] <= conns /\ 0 <= fdTable[fd]
      <4>1. fdTable[fd] \in Nat
        BY <1>4, <3>1, Zenon
      <4>2. fdTable[fd] <= conns
        BY <1>6, <3>1, Zenon
      <4> QED
        BY <4>1, <4>2
    <3> QED
      BY <1>0, <1>4, <3>1
  <2>3. \A d \in Conns : d > conns' => inbound'[d] = <<>>
    <3>1. \A d \in Conns : d > conns => d # c /\ inbound[d] = <<>>
      BY <1>0, <1>4, <1>6 DEF Framed, OriginInv
    <3> QED
      BY <1>0, <1>4, <3>1
  <2>4. \A d \in Conns : \A i \in 1 .. Len(inbound'[d]) : inbound'[d][i] \in Requests =>
          inbound'[d][i] <= asked /\ origin[inbound'[d][i]] = d
    BY <1>3, <1>4 DEF Framed, OriginInv
  <2>5. \A i \in 1 .. Len(messageBuffers') : messageBuffers'[i] \in Requests =>
          messageBuffers'[i] <= asked /\ origin[messageBuffers'[i]] <= conns
    <3>1. \A i \in 1 .. Len(messageBuffers) : messageBuffers[i] \in Requests =>
            messageBuffers[i] <= asked
      BY DEF Framed, OriginInv
    <3>2. ASSUME NEW i \in 1 .. Len(messageBuffers'), messageBuffers'[i] \in Requests
          PROVE  messageBuffers'[i] <= asked
      BY <1>3, <3>1, <3>2
    <3>3. ASSUME NEW i \in 1 .. Len(messageBuffers'), messageBuffers'[i] \in Requests
          PROVE  origin[messageBuffers'[i]] <= conns
      <4>1. origin[messageBuffers'[i]] <= c /\ origin[messageBuffers'[i]] \in Nat
        BY <1>4, <1>7, <3>3
      <4> QED
        BY <1>0, <1>4, <1>6, <4>1
    <3> QED
      BY <3>2, <3>3
  <2>6. \A d \in 1 .. Len(Delivered) : Delivered[d] <= asked
    BY DEF Framed, OriginInv
  <2> QED
    BY <1>0, <2>1, <2>2, <2>3, <2>4, <2>5, <2>6 DEF OriginInv
<1>10. ASSUME NEW d \in Conns, Referenced(d)'
       PROVE  /\ StreamOK(Stream(d)', Delivered, origin)
              /\ \A i \in 1 .. Len(messageBuffers') :
                   messageBuffers'[i] \in Requests => origin[messageBuffers'[i]] <= d
              /\ Spoiled(Delivered) < d
              /\ state[d] = "est" =>
                   BreaksBefore(Len(Stream(d)'), d, Stream(d)', Spoiled(Delivered), origin)
  <2>1. Referenced(d) /\ c <= d
    BY <1>c, <1>0, <1>4, <1>6, <1>10 DEF Referenced
  <2>2. CASE d = c
    BY <1>3, <1>5, <1>7, <2>2
  <2>3. CASE d # c
    <3>1. c \in Nat /\ d \in Nat /\ c < d
      BY <1>0, <1>4, <2>1, <2>3
    <3>2. /\ inbound'[d] = inbound[d] /\ inbound[d] \in Seq(Tokens)
          /\ FramesWhole(inbound[d])
          /\ StreamOK(Stream(d), Delivered, origin)
          /\ state[d] = "est" =>
               BreaksBefore(Len(Stream(d)), d, Stream(d), Spoiled(Delivered), origin)
      BY <1>c, <1>4, <2>1, <2>3 DEF Framed, StreamInv
    <3>3. JoinOf(Stream(d)', messageBuffers', inbound[d])
      BY <1>3, <3>2, ConcatIsJoin DEF Stream
    <3>4. JoinOf(Stream(d), messageBuffers, inbound[d])
      BY StreamJoins
    <3>5. \A i \in 1 .. Len(inbound[d]) : inbound[d][i] \in Requests => origin[inbound[d][i]] = d
      BY DEF Framed, OriginInv
    <3>6. /\ StreamOK(Stream(d)', Delivered, origin)
          /\ BreaksBefore(Len(Stream(d)), d, Stream(d), Spoiled(Delivered), origin)
               => BreaksBefore(Len(Stream(d)'), d, Stream(d)', Spoiled(Delivered), origin)
      BY <1>4, <1>5, <1>7, <1>8, <3>1, <3>2, <3>3, <3>4, <3>5, LaterStream
    <3>7. \A i \in 1 .. Len(messageBuffers') :
            messageBuffers'[i] \in Requests => origin[messageBuffers'[i]] <= d
      BY <1>4, <1>7, <3>1
    <3> QED
      BY <1>4, <1>5, <3>1, <3>2, <3>6, <3>7
  <2> QED
    BY <2>2, <2>3
<1>11. StreamInv'
  BY <1>0, <1>4, <1>8, <1>10 DEF StreamInv
<1>12. RequestsInOrder' /\ GarbagePerReconnect'
  BY <1>0 DEF Framed, RequestsInOrder, GarbagePerReconnect
<1> QED
  BY <1>9, <1>11, <1>12 DEF Framed

(* A frame is taken out of the buffer: its packet is the last delivered.   *)
LEMMA CutJoin ==
  ASSUME NEW s, NEW b, NEW x, JoinOf(s, b, x), NEW t, NEW r, JoinOf(t, r, x),
         NEW k, PartOf(r, b, k), Len(r) + k = Len(b)
  PROVE  PartOf(t, s, k) /\ Len(t) + k = Len(s)
<1>1. /\ Len(b) \in Nat /\ Len(x) \in Nat /\ Len(r) \in Nat /\ k \in Nat
      /\ Len(s) = Len(b) + Len(x) /\ Len(t) = Len(r) + Len(x)
  BY DEF JoinOf, PartOf
<1>2. ASSUME NEW i \in 1 .. Len(t)
      PROVE  i + k \in 1 .. Len(s) /\ t[i] = s[i + k]
  <2>1. CASE i <= Len(r)
    <3>1. i \in 1 .. Len(r) /\ i + k \in 1 .. Len(b) /\ i + k \in 1 .. Len(s)
      BY <1>1, <2>1
    <3>2. t[i] = r[i] /\ s[i + k] = b[i + k]
      BY <3>1 DEF JoinOf
    <3>3. r[i] = b[i + k]
      BY <3>1 DEF PartOf
    <3> QED
      BY <3>1, <3>2, <3>3
  <2>2. CASE i > Len(r)
    <3> DEFINE j == i - Len(r)
    <3>1. /\ j \in 1 .. Len(x) /\ j + Len(r) = i /\ j + Len(b) = i + k
          /\ i + k \in 1 .. Len(s)
      BY <1>1, <2>2
    <3> HIDE DEF j
    <3>2. t[j + Len(r)] = x[j] /\ s[j + Len(b)] = x[j]
      BY <3>1 DEF JoinOf
    <3> QED
      BY <3>1, <3>2
  <2> QED
    BY <1>1, <2>1, <2>2
<1>3. Len(t) + k = Len(s) /\ Len(t) \in Nat /\ Len(s) \in Nat
  BY <1>1
<1> QED
  BY <1>1, <1>2, <1>3 DEF PartOf

LEMMA PushDelivers ==
  ASSUME TypeOK, NEW packet \in Requests \cup {Garbage},
         PushReceiveMessage(packet), dispatched' = dispatched
  PROVE  Delivered' = Append(Delivered, packet)
<1> DEFINE S == Requests \cup {Garbage}
<1>1. /\ receiveMessage \in Seq(S) /\ dispatched \in Seq(S) /\ packet \in S
      /\ receiveMessage' = Append(receiveMessage, packet)
  BY DEF TypeOK, PushReceiveMessage
<1> HIDE DEF S
<1>2. /\ <<packet>> \in Seq(S) /\ dispatched \o receiveMessage \in Seq(S)
  BY <1>1
<1>3. /\ Append(receiveMessage, packet) = receiveMessage \o <<packet>>
      /\ Append(dispatched \o receiveMessage, packet)
           = (dispatched \o receiveMessage) \o <<packet>>
  BY <1>1, <1>2, AppendIsConcat
<1>4. (dispatched \o receiveMessage) \o <<packet>>
        = dispatched \o (receiveMessage \o <<packet>>)
  BY <1>1, <1>2, ConcatAssociative, SMTT(40)
<1> QED
  BY <1>1, <1>3, <1>4 DEF Delivered

LEMMA FramePicked ==
  ASSUME TypeOK, FramesWhole(messageBuffers), RecvFrame
  PROVE  \E k \in 1 .. Len(messageBuffers), packet \in Requests \cup {Garbage} :
           /\ EndsAt(k, messageBuffers) /\ Taken(packet, k, messageBuffers)
           /\ \A p \in 1 .. k - 1 : ~EndsAt(p, messageBuffers)
           /\ messageBuffers' = SubSeq(messageBuffers, k + 1, Len(messageBuffers))
           /\ Delivered' = Append(Delivered, packet)
<1>1. PICK start, end \in 1 .. Len(messageBuffers) :
        /\ IsFirst(start, BOBSTART, messageBuffers)
        /\ IsFirst(end, BOBEND, messageBuffers)
        /\ \E packet \in ReadJsonFromString(Payload(messageBuffers, start, end)) :
             PushReceiveMessage(packet)
        /\ messageBuffers' = SubSeq(messageBuffers, end + 2, Len(messageBuffers))
  BY DEF RecvFrame
<1>2. PICK packet \in ReadJsonFromString(Payload(messageBuffers, start, end)) :
        PushReceiveMessage(packet)
  BY <1>1
<1>3. messageBuffers \in Seq(Tokens)
  BY FramingTypes
<1>4. EndsAt(end + 1, messageBuffers) /\ end \in Nat
  BY <1>1, <1>3, FirstFrame
<1>5. Taken(packet, end + 1, messageBuffers)
  BY <1>1, <1>2, <1>3, FirstPacket
<1>6. packet \in Requests \cup {Garbage}
  BY <1>5 DEF Taken
<1>7. Delivered' = Append(Delivered, packet)
  <2>1. dispatched' = dispatched
    BY DEF RecvFrame, history
  <2> QED
    BY <1>2, <1>6, <2>1, PushDelivers
<1>8. end + 1 \in 1 .. Len(messageBuffers) /\ (end + 1) + 1 = end + 2
  BY <1>4 DEF EndsAt
<1>9. ASSUME NEW p \in 1 .. (end + 1) - 1, EndsAt(p, messageBuffers) PROVE FALSE
  <2>1. /\ p \in 1 .. Len(messageBuffers) /\ messageBuffers[p] = End
        /\ WholeAt(p, messageBuffers)
    BY <1>9 DEF EndsAt, FramesWhole
  <2>2. p >= 6 /\ messageBuffers[p - 1] = Bob /\ (p - 1) + 1 = p
    BY <2>1 DEF WholeAt
  <2>3. p - 1 \in 1 .. Len(messageBuffers) - 1
    BY <1>3, <2>1, <2>2, LenProperties
  <2>4. p - 1 \in Occurrences(BOBEND, messageBuffers)
    BY <2>1, <2>2, <2>3 DEF Occurrences, BOBEND
  <2>5. end <= p - 1
    BY <1>1, <2>4 DEF IsFirst
  <2> QED
    BY <1>4, <1>9, <2>5
<1> QED
  BY <1>1, <1>4, <1>5, <1>6, <1>7, <1>8, <1>9

LEMMA FramedFrame ==
  ASSUME TypeOK, Framed, RecvFrame
  PROVE  Framed'
<1> DEFINE b == messageBuffers
<1>0. /\ UNCHANGED <<inbound, asked, origin, conns, fdTable, reading, state, pc>>
      /\ \A c \in Conns : Referenced(c)' = Referenced(c)
  BY DEF RecvFrame, kernel, network, locals, Referenced
<1>1. FramesWhole(b) /\ StreamOK(b, Delivered, origin)
  BY DEF Framed, StreamInv, StreamOK
<1>2. PICK k \in 1 .. Len(b), packet \in Requests \cup {Garbage} :
        /\ EndsAt(k, b) /\ Taken(packet, k, b)
        /\ messageBuffers' = SubSeq(b, k + 1, Len(b))
        /\ Delivered' = Append(Delivered, packet)
  BY <1>1, FramePicked
<1>3. /\ b \in Seq(Tokens) /\ Len(b) \in Nat /\ origin \in [Requests -> Nat]
      /\ Delivered \in Seq(Requests \cup {Garbage}) /\ conns \in Nat /\ asked \in Nat
      /\ Conns \subseteq Nat /\ inbound \in [Conns -> Seq(Tokens)]
  BY FramingTypes
<1>4. /\ messageBuffers' \in Seq(Tokens) /\ PartOf(messageBuffers', b, k)
      /\ Len(messageBuffers') + k = Len(b)
  <2>1. k \in 0 .. Len(b)
    BY <1>3
  <2>2. /\ messageBuffers' \in Seq(Tokens) /\ PartOf(messageBuffers', b, k)
        /\ Len(messageBuffers') = Len(b) - k
    BY <1>2, <1>3, <2>1, SuffixIsPart
  <2> QED
    BY <1>3, <2>1, <2>2
<1>5. StreamOK(messageBuffers', Delivered', origin)
  BY <1>1, <1>2, <1>3, <1>4, TakeOK
<1>6. /\ Spoiled(Delivered') < Bringer(k, b, origin) /\ Spoiled(Delivered') \in Nat
      /\ Bringer(k, b, origin) = origin[b[k - 2]]
      /\ k - 2 \in 1 .. Len(b) /\ b[k - 2] \in Requests /\ origin[b[k - 2]] \in Nat
  <2>1. BreaksBetween(b, Spoiled(Delivered), origin)
    BY <1>1 DEF StreamOK
  <2>2. /\ k - 2 \in 1 .. Len(b) /\ b[k - 2] \in Requests
        /\ Bringer(k, b, origin) = origin[b[k - 2]]
    BY <1>1, <1>2, <1>3, BringerTyped
  <2>3. Spoiled(Append(Delivered, packet)) < Bringer(k, b, origin)
        /\ Spoiled(Append(Delivered, packet)) \in Nat
    BY <1>1, <1>2, <1>3, <2>1, TakeSpoils
  <2> QED
    BY <1>2, <1>3, <2>2, <2>3
<1>7. /\ Len(Delivered) \in Nat /\ Len(Delivered') = Len(Delivered) + 1
      /\ Delivered'[Len(Delivered) + 1] = packet
      /\ \A i \in 1 .. Len(Delivered) : Delivered'[i] = Delivered[i]
  BY <1>2, <1>3, LenProperties, AppendProperties
<1>8. OriginInv'
  <2>1. ASSUME NEW i \in 1 .. Len(messageBuffers')
        PROVE  \E j \in 1 .. Len(b) : messageBuffers'[i] = b[j]
    BY <1>4 DEF PartOf
  <2>2. \A i \in 1 .. Len(messageBuffers') :
          messageBuffers'[i] \in Requests =>
            messageBuffers'[i] <= asked /\ origin[messageBuffers'[i]] <= conns
    BY <2>1 DEF Framed, OriginInv
  <2>3. packet <= asked
    <3>1. CASE packet = Garbage
      BY <1>3, <3>1 DEF Garbage
    <3>2. CASE packet \in Requests
      <4>1. PICK i \in 1 .. k - 2 : packet # Garbage => b[i] = packet
        BY <1>2, <1>6 DEF Taken
      <4>2. packet # Garbage
        BY <3>2, BoundsAssumption DEF Requests, Garbage
      <4>3. i \in 1 .. Len(b)
        BY <1>3
      <4> QED
        BY <3>2, <4>1, <4>2, <4>3 DEF Framed, OriginInv
    <3> QED
      BY <3>1, <3>2
  <2>4. \A d \in 1 .. Len(Delivered') : Delivered'[d] <= asked
    <3>1. \A d \in 1 .. Len(Delivered) : Delivered[d] <= asked
      BY DEF Framed, OriginInv
    <3>2. \A d \in 1 .. Len(Delivered') : d \in 1 .. Len(Delivered) \/ d = Len(Delivered) + 1
      BY <1>7
    <3> QED
      BY <1>7, <2>3, <3>1, <3>2
  <2> QED
    BY <1>0, <2>2, <2>4 DEF Framed, OriginInv
<1>9. StreamInv'
  <2>1. ASSUME NEW c \in Conns, Referenced(c)
        PROVE  /\ StreamOK(Stream(c)', Delivered', origin)
               /\ \A i \in 1 .. Len(messageBuffers') :
                    messageBuffers'[i] \in Requests => origin[messageBuffers'[i]] <= c
               /\ reading \in Conns \ {c} => FramesWhole(inbound[c])
               /\ Spoiled(Delivered') < c
               /\ state[c] = "est" =>
                    BreaksBefore(Len(Stream(c)'), c, Stream(c)', Spoiled(Delivered'), origin)
    <3>1. /\ StreamOK(Stream(c), Delivered, origin)
          /\ \A i \in 1 .. Len(b) : b[i] \in Requests => origin[b[i]] <= c
          /\ reading \in Conns \ {c} => FramesWhole(inbound[c])
          /\ state[c] = "est" =>
               BreaksBefore(Len(Stream(c)), c, Stream(c), Spoiled(Delivered), origin)
      BY <2>1 DEF Framed, StreamInv
    <3>2. /\ JoinOf(Stream(c), b, inbound[c]) /\ PartOf(b, Stream(c), 0)
          /\ Len(Stream(c)) \in Nat
      BY StreamJoins
    <3>3. JoinOf(Stream(c)', messageBuffers', inbound[c])
      BY <1>0, <1>3, <1>4, ConcatIsJoin DEF Stream
    <3>4. PartOf(Stream(c)', Stream(c), k) /\ Len(Stream(c)') + k = Len(Stream(c))
      BY <1>4, <3>2, <3>3, CutJoin
    <3>5. EndsAt(k, Stream(c)) /\ Taken(packet, k, Stream(c))
      <4>1. /\ EndsAt(k, b) /\ Taken(packet, k, b)
            /\ FramesWhole(Stream(c)) /\ PartOf(b, Stream(c), 0)
        BY <1>2, <3>1, <3>2 DEF StreamOK
      <4> HIDE DEF b
      <4> QED
        BY <4>1, TakenOfStream
    <3>6. k \in 1 .. Len(Stream(c)) /\ c \in Nat
      BY <1>3, <3>5 DEF EndsAt
    <3>7. /\ StreamOK(Stream(c)', Delivered', origin)
          /\ BreaksBefore(Len(Stream(c)), c, Stream(c), Spoiled(Delivered), origin)
               => BreaksBefore(Len(Stream(c)'), c, Stream(c)', Spoiled(Delivered'), origin)
      BY <1>2, <1>3, <3>1, <3>4, <3>5, <3>6, TakeOK
    <3>8. Spoiled(Delivered') < c
      <4>1. origin[b[k - 2]] <= c
        BY <1>6, <3>1
      <4> QED
        BY <1>6, <3>6, <4>1
    <3>9. ASSUME NEW i \in 1 .. Len(messageBuffers'), messageBuffers'[i] \in Requests
          PROVE  origin[messageBuffers'[i]] <= c
      BY <1>4, <3>1, <3>9 DEF PartOf
    <3> QED
      BY <3>1, <3>7, <3>8, <3>9
  <2> QED
    BY <1>0, <1>5, <2>1 DEF StreamInv
<1>10. RequestsInOrder'
  <2> SUFFICES ASSUME NEW i \in 1 .. Len(Delivered'), NEW j \in 1 .. Len(Delivered'),
                      i < j, Delivered'[i] # Garbage, Delivered'[j] # Garbage
               PROVE  /\ Delivered'[i] # Delivered'[j]
                      /\ origin[Delivered'[i]] = origin[Delivered'[j]]
                           => Delivered'[i] < Delivered'[j]
    BY <1>0 DEF RequestsInOrder
  <2>1. i \in 1 .. Len(Delivered) /\ (j \in 1 .. Len(Delivered) \/ j = Len(Delivered) + 1)
    BY <1>7
  <2>2. CASE j \in 1 .. Len(Delivered)
    <3>1. Delivered'[i] = Delivered[i] /\ Delivered'[j] = Delivered[j]
      BY <1>7, <2>1, <2>2
    <3> QED
      BY <2>1, <2>2, <3>1 DEF Framed, RequestsInOrder
  <2>3. CASE j = Len(Delivered) + 1
    <3>1. Delivered'[j] = packet /\ packet \in Requests /\ Delivered'[i] = Delivered[i]
      BY <1>7, <2>1, <2>3
    <3>2. PICK x \in 1 .. k - 2 : b[x] = packet
      BY <1>2, <3>1 DEF Taken
    <3>3. x \in 1 .. Len(b)
      BY <1>3
    <3> QED
      BY <1>1, <2>1, <3>1, <3>2, <3>3 DEF StreamOK, StreamFollows
  <2> QED
    BY <2>1, <2>2, <2>3
<1>11. GarbagePerReconnect'
  <2>1. origin[b[k - 2]] <= conns
    BY <1>6 DEF Framed, OriginInv
  <2>2. Spoiled(Delivered') < conns
    BY <1>3, <1>6, <2>1
  <2> QED
    BY <1>0, <2>2 DEF GarbagePerReconnect, Spoiled
<1> QED
  BY <1>8, <1>9, <1>10, <1>11 DEF Framed

(* A reset: what the connection carries is cut short.                      *)
LEMMA PrefixJoin ==
  ASSUME NEW s, NEW b, NEW x, JoinOf(s, b, x), NEW t, NEW y, JoinOf(t, b, y),
         PartOf(y, x, 0)
  PROVE  PartOf(t, s, 0)
<1>1. /\ Len(b) \in Nat /\ Len(x) \in Nat /\ Len(y) \in Nat
      /\ Len(s) = Len(b) + Len(x) /\ Len(t) = Len(b) + Len(y)
  BY DEF JoinOf
<1>2. \A i \in 1 .. Len(y) : i \in 1 .. Len(x) /\ y[i] = x[i]
  <2>1. \A i \in 1 .. Len(y) : i + 0 = i
    BY <1>1
  <2> QED
    BY <2>1 DEF PartOf
<1>3. ASSUME NEW i \in 1 .. Len(t)
      PROVE  i + 0 \in 1 .. Len(s) /\ t[i] = s[i + 0]
  <2>1. i + 0 = i /\ i \in Nat
    BY <1>1
  <2>2. CASE i <= Len(b)
    <3>1. i \in 1 .. Len(b) /\ i \in 1 .. Len(s)
      BY <1>1, <2>2
    <3>2. t[i] = b[i] /\ s[i] = b[i]
      BY <3>1 DEF JoinOf
    <3> QED
      BY <2>1, <3>1, <3>2
  <2>3. CASE i > Len(b)
    <3> DEFINE j == i - Len(b)
    <3>1. j \in 1 .. Len(y) /\ j + Len(b) = i
      BY <1>1, <2>3
    <3>2. j \in 1 .. Len(x) /\ y[j] = x[j]
      BY <1>2, <3>1
    <3>3. i \in 1 .. Len(s)
      BY <1>1, <3>1, <3>2
    <3> HIDE DEF j
    <3>4. t[j + Len(b)] = y[j] /\ s[j + Len(b)] = x[j]
      BY <3>1, <3>2 DEF JoinOf
    <3> QED
      BY <2>1, <3>1, <3>2, <3>3, <3>4
  <2> QED
    BY <1>1, <2>1, <2>2, <2>3
<1>4. Len(t) \in Nat /\ Len(s) \in Nat
  BY <1>1
<1> QED
  BY <1>3, <1>4 DEF PartOf

LEMMA FramedReset ==
  ASSUME TypeOK, Framed, NetworkReset
  PROVE  Framed'
<1>0. /\ UNCHANGED <<messageBuffers, asked, origin, conns, receiveMessage, dispatched,
                     fdTable, reading, pc>>
      /\ Delivered' = Delivered
      /\ \A d \in Conns : Referenced(d)' = Referenced(d)
  BY DEF NetworkReset, queues, members, kernel, locals, history, Delivered, Referenced
<1>1. PICK c \in Conns :
        /\ state' = [state EXCEPT ![c] = "reset"]
        /\ \E k \in 0 .. Len(inbound[c]) :
             inbound' = [inbound EXCEPT ![c] = SubSeq(@, 1, k)]
  BY DEF NetworkReset
<1>2. PICK k \in 0 .. Len(inbound[c]) :
        inbound' = [inbound EXCEPT ![c] = SubSeq(@, 1, k)]
  BY <1>1
<1>3. /\ inbound \in [Conns -> Seq(Tokens)] /\ messageBuffers \in Seq(Tokens)
      /\ origin \in [Requests -> Nat] /\ Conns \subseteq Nat
      /\ state \in [Conns -> {"none", "est", "fin", "reset", "dead"}]
  BY FramingTypes DEF TypeOK
<1>4. /\ inbound'[c] = SubSeq(inbound[c], 1, k) /\ state'[c] = "reset"
      /\ \A d \in Conns : d # c => inbound'[d] = inbound[d] /\ state'[d] = state[d]
  BY <1>1, <1>2, <1>3
<1>5. /\ inbound'[c] \in Seq(Tokens) /\ PartOf(inbound'[c], inbound[c], 0)
      /\ Len(inbound'[c]) = k
  BY <1>3, <1>4, PrefixIsPart
<1>6. PartOf(Stream(c)', Stream(c), 0)
  <2>1. JoinOf(Stream(c)', messageBuffers, inbound'[c])
    BY <1>0, <1>3, <1>5, ConcatIsJoin DEF Stream
  <2>2. JoinOf(Stream(c), messageBuffers, inbound[c])
    BY StreamJoins
  <2> QED
    BY <1>5, <2>1, <2>2, PrefixJoin
<1>7. OriginInv'
  <2>1. ASSUME NEW d \in Conns, d > conns PROVE inbound'[d] = <<>>
    <3>1. inbound[d] = <<>>
      BY <2>1 DEF Framed, OriginInv
    <3>2. CASE d = c
      <4>1. Len(inbound[c]) = 0
        BY <3>1, <3>2
      <4>2. k = 0
        BY <4>1
      <4> QED
        BY <1>5, <3>2, <4>2, EmptySeq
    <3> QED
      BY <1>4, <3>1, <3>2
  <2>2. ASSUME NEW d \in Conns, NEW i \in 1 .. Len(inbound'[d]), inbound'[d][i] \in Requests
        PROVE  inbound'[d][i] <= asked /\ origin[inbound'[d][i]] = d
    <3>1. \A j \in 1 .. Len(inbound[d]) : inbound[d][j] \in Requests =>
            inbound[d][j] <= asked /\ origin[inbound[d][j]] = d
      BY DEF Framed, OriginInv
    <3>2. CASE d = c
      BY <1>5, <2>2, <3>1, <3>2 DEF PartOf
    <3>3. CASE d # c
      BY <1>4, <2>2, <3>1, <3>3
    <3> QED
      BY <3>2, <3>3
  <2> QED
    BY <1>0, <2>1, <2>2 DEF Framed, OriginInv
<1>8. StreamInv'
  <2>1. StreamOK(messageBuffers, Delivered, origin)'
    BY <1>0 DEF Framed, StreamInv
  <2>2. ASSUME NEW d \in Conns, Referenced(d)
        PROVE  /\ StreamOK(Stream(d)', Delivered, origin)
               /\ \A i \in 1 .. Len(messageBuffers) :
                    messageBuffers[i] \in Requests => origin[messageBuffers[i]] <= d
               /\ reading \in Conns \ {d} => FramesWhole(inbound'[d])
               /\ Spoiled(Delivered) < d
               /\ state'[d] = "est" =>
                    BreaksBefore(Len(Stream(d)'), d, Stream(d)', Spoiled(Delivered), origin)
    <3>1. /\ StreamOK(Stream(d), Delivered, origin)
          /\ \A i \in 1 .. Len(messageBuffers) :
               messageBuffers[i] \in Requests => origin[messageBuffers[i]] <= d
          /\ reading \in Conns \ {d} => FramesWhole(inbound[d])
          /\ Spoiled(Delivered) < d
          /\ state[d] = "est" =>
               BreaksBefore(Len(Stream(d)), d, Stream(d), Spoiled(Delivered), origin)
      BY <2>2 DEF Framed, StreamInv
    <3>2. CASE d = c
      <4>1. StreamOK(Stream(d)', Delivered, origin)
        BY <1>3, <1>6, <3>1, <3>2, PrefixOK
      <4>2. reading \in Conns \ {d} => FramesWhole(inbound'[d])
        BY <1>5, <3>1, <3>2, PartWhole
      <4> QED
        BY <1>4, <3>1, <3>2, <4>1, <4>2
    <3>3. CASE d # c
      <4>1. Stream(d)' = Stream(d)
        BY <1>0, <1>4, <3>3 DEF Stream
      <4> QED
        BY <1>4, <3>1, <3>3, <4>1
    <3> QED
      BY <3>2, <3>3
  <2> QED
    BY <1>0, <2>1, <2>2 DEF StreamInv
<1>9. RequestsInOrder' /\ GarbagePerReconnect'
  BY <1>0 DEF Framed, RequestsInOrder, GarbagePerReconnect
<1> QED
  BY <1>7, <1>8, <1>9 DEF Framed

(* The server sends a request over a connection that can be read.          *)
LEMMA JoinGrows ==
  ASSUME NEW S, NEW b \in Seq(S), NEW x \in Seq(S), NEW y \in Seq(S)
  PROVE  JoinOf(b \o (x \o y), b \o x, y)
<1>1. b \o x \in Seq(S)
  OBVIOUS
<1>2. JoinOf((b \o x) \o y, b \o x, y)
  BY <1>1, ConcatIsJoin
<1>3. (b \o x) \o y = b \o (x \o y)
  BY ConcatAssociative, SMTT(40)
<1> QED
  BY <1>2, <1>3

LEMMA SendOK ==
  ASSUME NEW u, NEW s, NEW r \in Requests, JoinOf(u, s, Frame(r)),
         NEW from \in [Requests -> Nat], NEW delivered, NEW c \in Nat, from[r] = c,
         StreamOK(s, delivered, from), Spoiled(delivered) < c,
         BreaksBefore(Len(s), c, s, Spoiled(delivered), from),
         \A i \in 1 .. Len(s) : s[i] \in Requests => s[i] < r /\ from[s[i]] <= c,
         \A d \in 1 .. Len(delivered) : delivered[d] < r
  PROVE  /\ StreamOK(u, delivered, from)
         /\ BreaksBefore(Len(u), c, u, Spoiled(delivered), from)
<1>1. /\ FramesWhole(s) /\ StreamInOrder(s, from) /\ StreamFollows(s, delivered, from)
      /\ BreaksBetween(s, Spoiled(delivered), from)
  BY DEF StreamOK
<1> DEFINE f == Frame(r)
<1>2. /\ Len(f) = 6 /\ FramesWhole(f) /\ StreamInOrder(f, from) /\ JoinOf(u, s, f)
      /\ \A i \in 1 .. Len(f) : f[i] \in Requests => f[i] = r
  BY FrameTokens, FrameWhole, FrameRequest, SMTT(40)
<1>3. /\ BreaksBetween(u, Spoiled(delivered), from)
      /\ BreaksBefore(Len(u), c, u, Spoiled(delivered), from)
  BY <1>1, SendBreaks, SendBefore
<1> HIDE DEF f
<1>4. FramesWhole(u)
  BY <1>1, <1>2, JoinWhole
<1>5. r \in Nat /\ Requests \subseteq Nat
  BY BoundsAssumption DEF Requests
<1>6. StreamInOrder(u, from)
  <2>1. ASSUME NEW i \in 1 .. Len(s), NEW j \in 1 .. Len(f),
               s[i] \in Requests, f[j] \in Requests
        PROVE  /\ from[s[i]] <= from[f[j]] /\ s[i] # f[j]
               /\ from[s[i]] = from[f[j]] => s[i] <= f[j]
    <3>1. s[i] < r /\ from[s[i]] <= c /\ f[j] = r /\ s[i] \in Nat
      BY <1>2, <1>5, <2>1
    <3> QED
      BY <1>5, <3>1
  <2> QED
    BY <1>1, <1>2, <2>1, JoinOrder
<1>7. StreamFollows(f, delivered, from)
  <2> SUFFICES ASSUME NEW i \in 1 .. Len(f), NEW d \in 1 .. Len(delivered),
                      f[i] \in Requests, delivered[d] # Garbage
               PROVE  /\ f[i] # delivered[d]
                      /\ from[f[i]] = from[delivered[d]] => delivered[d] < f[i]
    BY DEF StreamFollows
  <2>1. f[i] = r /\ delivered[d] < r
    BY <1>2
  <2>2. delivered[d] # r
    BY <1>5, <2>1
  <2> QED
    BY <2>1, <2>2
<1>8. StreamFollows(u, delivered, from)
  BY <1>1, <1>2, <1>7, JoinFollows
<1> QED
  BY <1>3, <1>4, <1>6, <1>8 DEF StreamOK

LEMMA FramedSend ==
  ASSUME TypeOK, Framed, ServerSend
  PROVE  Framed'
<1> DEFINE r == asked + 1
<1>0. /\ UNCHANGED <<messageBuffers, conns, receiveMessage, dispatched, fdTable,
                     reading, pc, state>>
      /\ Delivered' = Delivered /\ asked' = r
      /\ \A d \in Conns : Referenced(d)' = Referenced(d)
  BY DEF ServerSend, queues, members, kernel, locals, history, Delivered, Referenced
<1>1. PICK c \in Conns :
        /\ state[c] = "est" /\ Referenced(c)
        /\ inbound' = [inbound EXCEPT ![c] = @ \o Frame(r)]
        /\ origin' = [origin EXCEPT ![r] = c]
  BY DEF ServerSend
<1>2. /\ inbound \in [Conns -> Seq(Tokens)] /\ messageBuffers \in Seq(Tokens)
      /\ origin \in [Requests -> Nat] /\ Conns \subseteq Nat /\ asked \in Nat
      /\ r \in Requests /\ r \in Nat /\ asked < r /\ Requests \subseteq Nat
      /\ Delivered \in Seq(Requests \cup {Garbage}) /\ conns \in Nat
      /\ \A d \in 1 .. Len(Delivered) :
           Delivered[d] \in Nat /\ (Delivered[d] # Garbage => Delivered[d] \in Requests)
  <2>1. /\ inbound \in [Conns -> Seq(Tokens)] /\ messageBuffers \in Seq(Tokens)
        /\ origin \in [Requests -> Nat] /\ Conns \subseteq Nat /\ asked \in Nat
        /\ Delivered \in Seq(Requests \cup {Garbage}) /\ conns \in Nat
    BY FramingTypes
  <2>2. r \in Requests /\ r \in Nat /\ asked < r /\ Requests \subseteq Nat
    BY <2>1, BoundsAssumption DEF ServerSend, Requests
  <2>3. \A d \in 1 .. Len(Delivered) : Delivered[d] \in Requests \cup {Garbage}
    BY <2>1, ElementOfSeq
  <2>4. Garbage \in Nat
    BY DEF Garbage
  <2> QED
    BY <2>1, <2>2, <2>3, <2>4
<1> HIDE DEF r
<1>3. /\ origin' \in [Requests -> Nat] /\ origin'[r] = c
      /\ \A x \in Requests : x <= asked => origin'[x] = origin[x]
      /\ \A d \in Conns : d # c => inbound'[d] = inbound[d]
      /\ inbound'[c] = inbound[c] \o Frame(r)
  BY <1>1, <1>2
<1>4. /\ \A i \in 1 .. Len(messageBuffers) : messageBuffers[i] \in Requests =>
           messageBuffers[i] <= asked /\ origin[messageBuffers[i]] <= conns
      /\ \A d \in Conns : \A i \in 1 .. Len(inbound[d]) : inbound[d][i] \in Requests =>
           inbound[d][i] <= asked /\ origin[inbound[d][i]] = d
      /\ \A d \in 1 .. Len(Delivered) : Delivered[d] <= asked
  BY DEF Framed, OriginInv
<1>5. \A i \in 1 .. Len(messageBuffers) : messageBuffers[i] \in Requests =>
        origin'[messageBuffers[i]] = origin[messageBuffers[i]]
  BY <1>3, <1>4
<1>6. \A d \in 1 .. Len(Delivered) : Delivered[d] # Garbage =>
        Delivered[d] \in Requests /\ origin'[Delivered[d]] = origin[Delivered[d]]
  BY <1>2, <1>3, <1>4
<1>7. ASSUME NEW d \in Conns
      PROVE  \A i \in 1 .. Len(Stream(d)) : Stream(d)[i] \in Requests =>
               /\ Stream(d)[i] <= asked
               /\ origin'[Stream(d)[i]] = origin[Stream(d)[i]]
               /\ \/ \E j \in 1 .. Len(messageBuffers) : Stream(d)[i] = messageBuffers[j]
                  \/ origin[Stream(d)[i]] = d
  <2>1. JoinOf(Stream(d), messageBuffers, inbound[d])
    BY StreamJoins
  <2>2. /\ Len(messageBuffers) \in Nat /\ Len(inbound[d]) \in Nat
        /\ Len(Stream(d)) = Len(messageBuffers) + Len(inbound[d])
    BY <2>1 DEF JoinOf
  <2>3. ASSUME NEW i \in 1 .. Len(Stream(d)), Stream(d)[i] \in Requests
        PROVE  /\ Stream(d)[i] <= asked
               /\ \/ \E j \in 1 .. Len(messageBuffers) : Stream(d)[i] = messageBuffers[j]
                  \/ origin[Stream(d)[i]] = d
    <3>1. CASE i <= Len(messageBuffers)
      <4>1. i \in 1 .. Len(messageBuffers)
        BY <2>2, <3>1
      <4>2. Stream(d)[i] = messageBuffers[i]
        BY <2>1, <4>1 DEF JoinOf
      <4> QED
        BY <1>4, <2>3, <4>1, <4>2
    <3>2. CASE i > Len(messageBuffers)
      <4> DEFINE j == i - Len(messageBuffers)
      <4>1. j \in 1 .. Len(inbound[d]) /\ j + Len(messageBuffers) = i
        BY <2>2, <3>2
      <4> HIDE DEF j
      <4>2. Stream(d)[i] = inbound[d][j]
        BY <2>1, <4>1 DEF JoinOf
      <4> QED
        BY <1>4, <2>3, <4>1, <4>2
    <3> QED
      BY <2>2, <3>1, <3>2
  <2> QED
    BY <1>3, <2>3
<1>8. OriginInv'
  <2>1. ASSUME NEW d \in Conns, d > conns PROVE inbound'[d] = <<>>
    <3>1. inbound[d] = <<>>
      BY <2>1 DEF Framed, OriginInv
    <3>2. OriginInv
      BY DEF Framed
    <3>3. d # c
      <4>1. c <= conns
        BY <1>1, <3>2, ReferencedBound
      <4> QED
        BY <1>2, <2>1, <4>1
    <3> QED
      BY <1>3, <3>1, <3>3
  <2>2. ASSUME NEW d \in Conns, NEW i \in 1 .. Len(inbound'[d]), inbound'[d][i] \in Requests
        PROVE  inbound'[d][i] <= r /\ origin'[inbound'[d][i]] = d
    <3>1. \A j \in 1 .. Len(inbound[d]) : inbound[d][j] \in Requests =>
            inbound[d][j] <= r /\ origin'[inbound[d][j]] = d
      <4>1. ASSUME NEW j \in 1 .. Len(inbound[d]), inbound[d][j] \in Requests
            PROVE  inbound[d][j] <= r /\ origin'[inbound[d][j]] = d
        <5>1. inbound[d][j] <= asked /\ origin[inbound[d][j]] = d /\ inbound[d][j] \in Nat
          BY <1>2, <1>4, <4>1
        <5> QED
          BY <1>2, <1>3, <4>1, <5>1, SMTT(40)
      <4> QED
        BY <4>1
    <3>2. CASE d = c
      <4>1. JoinOf(inbound'[c], inbound[c], Frame(r))
        BY <1>2, <1>3, FrameTokens, ConcatIsJoin
      <4>2. /\ Len(inbound[c]) \in Nat /\ Len(Frame(r)) = 6
            /\ Len(inbound'[c]) = Len(inbound[c]) + Len(Frame(r))
        BY <1>2, <4>1, FrameTokens DEF JoinOf
      <4>3. CASE i <= Len(inbound[c])
        <5>1. i \in 1 .. Len(inbound[c])
          BY <3>2, <4>2, <4>3
        <5>2. inbound'[c][i] = inbound[c][i]
          BY <4>1, <5>1 DEF JoinOf
        <5> QED
          BY <2>2, <3>1, <3>2, <5>1, <5>2
      <4>4. CASE i > Len(inbound[c])
        <5> DEFINE j == i - Len(inbound[c])
        <5>1. j \in 1 .. 6 /\ j \in 1 .. Len(Frame(r)) /\ j + Len(inbound[c]) = i
          BY <3>2, <4>2, <4>4
        <5> HIDE DEF j
        <5>2. inbound'[c][i] = Frame(r)[j]
          BY <4>1, <5>1 DEF JoinOf
        <5>3. Frame(r)[j] \in Requests => Frame(r)[j] = r
          BY <1>2, <5>1, FrameRequest
        <5>4. inbound'[d][i] = r
          BY <2>2, <3>2, <5>2, <5>3
        <5> QED
          BY <1>2, <1>3, <3>2, <5>4, SMTT(40)
      <4> QED
        BY <3>2, <4>2, <4>3, <4>4
    <3>3. CASE d # c
      BY <1>3, <2>2, <3>1, <3>3
    <3> QED
      BY <3>2, <3>3
  <2>3. ASSUME NEW i \in 1 .. Len(messageBuffers), messageBuffers[i] \in Requests
        PROVE  messageBuffers[i] <= r /\ origin'[messageBuffers[i]] <= conns
    <3>1. messageBuffers[i] <= asked /\ messageBuffers[i] \in Nat
      BY <1>2, <1>4, <2>3
    <3> QED
      BY <1>2, <1>4, <1>5, <2>3, <3>1, SMTT(40)
  <2>4. ASSUME NEW d \in 1 .. Len(Delivered) PROVE Delivered[d] <= r
    <3>1. Delivered[d] <= asked /\ Delivered[d] \in Nat
      BY <1>2, <1>4
    <3> QED
      BY <1>2, <3>1
  <2> QED
    BY <1>0, <2>1, <2>2, <2>3, <2>4 DEF Framed, OriginInv
<1>9. StreamInv'
  <2>0. \A d \in Conns : Len(Stream(d)) \in Nat
    BY StreamJoins
  <2>1. StreamOK(messageBuffers, Delivered, origin')
    <3>1. StreamOK(messageBuffers, Delivered, origin) /\ Len(messageBuffers) \in Nat
      BY FramingTypes DEF Framed, StreamInv
    <3>2. \A d \in 1 .. Len(Delivered) : Delivered[d] # Garbage =>
            origin'[Delivered[d]] = origin[Delivered[d]]
      BY <1>6
    <3> QED
      BY <1>2, <1>3, <1>5, <3>1, <3>2, SameOrigins
  <2>2. ASSUME NEW d \in Conns, Referenced(d)
        PROVE  /\ StreamOK(Stream(d), Delivered, origin')
               /\ \A i \in 1 .. Len(messageBuffers) :
                    messageBuffers[i] \in Requests => origin'[messageBuffers[i]] <= d
               /\ reading \in Conns \ {d} => FramesWhole(inbound[d])
               /\ Spoiled(Delivered) < d
               /\ state[d] = "est" =>
                    BreaksBefore(Len(Stream(d)), d, Stream(d), Spoiled(Delivered), origin')
    <3>1. /\ StreamOK(Stream(d), Delivered, origin)
          /\ \A i \in 1 .. Len(messageBuffers) :
               messageBuffers[i] \in Requests => origin[messageBuffers[i]] <= d
          /\ reading \in Conns \ {d} => FramesWhole(inbound[d])
          /\ Spoiled(Delivered) < d
          /\ state[d] = "est" =>
               BreaksBefore(Len(Stream(d)), d, Stream(d), Spoiled(Delivered), origin)
      BY <2>2 DEF Framed, StreamInv
    <3>2. \A i \in 1 .. Len(Stream(d)) : Stream(d)[i] \in Requests =>
            origin'[Stream(d)[i]] = origin[Stream(d)[i]]
      BY <1>7
    <3>3. \A e \in 1 .. Len(Delivered) : Delivered[e] # Garbage =>
            origin'[Delivered[e]] = origin[Delivered[e]]
      BY <1>6
    <3>4. Len(Stream(d)) \in 0 .. Len(Stream(d)) /\ Len(Stream(d)) \in Nat
      BY <2>0
    <3>5. FramesWhole(Stream(d))
      BY <3>1 DEF StreamOK
    <3>6. /\ StreamOK(Stream(d), Delivered, origin')
          /\ BreaksBefore(Len(Stream(d)), d, Stream(d), Spoiled(Delivered), origin)
               => BreaksBefore(Len(Stream(d)), d, Stream(d), Spoiled(Delivered), origin')
      BY <1>2, <1>3, <3>1, <3>2, <3>3, <3>4, <3>5, SameOrigins
    <3>7. \A i \in 1 .. Len(messageBuffers) :
            messageBuffers[i] \in Requests => origin'[messageBuffers[i]] <= d
      BY <1>5, <3>1
    <3> QED
      BY <3>1, <3>6, <3>7
  <2>3. /\ StreamOK(Stream(c)', Delivered, origin')
        /\ BreaksBefore(Len(Stream(c)'), c, Stream(c)', Spoiled(Delivered), origin')
    <3>1. /\ StreamOK(Stream(c), Delivered, origin') /\ Spoiled(Delivered) < c
          /\ BreaksBefore(Len(Stream(c)), c, Stream(c), Spoiled(Delivered), origin')
      BY <1>1, <2>2
    <3>2. JoinOf(Stream(c)', Stream(c), Frame(r))
      <4>1. Stream(c)' = messageBuffers \o (inbound[c] \o Frame(r))
        BY <1>0, <1>3 DEF Stream
      <4>2. /\ messageBuffers \in Seq(Tokens) /\ inbound[c] \in Seq(Tokens)
            /\ Frame(r) \in Seq(Tokens)
        BY <1>2, FrameTokens
      <4>3. JoinOf(messageBuffers \o (inbound[c] \o Frame(r)),
                   messageBuffers \o inbound[c], Frame(r))
        BY <4>2, JoinGrows
      <4> QED
        BY <4>1, <4>3 DEF Stream
    <3>3. ASSUME NEW i \in 1 .. Len(Stream(c)), Stream(c)[i] \in Requests
          PROVE  Stream(c)[i] < r /\ origin'[Stream(c)[i]] <= c
      <4>1. Stream(c)[i] <= asked /\ Stream(c)[i] \in Nat
        BY <1>2, <1>7, <3>3
      <4>2. \A j \in 1 .. Len(messageBuffers) :
              messageBuffers[j] \in Requests => origin'[messageBuffers[j]] <= c
        BY <1>1, <2>2
      <4>3. \/ \E j \in 1 .. Len(messageBuffers) : Stream(c)[i] = messageBuffers[j]
            \/ origin'[Stream(c)[i]] = c
        BY <1>7, <3>3
      <4>4. c <= c
        BY <1>2
      <4> QED
        BY <1>2, <3>3, <4>1, <4>2, <4>3, <4>4, SMTT(40)
    <3>4. \A e \in 1 .. Len(Delivered) : Delivered[e] < r
      <4>1. ASSUME NEW e \in 1 .. Len(Delivered) PROVE Delivered[e] < r
        <5>1. Delivered[e] <= asked /\ Delivered[e] \in Nat
          BY <1>2, <1>4
        <5> QED
          BY <1>2, <5>1
      <4> QED
        BY <4>1
    <3>5. c \in Nat
      BY <1>2
    <3> QED
      BY <1>2, <1>3, <3>1, <3>2, <3>3, <3>4, <3>5, SendOK
  <2>4. reading \in Conns \ {c} => FramesWhole(inbound'[c])
    <3>1. ASSUME reading \in Conns \ {c} PROVE FramesWhole(inbound'[c])
      <4>1. FramesWhole(inbound[c]) /\ FramesWhole(Frame(r))
        BY <1>1, <1>2, <2>2, <3>1, FrameWhole
      <4>2. JoinOf(inbound'[c], inbound[c], Frame(r))
        BY <1>2, <1>3, FrameTokens, ConcatIsJoin
      <4> QED
        BY <4>1, <4>2, JoinWhole
    <3> QED
      BY <3>1
  <2>5. ASSUME NEW d \in Conns, Referenced(d)
        PROVE  /\ StreamOK(Stream(d)', Delivered, origin')
               /\ reading \in Conns \ {d} => FramesWhole(inbound'[d])
               /\ state[d] = "est" =>
                    BreaksBefore(Len(Stream(d)'), d, Stream(d)', Spoiled(Delivered), origin')
    <3>1. CASE d = c
      BY <2>3, <2>4, <3>1
    <3>2. CASE d # c
      <4>1. Stream(d)' = Stream(d) /\ inbound'[d] = inbound[d]
        BY <1>0, <1>3, <3>2 DEF Stream
      <4> QED
        BY <2>2, <2>5, <4>1
    <3> QED
      BY <3>1, <3>2
  <2> QED
    BY <1>0, <2>1, <2>2, <2>5 DEF StreamInv
<1>10. RequestsInOrder' /\ GarbagePerReconnect'
  <2>1. GarbagePerReconnect'
    BY <1>0 DEF Framed, GarbagePerReconnect
  <2>2. RequestsInOrder'
    <3> SUFFICES ASSUME NEW i \in 1 .. Len(Delivered), NEW j \in 1 .. Len(Delivered),
                        i < j, Delivered[i] # Garbage, Delivered[j] # Garbage
                 PROVE  /\ Delivered[i] # Delivered[j]
                        /\ origin'[Delivered[i]] = origin'[Delivered[j]]
                             => Delivered[i] < Delivered[j]
      BY <1>0 DEF RequestsInOrder
    <3>1. /\ Delivered[i] # Delivered[j]
          /\ origin[Delivered[i]] = origin[Delivered[j]] => Delivered[i] < Delivered[j]
      BY DEF Framed, RequestsInOrder
    <3> QED
      BY <1>6, <3>1
  <2> QED
    BY <2>1, <2>2
<1> QED
  BY <1>8, <1>9, <1>10 DEF Framed

-----------------------------------------------------------------------------
(* At first nothing was read or sent.                                      *)
LEMMA FramedInit == Init => BeforeFirst /\ Framed
<1> SUFFICES ASSUME Init PROVE BeforeFirst /\ Framed
  OBVIOUS
<1>0. /\ messageBuffers = <<>> /\ dispatched = <<>> /\ receiveMessage = <<>>
      /\ reading = Free /\ conns = 0 /\ asked = 0 /\ connected = -1
      /\ pc["recv"] = "off"
      /\ \A fd \in Fds : fdTable[fd] = Free
      /\ \A c \in Conns : inbound[c] = <<>>
  BY DEF Init, InitQueues, Threads
<1>1. Delivered = <<>> /\ Len(Delivered) = 0
  BY <1>0 DEF Delivered
<1>2. Free = 0 /\ Free \notin Conns
  BY DEF Free, Conns
<1>3. \A c \in Conns : ~Referenced(c)
  BY <1>0, <1>2 DEF Referenced
<1>4. BeforeFirst
  BY <1>0, <1>1 DEF BeforeFirst
<1>5. OriginInv
  BY <1>0, <1>1, <1>2 DEF OriginInv
<1>6. StreamOK(messageBuffers, Delivered, origin)
  BY <1>0 DEF StreamOK, FramesWhole, StreamInOrder, StreamFollows, BreaksBetween
<1>7. StreamInv
  BY <1>3, <1>6 DEF StreamInv
<1>8. RequestsInOrder
  BY <1>1 DEF RequestsInOrder
<1>9. GarbagePerReconnect
  BY <1>1 DEF GarbagePerReconnect
<1> QED
  BY <1>4, <1>5, <1>7, <1>8, <1>9 DEF Framed

(* Until a connection was made nothing can be read.                        *)
LEMMA BeforeFirstNext ==
  TypeOK /\ OriginInv /\ BeforeFirst /\ [Next]_vars => BeforeFirst'
<1> SUFFICES ASSUME TypeOK, OriginInv, BeforeFirst, [Next]_vars, conns' = 0
             PROVE  /\ connected' = -1 /\ asked' = 0
                    /\ pc'["recv"] \in InConnect \cup {"off", "live", "lock"}
                    /\ messageBuffers' = <<>> /\ Delivered' = <<>>
  BY DEF BeforeFirst
<1> DEFINE Quiet == UNCHANGED <<connected, asked, messageBuffers, Delivered>>
           Idle(label) == label \in InConnect \cup {"off", "live", "lock"}
<1>t. /\ pc \in [Threads -> MainLabels \cup SendLabels \cup RecvLabels]
      /\ conns \in Nat
  BY FramingTypes DEF TypeOK
<1>0. ASSUME conns = 0
      PROVE  /\ connected = -1 /\ asked = 0 /\ Idle(pc["recv"])
             /\ messageBuffers = <<>> /\ Delivered = <<>>
  BY <1>0 DEF BeforeFirst
<1>1. ASSUME conns = 0, Quiet, Idle(pc["recv"]) => Idle(pc'["recv"])
      PROVE  /\ connected' = -1 /\ asked' = 0 /\ Idle(pc'["recv"])
             /\ messageBuffers' = <<>> /\ Delivered' = <<>>
  BY <1>0, <1>1
<1> USE <1>t DEF Threads, InConnect
<1>2. ASSUME NEW t \in Threads, Lock(t) \/ CloseOld(t) \/ Socket(t)
      PROVE  conns = 0 /\ Quiet /\ (Idle(pc["recv"]) => Idle(pc'["recv"]))
  BY <1>2 DEF Lock, CloseOld, Socket, Goto, queues, members, network, history, Delivered
<1>3. ASSUME NEW t \in Threads, ConnectSocket(t)
      PROVE  conns = 0 /\ connected' = -1 /\ UNCHANGED <<asked, messageBuffers, Delivered>>
             /\ (Idle(pc["recv"]) => Idle(pc'["recv"]))
  BY <1>3 DEF ConnectSocket, Goto, queues, network, history, Delivered
<1>4. ASSUME NEW t \in Threads, CheckConnected(t)
      PROVE  conns = 0 /\ (connected' = connected \/ connected' = -1)
             /\ UNCHANGED <<asked, messageBuffers, Delivered>>
             /\ (Idle(pc["recv"]) => Idle(pc'["recv"]))
  BY <1>4 DEF CheckConnected, AfterConnect, queues, network, history, Delivered
<1>5. ASSUME Send
      PROVE  conns = 0 /\ Quiet /\ (Idle(pc["recv"]) => Idle(pc'["recv"]))
  BY <1>5 DEF Send, CheckLive, SendPop, SendPopNothing, SendWrite, Goto, queues,
     members, network, history, Delivered
<1>6. ASSUME CheckLive("recv", "read"), connected = -1
      PROVE  conns = 0 /\ Quiet /\ (Idle(pc["recv"]) => Idle(pc'["recv"]))
  BY <1>6 DEF CheckLive, Live, Goto, queues, members, network, history, Delivered
<1>7. ASSUME \/ RecvRead \/ RecvData \/ RecvEnd \/ RecvError \/ RecvFrame
             \/ RecvNoFrame \/ Disconnect \/ DisconnectClose
      PROVE  ~Idle(pc["recv"]) /\ conns = 0
  BY <1>7 DEF RecvRead, RecvData, RecvEnd, RecvError, RecvFrame, RecvNoFrame,
     Disconnect, DisconnectClose, At, network
<1>8. ASSUME MatchPop
      PROVE  conns = 0 /\ Quiet /\ (Idle(pc["recv"]) => Idle(pc'["recv"]))
  BY <1>8, PopKeeps DEF MatchPop, members, network
<1>9. ASSUME ComponentPush \/ OtherOpen \/ OtherClose
      PROVE  conns = 0 /\ Quiet /\ (Idle(pc["recv"]) => Idle(pc'["recv"]))
  BY <1>9 DEF ComponentPush, OtherOpen, OtherClose, queues, members, network,
     history, Delivered
<1>10. ASSUME ServerClose \/ NetworkReset \/ ServerStop \/ ServerStart
       PROVE  conns = 0 /\ Quiet /\ (Idle(pc["recv"]) => Idle(pc'["recv"]))
  BY <1>10 DEF ServerClose, NetworkReset, ServerStop, ServerStart, queues, members,
     history, Delivered
<1>11. ~ServerSend
  <2>1. ASSUME ServerSend PROVE FALSE
    <3>1. conns = 0 /\ \E c \in Conns : Referenced(c)
      BY <2>1 DEF ServerSend
    <3>2. PICK c \in Conns : Referenced(c)
      BY <3>1
    <3>3. c <= conns /\ c \in Nat \ {0}
      BY <3>2, ReferencedBound, FramingTypes
    <3> QED
      BY <3>1, <3>3
  <2> QED
    BY <2>1
<1>12. ASSUME UNCHANGED vars
       PROVE  conns = 0 /\ Quiet /\ (Idle(pc["recv"]) => Idle(pc'["recv"]))
  BY <1>12 DEF vars, queues, members, network, history, Delivered
<1> HIDE DEF Quiet, Idle
<1>13. CASE \E t \in Threads : Connect(t)
  <2>1. PICK t \in Threads : Connect(t)
    BY <1>13
  <2>2. CASE Lock(t) \/ CloseOld(t) \/ Socket(t)
    BY <1>1, <1>2, <2>2 DEF Idle
  <2>3. CASE ConnectSocket(t)
    BY <1>0, <1>3, <2>3 DEF Idle
  <2>4. CASE CheckConnected(t)
    BY <1>0, <1>4, <2>4 DEF Idle
  <2> QED
    BY <2>1, <2>2, <2>3, <2>4 DEF Connect
<1>14. CASE Recv
  <2>1. CASE CheckLive("recv", "read")
    <3>1. conns = 0
      BY <2>1 DEF CheckLive, network
    <3> QED
      BY <1>0, <1>1, <1>6, <2>1, <3>1 DEF Idle
  <2> QED
    BY <1>0, <1>7, <1>14, <2>1 DEF Recv
<1>15. CASE Send \/ UNCHANGED vars
  BY <1>1, <1>5, <1>12, <1>15 DEF Idle
<1>16. CASE Environment
  BY <1>1, <1>8, <1>9, <1>10, <1>11, <1>16 DEF Environment, Idle
<1> QED
  BY <1>13, <1>14, <1>15, <1>16 DEF Next

(* Send and Recv are off until main has returned from Connect.             *)
LEMMA MainFirstNext == TypeOK /\ MainFirst /\ [Next]_vars => MainFirst'
<1> SUFFICES ASSUME TypeOK, MainFirst, [Next]_vars PROVE MainFirst'
  OBVIOUS
<1> USE DEF MainFirst, At, Goto, Threads
<1>t. pc \in [Threads -> MainLabels \cup SendLabels \cup RecvLabels]
  BY DEF TypeOK
<1>1. CASE pc["main"] # "done"
  <2>1. pc["send"] = "off" /\ pc["recv"] = "off"
    BY <1>1
  <2>2. CASE \E t \in Threads : Connect(t)
    BY <1>1, <1>t, <2>1, <2>2 DEF Connect, Lock, CloseOld, Socket, ConnectSocket,
       CheckConnected, AfterConnect
  <2>3. CASE Environment
    BY <2>1, <2>3 DEF Environment, ComponentPush, MatchPop, OtherOpen, OtherClose,
       ServerSend, ServerClose, NetworkReset, ServerStop, ServerStart
  <2>4. ~Send /\ ~Recv
    BY <2>1 DEF Send, Recv, CheckLive, SendPop, SendPopNothing, SendWrite, RecvRead,
       RecvData, RecvEnd, RecvError, RecvFrame, RecvNoFrame, Disconnect, DisconnectClose
  <2> QED
    BY <2>1, <2>2, <2>3, <2>4 DEF Next, vars
<1>2. CASE pc["main"] = "done"
  <2>1. CASE \E t \in Threads : Connect(t)
    BY <1>2, <1>t, <2>1 DEF Connect, Lock, CloseOld, Socket, ConnectSocket,
       CheckConnected, AfterConnect
  <2>2. CASE Environment
    BY <1>2, <2>2 DEF Environment, ComponentPush, MatchPop, OtherOpen, OtherClose,
       ServerSend, ServerClose, NetworkReset, ServerStop, ServerStart
  <2>3. CASE Send
    BY <1>2, <1>t, <2>3 DEF Send, CheckLive, SendPop, SendPopNothing, SendWrite
  <2>4. CASE Recv
    BY <1>2, <1>t, <2>4 DEF Recv, CheckLive, RecvRead,
       RecvData, RecvEnd, RecvError, RecvFrame, RecvNoFrame, Disconnect, DisconnectClose
  <2> QED
    BY <1>2, <2>1, <2>2, <2>3, <2>4 DEF Next, vars
<1> QED
  BY <1>1, <1>2

(* Every step keeps what the delivered requests and the streams have in    *)
(* common (:93-150).                                                       *)
LEMMA FramedNext ==
  TypeOK /\ SocketInv /\ MainFirst /\ BeforeFirst /\ Framed /\ [Next]_vars => Framed'
<1> SUFFICES ASSUME TypeOK, SocketInv, MainFirst, BeforeFirst, Framed, [Next]_vars
             PROVE  Framed'
  OBVIOUS
<1>t. /\ pc \in [Threads -> MainLabels \cup SendLabels \cup RecvLabels]
      /\ pc["recv"] # "reading" => reading = Free
      /\ fdTable \in [Fds -> Files] /\ Free \notin Conns /\ Fresh \notin Conns
      /\ Other \notin Conns
      /\ state \in [Conns -> {"none", "est", "fin", "reset", "dead"}]
  BY BoundsAssumption DEF TypeOK, Framed, OriginInv, Free, Fresh, Other, Conns
<1> USE <1>t DEF At, Goto
<1>0. ASSUME UNCHANGED <<messageBuffers, inbound, asked, origin, conns,
                         dispatched, receiveMessage>>,
             reading' = reading \/ reading' = Free,
             pc'["recv"] # "reading" => reading' = Free,
             \A fd \in Fds : fdTable'[fd] \in Conns => fdTable'[fd] = fdTable[fd],
             \A c \in Conns : state'[c] = "est" => state[c] = "est"
      PROVE  Framed'
  <2>1. Delivered' = Delivered
    BY <1>0 DEF Delivered
  <2> QED
    BY <1>0, <2>1, FramedQuiet
<1>1. ASSUME NEW t \in Threads, Connect(t) PROVE Framed'
  <2>1. CASE Lock(t)
    BY <1>0, <2>1 DEF Lock, queues, locals, kernel, network, history, Threads
  <2>2. CASE CloseOld(t)
    BY <1>0, <2>2 DEF CloseOld, Close, queues, members, locals, network, history, Threads
  <2>3. CASE Socket(t)
    BY <1>0, <2>3 DEF Socket, queues, locals, network, history, Threads
  <2>4. CASE ConnectSocket(t)
    BY <2>4, FramedConnectSocket
  <2>5. CASE CheckConnected(t)
    <3>1. /\ UNCHANGED <<messageBuffers, inbound, asked, origin, conns, dispatched,
                         receiveMessage, reading, state>>
          /\ \A fd \in Fds : fdTable'[fd] \in Conns => fdTable'[fd] = fdTable[fd]
      BY <2>5 DEF CheckConnected, Close, queues, locals, network, history
    <3>2. pc'["recv"] # "reading" => reading' = Free
      <4>1. CASE t = "main"
        <5>1. pc["main"] = "check"
          BY <2>5, <4>1 DEF CheckConnected
        <5>2. reading = Free
          BY <5>1 DEF MainFirst
        <5> QED
          BY <3>1, <5>2
      <4>2. CASE t # "main"
        BY <2>5, <3>1, <4>2 DEF CheckConnected, AfterConnect, Threads
      <4> QED
        BY <4>1, <4>2
    <3> QED
      BY <1>0, <3>1, <3>2
  <2> QED
    BY <1>1, <2>1, <2>2, <2>3, <2>4, <2>5 DEF Connect
<1>2. CASE Send
  <2>1. CASE CheckLive("send", "pop") \/ SendPop \/ SendPopNothing
    BY <1>0, <2>1 DEF CheckLive, SendPop, SendPopNothing, PopSendMessage, queues,
       members, locals, kernel, network, history, Threads
  <2>2. CASE SendWrite
    <3>1. /\ UNCHANGED <<messageBuffers, inbound, asked, origin, conns, dispatched,
                         receiveMessage, reading, fdTable>>
          /\ pc' = [pc EXCEPT !["send"] = "live"]
      BY <2>2 DEF SendWrite, queues, members
    <3>2. \A c \in Conns : state'[c] = "est" => state[c] = "est"
      BY <2>2 DEF SendWrite
    <3> QED
      BY <1>0, <3>1, <3>2 DEF Threads
  <2> QED
    BY <1>2, <2>1, <2>2 DEF Send
<1>3. CASE Recv
  <2>1. CASE CheckLive("recv", "read")
    BY <1>0, <2>1 DEF CheckLive, queues, members, locals, kernel, network, history,
       Threads
  <2>2. CASE RecvEnd
    BY <1>0, <2>2 DEF RecvEnd, queues, members, kernel, network, history, Threads
  <2>3. CASE RecvError
    <3>1. /\ UNCHANGED <<messageBuffers, inbound, asked, origin, conns, dispatched,
                         receiveMessage, fdTable>>
          /\ reading' = Free
      BY <2>3 DEF RecvError, queues, members, kernel, history
    <3>2. \A c \in Conns : state'[c] = "est" => state[c] = "est"
      BY <2>3 DEF RecvError
    <3> QED
      BY <1>0, <3>1, <3>2
  <2>4. CASE RecvNoFrame
    BY <1>0, <2>4 DEF RecvNoFrame, queues, members, locals, kernel, network, history,
       Threads
  <2>5. CASE Disconnect
    BY <1>0, <2>5 DEF Disconnect, queues, locals, kernel, network, history, Threads
  <2>6. CASE DisconnectClose
    BY <1>0, <2>6 DEF DisconnectClose, Close, queues, members, locals, network,
       history, Threads
  <2> QED
    BY <1>3, <2>1, <2>2, <2>3, <2>4, <2>5, <2>6, FramedRead, FramedData, FramedFrame
    DEF Recv
<1>4. CASE Environment
  <2>1. CASE ComponentPush
    BY <1>0, <2>1 DEF ComponentPush, queues, members, locals, kernel, network
  <2>2. CASE MatchPop
    <3>1. /\ UNCHANGED <<messageBuffers, inbound, asked, origin, conns, reading,
                         fdTable, state, pc>>
      BY <2>2 DEF MatchPop, members, locals, kernel, network
    <3>2. Delivered' = Delivered
      BY <2>2, PopKeeps
    <3> QED
      BY <3>1, <3>2, FramedQuiet
  <2>3. CASE OtherOpen \/ OtherClose
    BY <1>0, <2>3 DEF OtherOpen, OtherClose, queues, members, locals, network, history
  <2>4. CASE ServerClose
    BY <1>0, <2>4 DEF ServerClose, queues, members, locals, kernel, history
  <2>5. CASE ServerStop
    <3>1. /\ UNCHANGED <<messageBuffers, inbound, asked, origin, conns, dispatched,
                         receiveMessage, fdTable, reading, pc>>
          /\ state' = [c \in Conns |-> IF state[c] = "est" THEN "fin" ELSE state[c]]
      BY <2>5 DEF ServerStop, queues, members, locals, kernel, history
    <3>2. \A c \in Conns : state'[c] = "est" => state[c] = "est"
      BY <3>1
    <3> QED
      BY <1>0, <3>1, <3>2
  <2>6. CASE ServerStart
    BY <1>0, <2>6 DEF ServerStart, queues, members, locals, kernel, history
  <2> QED
    BY <1>4, <2>1, <2>2, <2>3, <2>4, <2>5, <2>6, FramedSend, FramedReset
    DEF Environment
<1>5. CASE UNCHANGED vars
  BY <1>0, <1>5 DEF vars, queues, members, locals, kernel, network, history
<1> QED
  BY <1>1, <1>2, <1>3, <1>4, <1>5 DEF Next

-----------------------------------------------------------------------------
(* The tokens that the server sends are its frames, one after the other.   *)
LEMMA TokenAt ==
  ASSUME NEW a \in Nat, NEW i \in 1 .. 6
  PROVE  /\ FrameToken(6 * a + i) = Frame(a + 1)[i]
         /\ FrameToken(6 * a + i) =
              IF i \in {1, 5} THEN Bob ELSE IF i = 2 THEN Start
                ELSE IF i = 6 THEN End ELSE a + 1
<1>1. ((6 * a + i) - 1) \div 6 = a /\ ((6 * a + i) - 1) % 6 = i - 1
  OBVIOUS
<1>2. (i - 1) + 1 = i
  OBVIOUS
<1>3. FrameToken(6 * a + i) = Frame(a + 1)[i]
  BY <1>1, <1>2 DEF FrameToken
<1>4. a + 1 \in Int /\ {Bob, Start, End} \subseteq Int
  BY DEF Bob, Start, End
<1>5. /\ Frame(a + 1)[1] = Bob /\ Frame(a + 1)[2] = Start /\ Frame(a + 1)[3] = a + 1
      /\ Frame(a + 1)[4] = a + 1 /\ Frame(a + 1)[5] = Bob /\ Frame(a + 1)[6] = End
  BY <1>4, FrameValues
<1>6. i = 1 \/ i = 2 \/ i = 3 \/ i = 4 \/ i = 5 \/ i = 6
  OBVIOUS
<1> QED
  BY <1>3, <1>5, <1>6

LEMMA TokenSplit ==
  ASSUME NEW a \in Nat, NEW k \in Nat \ {0}
  PROVE  \E q \in Nat, i \in 1 .. 6 : k = 6 * q + i /\ 6 * a + k = 6 * (a + q) + i
<1> DEFINE q == (k - 1) \div 6
           i == ((k - 1) % 6) + 1
<1>1. q \in Nat /\ i \in 1 .. 6 /\ k = 6 * q + i
  OBVIOUS
<1> HIDE DEF q, i
<1>2. 6 * a + k = 6 * (a + q) + i
  BY <1>1
<1> QED
  BY <1>1, <1>2

(* No token of the server is the noise of another file, and the first End  *)
(* is the sixth of what follows whole frames.                              *)
LEMMA TokenEnds ==
  ASSUME NEW a \in Nat, NEW k \in Nat \ {0}
  PROVE  /\ FrameToken(6 * a + k) # Noise
         /\ FrameToken(6 * a + k) = End => k >= 6
<1>1. PICK q \in Nat, i \in 1 .. 6 : k = 6 * q + i /\ 6 * a + k = 6 * (a + q) + i
  BY TokenSplit
<1>2. a + q \in Nat /\ (a + q) + 1 \in Nat
  OBVIOUS
<1>3. FrameToken(6 * (a + q) + i) =
        IF i \in {1, 5} THEN Bob ELSE IF i = 2 THEN Start
          ELSE IF i = 6 THEN End ELSE (a + q) + 1
  BY <1>2, TokenAt
<1>4. /\ FrameToken(6 * a + k) # Noise
      /\ FrameToken(6 * a + k) = End => i = 6
  BY <1>1, <1>2, <1>3 DEF Bob, Start, End, Noise
<1> QED
  BY <1>1, <1>4

(* The first packet of the server's tokens is the next request.            *)
LEMMA NextRequest ==
  ASSUME NEW b, Len(b) \in Nat, NEW a \in Nat, NEW k \in 1 .. Len(b), EndsAt(k, b),
         \A i \in 1 .. Len(b) :
           b[i] = FrameToken(6 * a + i) \/ (i = Len(b) /\ b[i] = Noise),
         \A p \in 1 .. k - 1 : ~EndsAt(p, b),
         NEW packet, Taken(packet, k, b)
  PROVE  k = 6 /\ packet = a + 1
<1>1. b[k] = End
  BY DEF EndsAt
<1>2. k \in Nat \ {0} /\ k <= Len(b)
  OBVIOUS
<1>3. b[k] = FrameToken(6 * a + k)
  BY <1>1, <1>2 DEF End, Noise
<1>4. k >= 6
  BY <1>1, <1>2, <1>3, TokenEnds
<1>5. \A i \in 1 .. 5 : b[i] = FrameToken(6 * a + i)
  BY <1>4
<1>6. /\ b[1] = Bob /\ b[2] = Start /\ b[3] = a + 1 /\ b[4] = a + 1 /\ b[5] = Bob
  <2>1. /\ FrameToken(6 * a + 1) = Bob /\ FrameToken(6 * a + 2) = Start
        /\ FrameToken(6 * a + 3) = a + 1 /\ FrameToken(6 * a + 4) = a + 1
        /\ FrameToken(6 * a + 5) = Bob
    BY TokenAt
  <2> QED
    BY <1>5, <2>1, SMTT(40)
<1>7. k = 6
  <2>1. ASSUME k > 6 PROVE FALSE
    <3>1. 6 \in 1 .. Len(b) /\ 6 # Len(b) /\ 6 \in 1 .. k - 1
      <4>1. \A m, x \in Nat : x > 6 /\ x <= m =>
              6 \in 1 .. m /\ 6 # m /\ 6 \in 1 .. x - 1
        OBVIOUS
      <4> QED
        BY <1>2, <2>1, <4>1
    <3>2. b[6] = FrameToken(6 * a + 6)
      BY <3>1
    <3>3. FrameToken(6 * a + 6) = End
      BY TokenAt
    <3>4. EndsAt(6, b)
      BY <3>1, <3>2, <3>3 DEF EndsAt
    <3> QED
      BY <3>1, <3>4
  <2> QED
    BY <1>2, <1>4, <2>1
<1>8. CASE packet \in Requests /\ \E i \in 1 .. k - 2 : b[i] = packet /\ b[i + 1] = packet
  <2>1. PICK i \in 1 .. 4 : b[i] = packet /\ b[i + 1] = packet
    BY <1>7, <1>8
  <2>2. i = 1 \/ i = 2 \/ i = 3 \/ i = 4
    OBVIOUS
  <2>3. packet # Bob /\ packet # Start
    BY <1>8, Markers
  <2> QED
    BY <1>6, <1>7, <2>1, <2>2, <2>3
<1>9. CASE packet = Garbage /\ \E j \in 1 .. k : BrokenAt(j, b)
  <2>1. PICK j \in 1 .. 6 : BrokenAt(j, b)
    BY <1>7, <1>9
  <2>2. j \in 1 .. Len(b) - 1 /\ b[j] = Bob /\ b[j + 1] = Start /\ ~EndsAt(j + 5, b)
    BY <2>1, OccursAt DEF BrokenAt
  <2>3. j = 1 \/ j = 2 \/ j = 3 \/ j = 4 \/ j = 5 \/ j = 6
    OBVIOUS
  <2>4. j # 1
    BY <1>7, <2>2
  <2>5. /\ End # Bob /\ Start # Bob /\ End # Start /\ a + 1 # Bob
    BY DEF Bob, Start, End
  <2>6. b[6] = End
    BY <1>1, <1>7
  <2> QED
    <3>1. j # 2 /\ j # 3 /\ j # 4
      BY <1>6, <2>2, <2>5
    <3>2. j # 5 /\ j # 6
      BY <1>6, <2>2, <2>5, <2>6, SMTT(40)
    <3> QED
      BY <2>3, <2>4, <3>1, <3>2
<1> QED
  BY <1>8, <1>9 DEF Taken

(* Steps that neither deliver nor move bytes keep the one stream.          *)
LEMMA OneQuiet ==
  ASSUME OneConnection, FramesIntact,
         UNCHANGED <<messageBuffers, inbound, asked, conns>>, Delivered' = Delivered,
         conns = 1 => /\ Referenced(1)' => Referenced(1)
                      /\ state'[1] = "est" => state[1] = "est"
  PROVE  OneConnection' /\ FramesIntact'
<1>1. FramesIntact'
  BY DEF FramesIntact
<1>2. ASSUME conns = 1 PROVE Stream(1)' = Stream(1)
  BY DEF Stream
<1>3. OneConnection'
  BY <1>2 DEF OneConnection
<1> QED
  BY <1>1, <1>3

(* The first connection starts with an empty stream.                       *)
LEMMA OneConnectSocket ==
  ASSUME TypeOK, SocketInv, BeforeFirst, OriginInv, OneConnection, FramesIntact,
         NEW t \in Threads, ConnectSocket(t)
  PROVE  OneConnection' /\ FramesIntact'
<1>0. /\ UNCHANGED <<messageBuffers, inbound, asked, receiveMessage, dispatched, reading>>
      /\ Delivered' = Delivered
  BY DEF ConnectSocket, queues, history, locals, Delivered
<1>1. CASE UNCHANGED <<conns, fdTable, state>>
  BY <1>0, <1>1, OneQuiet DEF Referenced
<1>2. CASE CanConnect /\ conns' = conns + 1
  <2>1. conns \in Nat /\ 0 < MaxConns => 1 \in Conns
    BY FramingTypes, BoundsAssumption DEF Conns
  <2>2. CASE conns = 0
    <3>1. /\ messageBuffers = <<>> /\ Delivered = <<>> /\ asked = 0
      BY <2>2 DEF BeforeFirst
    <3>2. 1 \in Conns
      BY <1>2, <2>2, BoundsAssumption DEF CanConnect, Conns
    <3>3. inbound[1] = <<>>
      BY <2>2, <3>2 DEF OriginInv
    <3>4. Stream(1)' = <<>>
      BY <1>0, <3>1, <3>3 DEF Stream
    <3>5. FramesIntact'
      BY <1>0, <3>1 DEF FramesIntact
    <3>6. OneConnection'
      BY <1>0, <3>1, <3>4 DEF OneConnection, Continues
    <3> QED
      BY <3>5, <3>6
  <2>3. CASE conns # 0
    <3>1. ~(conns' <= 1) /\ conns' # 1
      BY <1>2, <2>3, FramingTypes
    <3> QED
      BY <3>1 DEF OneConnection, FramesIntact
  <2> QED
    BY <2>2, <2>3
<1> QED
  BY <1>1, <1>2 DEF ConnectSocket

(* Read finds the connection, or another file in its place.                *)
LEMMA OneRead ==
  ASSUME TypeOK, SocketInv, OriginInv, OneConnection, FramesIntact, RecvRead
  PROVE  OneConnection' /\ FramesIntact'
<1> DEFINE file == File(clientSocket)
<1>0. /\ UNCHANGED <<inbound, asked, conns, receiveMessage, dispatched, fdTable, state>>
      /\ Delivered' = Delivered /\ pc["recv"] = "read"
  BY DEF RecvRead, queues, kernel, network, history, Delivered, At
<1>1. reading = Free
  BY <1>0 DEF OriginInv
<1>2. CASE UNCHANGED <<messageBuffers, reading>>
  BY <1>0, <1>2, OneQuiet DEF Referenced
<1>3. CASE file \in Conns /\ reading' = file /\ UNCHANGED messageBuffers
  <2>1. clientSocket \in Fds /\ fdTable[clientSocket] = file
    BY <1>3, FramingTypes DEF File, Free
  <2>2. Referenced(1)' => Referenced(1)
    BY <1>0, <1>3, <2>1 DEF Referenced
  <2> QED
    BY <1>0, <1>3, <2>2, OneQuiet
<1>4. CASE /\ file = Other /\ UNCHANGED reading
           /\ messageBuffers' = Append(messageBuffers, Noise)
           /\ messageBuffers = <<>> \/ messageBuffers[Len(messageBuffers)] # Noise
  <2>1. clientSocket \in Fds /\ fdTable[clientSocket] = Other
    BY <1>4 DEF File, Free, Other
  <2>2. conns = 1 => 1 \in Conns
    BY BoundsAssumption DEF TypeOK, Conns
  <2>3. conns = 1 => ~Referenced(1)'
    <3>1. Free \notin Conns /\ Other \notin Conns
      BY BoundsAssumption DEF Conns, Free, Other
    <3>2. \A fd \in Fds : fdTable[fd] \notin Conns
      BY <2>1, <3>1, OneSocket
    <3> QED
      BY <1>0, <1>1, <1>4, <2>2, <3>1, <3>2 DEF Referenced
  <2>4. messageBuffers \in Seq(Tokens) /\ Noise \in Tokens /\ Len(messageBuffers) \in Nat
    BY FramingTypes DEF Tokens
  <2>5. /\ Len(messageBuffers') = Len(messageBuffers) + 1
        /\ \A i \in 1 .. Len(messageBuffers) : messageBuffers'[i] = messageBuffers[i]
        /\ messageBuffers'[Len(messageBuffers) + 1] = Noise
    BY <1>4, <2>4
  <2>6. ASSUME conns = 1, NEW i \in 1 .. Len(messageBuffers')
        PROVE  \/ messageBuffers'[i] = FrameToken(6 * Len(Delivered) + i)
               \/ i = Len(messageBuffers') /\ messageBuffers'[i] = Noise
    <3>1. CASE i \in 1 .. Len(messageBuffers)
      <4>1. \/ messageBuffers[i] = FrameToken(6 * Len(Delivered) + i)
            \/ i = Len(messageBuffers) /\ messageBuffers[i] = Noise
        BY <2>6, <3>1 DEF OneConnection
      <4>2. messageBuffers # <<>>
        BY <3>1
      <4> QED
        BY <1>4, <2>5, <3>1, <4>1, <4>2
    <3>2. CASE i = Len(messageBuffers) + 1
      BY <2>5, <3>2
    <3> QED
      BY <2>4, <2>5, <3>1, <3>2
  <2>7. OneConnection'
    BY <1>0, <2>3, <2>6 DEF OneConnection
  <2> QED
    BY <1>0, <2>7 DEF FramesIntact
<1> QED
  BY <1>2, <1>3, <1>4 DEF RecvRead

(* What arrives moves from the connection to messageBuffers.               *)
LEMMA OneData ==
  ASSUME TypeOK, OriginInv, OneConnection, FramesIntact, RecvData
  PROVE  OneConnection' /\ FramesIntact'
<1>c. PICK c \in Conns : c = reading
  BY DEF RecvData, At, TypeOK
<1>0. /\ UNCHANGED <<asked, origin, conns, receiveMessage, dispatched, fdTable, state>>
      /\ Delivered' = Delivered /\ reading' = Free
  BY DEF RecvData, queues, kernel, history, Delivered
<1>1. PICK k \in 1 .. Len(inbound[c]) :
        /\ messageBuffers' = messageBuffers \o SubSeq(inbound[c], 1, k)
        /\ inbound' = [inbound EXCEPT ![c] = SubSeq(@, k + 1, Len(@))]
  BY <1>c DEF RecvData
<1>2. /\ Stream(c)' = Stream(c) /\ PartOf(messageBuffers', Stream(c), 0)
  BY <1>0, <1>1, DataStreams
<1>3. FramesIntact'
  BY <1>0 DEF FramesIntact
<1>4. ASSUME conns = 1 PROVE c = 1
  BY <1>c, <1>4, BoundsAssumption DEF OriginInv, Conns
<1>5. ASSUME conns = 1
      PROVE  /\ Continues(Stream(1), Len(Delivered))
             /\ 6 * Len(Delivered) + Len(Stream(1)) <= 6 * asked
             /\ state[1] = "est" => 6 * Len(Delivered) + Len(Stream(1)) = 6 * asked
  <2>1. Referenced(1)
    BY <1>c, <1>4, <1>5 DEF Referenced
  <2> QED
    BY <1>5, <2>1 DEF OneConnection
<1>6. ASSUME conns = 1, NEW i \in 1 .. Len(messageBuffers')
      PROVE  messageBuffers'[i] = FrameToken(6 * Len(Delivered) + i)
  <2>1. i + 0 = i /\ i + 0 \in 1 .. Len(Stream(1)) /\ messageBuffers'[i] = Stream(1)[i]
    BY <1>2, <1>4, <1>6 DEF PartOf
  <2> QED
    BY <1>5, <1>6, <2>1 DEF Continues
<1>7. ASSUME conns = 1 PROVE Stream(1)' = Stream(1)
  BY <1>2, <1>4, <1>7
<1>8. OneConnection'
  BY <1>0, <1>5, <1>6, <1>7 DEF OneConnection
<1> QED
  BY <1>3, <1>8

(* The frame that is taken is the server's next request.                   *)
LEMMA OneFrame ==
  ASSUME TypeOK, Framed, BeforeFirst, OneConnection, FramesIntact, RecvFrame
  PROVE  OneConnection' /\ FramesIntact'
<1> DEFINE b == messageBuffers
           n == Len(Delivered)
<1>0. /\ UNCHANGED <<inbound, asked, conns, fdTable, reading, state, pc>>
      /\ Referenced(1)' = Referenced(1)
  BY DEF RecvFrame, kernel, network, locals, Referenced
<1>1. /\ b \in Seq(Tokens) /\ Len(b) \in Nat
      /\ inbound \in [Conns -> Seq(Tokens)]
      /\ n \in Nat /\ Delivered \in Seq(Requests \cup {Garbage})
      /\ asked \in Nat /\ conns \in Nat
  BY FramingTypes
<1>2. FramesWhole(b)
  BY DEF Framed, StreamInv, StreamOK
<1>3. PICK k \in 1 .. Len(b), packet \in Requests \cup {Garbage} :
        /\ EndsAt(k, b) /\ Taken(packet, k, b)
        /\ \A p \in 1 .. k - 1 : ~EndsAt(p, b)
        /\ b' = SubSeq(b, k + 1, Len(b))
        /\ Delivered' = Append(Delivered, packet)
  BY <1>2, FramePicked
<1>4. /\ Len(Delivered') = n + 1 /\ Delivered'[n + 1] = packet
      /\ \A i \in 1 .. n : Delivered'[i] = Delivered[i]
  BY <1>1, <1>3
<1>5. b' \in Seq(Tokens) /\ PartOf(b', b, k) /\ Len(b') = Len(b) - k
  BY <1>1, <1>3, SuffixIsPart
<1> HIDE DEF b, n
<1>6. conns # 0
  <2>1. ASSUME conns = 0 PROVE FALSE
    <3>1. b = <<>>
      BY <2>1 DEF BeforeFirst, b
    <3> QED
      BY <1>3, <3>1
  <2> QED
    BY <2>1
<1>7. CASE conns # 1
  <2>1. ~(conns <= 1)
    BY <1>1, <1>6, <1>7
  <2> QED
    BY <1>0, <1>7, <2>1 DEF OneConnection, FramesIntact
<1>8. CASE conns = 1
  <2>1. \A i \in 1 .. Len(b) :
          b[i] = FrameToken(6 * n + i) \/ (i = Len(b) /\ b[i] = Noise)
    <3> SUFFICES ASSUME NEW i \in 1 .. Len(messageBuffers)
                 PROVE  \/ messageBuffers[i] = FrameToken(6 * Len(Delivered) + i)
                        \/ i = Len(messageBuffers) /\ messageBuffers[i] = Noise
      BY DEF b, n
    <3> QED
      BY <1>8 DEF OneConnection
  <2>2. k = 6 /\ packet = n + 1
    BY <1>1, <1>3, <2>1, NextRequest
  <2>3. FramesIntact'
    <3>1. \A i \in 1 .. n : Delivered[i] = i
      BY <1>8 DEF FramesIntact, n
    <3>2. \A i \in 1 .. n + 1 : Delivered'[i] = i
      BY <1>1, <1>4, <2>2, <3>1
    <3> QED
      BY <1>4, <3>2 DEF FramesIntact
  <2>4. \A i \in Nat : 6 * n + (i + 6) = 6 * (n + 1) + i
    BY <1>1
  <2>5. ASSUME NEW i \in 1 .. Len(b')
        PROVE  \/ b'[i] = FrameToken(6 * (n + 1) + i)
               \/ i = Len(b') /\ b'[i] = Noise
    <3>1. i + 6 \in 1 .. Len(b) /\ b'[i] = b[i + 6] /\ i \in Nat
      BY <1>5, <2>2, SMTT(40) DEF PartOf
    <3>2. i + 6 = Len(b) => i = Len(b')
      BY <1>1, <1>5, <2>2, <3>1
    <3> QED
      BY <2>1, <2>4, <3>1, <3>2
  <2>6. ASSUME Referenced(1)
        PROVE  /\ Continues(Stream(1)', n + 1)
               /\ 6 * (n + 1) + Len(Stream(1)') <= 6 * asked
               /\ state[1] = "est" => 6 * (n + 1) + Len(Stream(1)') = 6 * asked
    <3>1. 1 \in Conns
      BY <1>8, BoundsAssumption DEF TypeOK, Conns
    <3>2. JoinOf(Stream(1)', b', inbound[1])
      BY <1>0, <1>1, <1>5, <3>1, ConcatIsJoin DEF Stream, b
    <3>3. JoinOf(Stream(1), b, inbound[1]) /\ Len(Stream(1)) \in Nat
      BY <3>1, StreamJoins DEF b
    <3>4. /\ PartOf(Stream(1)', Stream(1), 6) /\ Len(Stream(1)') + 6 = Len(Stream(1))
          /\ Len(Stream(1)') \in Nat
      <4>1. PartOf(b', b, 6) /\ Len(b') + 6 = Len(b)
        BY <1>1, <1>5, <2>2
      <4>2. PartOf(Stream(1)', Stream(1), 6) /\ Len(Stream(1)') + 6 = Len(Stream(1))
        BY <3>2, <3>3, <4>1, CutJoin
      <4> QED
        BY <4>2 DEF PartOf
    <3>5. /\ Continues(Stream(1), n)
          /\ 6 * n + Len(Stream(1)) <= 6 * asked
          /\ state[1] = "est" => 6 * n + Len(Stream(1)) = 6 * asked
      BY <1>8, <2>6 DEF OneConnection, n
    <3>6. ASSUME NEW i \in 1 .. Len(Stream(1)')
          PROVE  Stream(1)'[i] = FrameToken(6 * (n + 1) + i)
      <4>1. i + 6 \in 1 .. Len(Stream(1)) /\ Stream(1)'[i] = Stream(1)[i + 6] /\ i \in Nat
        BY <3>4 DEF PartOf
      <4> QED
        BY <2>4, <3>5, <4>1 DEF Continues
    <3>7. Continues(Stream(1)', n + 1)
      BY <3>6 DEF Continues
    <3>8. \A x, y \in Nat : y + 6 = x => 6 * (n + 1) + y = 6 * n + x
      BY <1>1
    <3>9. 6 * (n + 1) + Len(Stream(1)') = 6 * n + Len(Stream(1))
      BY <3>3, <3>4, <3>8
    <3> QED
      BY <3>5, <3>7, <3>9
  <2>7. OneConnection'
    <3>1. Len(Delivered)' = n + 1
      BY <1>4 DEF n
    <3> QED
      BY <1>0, <2>5, <2>6, <3>1 DEF OneConnection, b
  <2> QED
    BY <2>3, <2>7
<1> QED
  BY <1>7, <1>8

(* The server's next frame goes to the end of the stream.                  *)
LEMMA OneSend ==
  ASSUME TypeOK, OriginInv, OneConnection, FramesIntact, ServerSend
  PROVE  OneConnection' /\ FramesIntact'
<1> DEFINE n == Len(Delivered)
           s == Stream(1)
           f == Frame(asked + 1)
<1>0. /\ UNCHANGED <<messageBuffers, conns, receiveMessage, dispatched, fdTable,
                     reading, pc, state>>
      /\ Delivered' = Delivered /\ asked' = asked + 1
      /\ Referenced(1)' = Referenced(1)
  BY DEF ServerSend, queues, members, kernel, locals, history, Delivered, Referenced
<1>1. FramesIntact'
  BY <1>0 DEF FramesIntact
<1>2. CASE conns # 1
  BY <1>0, <1>1, <1>2 DEF OneConnection
<1>3. CASE conns = 1
  <2>1. PICK c \in Conns :
          /\ state[c] = "est" /\ Referenced(c)
          /\ inbound' = [inbound EXCEPT ![c] = @ \o f]
    BY DEF ServerSend
  <2>2. c = 1
    BY <1>3, <2>1, ReferencedBound, FramingTypes
  <2>3. /\ inbound \in [Conns -> Seq(Tokens)] /\ messageBuffers \in Seq(Tokens)
        /\ Len(messageBuffers) \in Nat /\ n \in Nat /\ asked \in Nat
        /\ 1 \in Conns /\ asked + 1 \in Requests
    <3>1. asked + 1 \in Requests
      BY FramingTypes, BoundsAssumption, SMTT(40) DEF ServerSend, Requests
    <3> QED
      BY <2>1, <2>2, <3>1, FramingTypes
  <2>4. /\ f \in Seq(Tokens) /\ Len(f) = 6
        /\ f[1] = Bob /\ f[2] = Start /\ f[3] = asked + 1
        /\ f[4] = asked + 1 /\ f[5] = Bob /\ f[6] = End
    BY <2>3, FrameTokens
  <2>5. s \in Seq(Tokens) /\ Len(s) \in Nat
    BY <2>3, StreamJoins
  <2>6. /\ Continues(s, n) /\ 6 * n + Len(s) = 6 * asked
    BY <1>3, <2>1, <2>2 DEF OneConnection
  <2>7. JoinOf(s', s, f)
    <3>1. s' = messageBuffers \o (inbound[1] \o f)
      BY <1>0, <2>1, <2>2, <2>3 DEF Stream
    <3>2. inbound[1] \in Seq(Tokens)
      BY <2>3
    <3> HIDE DEF f
    <3>3. JoinOf(messageBuffers \o (inbound[1] \o f), messageBuffers \o inbound[1], f)
      BY <2>3, <2>4, <3>2, JoinGrows
    <3> QED
      BY <3>1, <3>3 DEF Stream
  <2>8. \A i \in 1 .. 6 : f[i] = FrameToken(6 * asked + i)
    BY <2>3, TokenAt
  <2> HIDE DEF f, s, n
  <2>9. ASSUME NEW i \in 1 .. Len(s') PROVE s'[i] = FrameToken(6 * n + i)
    <3>1. CASE i \in 1 .. Len(s)
      BY <2>6, <2>7, <3>1 DEF JoinOf, Continues
    <3>2. CASE i \notin 1 .. Len(s)
      <4>1. PICK j \in 1 .. 6 : i = j + Len(s)
        <5>1. Len(s) \in Nat /\ Len(s') = Len(s) + 6
          BY <2>4, <2>5, <2>7 DEF JoinOf
        <5>2. i \in Nat /\ i > Len(s) /\ i <= Len(s) + 6
          BY <3>2, <5>1
        <5>3. i - Len(s) \in 1 .. 6 /\ i = (i - Len(s)) + Len(s)
          BY <5>1, <5>2
        <5> QED
          BY <5>3
      <4>2. s'[i] = f[j]
        BY <2>4, <2>7, <4>1 DEF JoinOf
      <4>3. 6 * n + i = 6 * asked + j
        BY <2>3, <2>5, <2>6, <4>1, SMTT(40)
      <4> QED
        BY <2>8, <4>2, <4>3
    <3> QED
      BY <3>1, <3>2
  <2>10. 6 * n + Len(s') = 6 * (asked + 1)
    <3>1. Len(s') = Len(s) + 6
      BY <2>4, <2>7 DEF JoinOf
    <3>2. \A x, y \in Nat : y = x + 6 => 6 * n + y = (6 * n + x) + 6
      BY <2>3
    <3>3. 6 * n + Len(s') = (6 * n + Len(s)) + 6
      BY <2>3, <2>5, <3>1, <3>2
    <3> QED
      BY <2>3, <2>6, <3>3
  <2>11. Continues(s', n) /\ 6 * n + Len(s') <= 6 * (asked + 1)
    <3>1. 6 * (asked + 1) <= 6 * (asked + 1)
      BY <2>3
    <3> QED
      BY <2>9, <2>10, <3>1 DEF Continues
  <2>12. OneConnection'
    BY <1>0, <1>3, <2>10, <2>11 DEF OneConnection, s, n
  <2> QED
    BY <1>1, <2>12
<1> QED
  BY <1>2, <1>3

(* A reset loses the end of the stream.                                    *)
LEMMA OneReset ==
  ASSUME TypeOK, OriginInv, OneConnection, FramesIntact, NetworkReset
  PROVE  OneConnection' /\ FramesIntact'
<1> DEFINE n == Len(Delivered)
<1>0. /\ UNCHANGED <<messageBuffers, asked, conns, receiveMessage, dispatched,
                     fdTable, reading, pc>>
      /\ Delivered' = Delivered /\ Referenced(1)' = Referenced(1)
  BY DEF NetworkReset, queues, members, kernel, locals, history, Delivered, Referenced
<1>1. FramesIntact'
  BY <1>0 DEF FramesIntact
<1>2. CASE conns # 1
  BY <1>0, <1>1, <1>2 DEF OneConnection
<1>3. CASE conns = 1
  <2>1. PICK c \in Conns :
          /\ Referenced(c) /\ state' = [state EXCEPT ![c] = "reset"]
          /\ \E k \in 0 .. Len(inbound[c]) :
               inbound' = [inbound EXCEPT ![c] = SubSeq(@, 1, k)]
    BY DEF NetworkReset
  <2>2. PICK k \in 0 .. Len(inbound[c]) :
          inbound' = [inbound EXCEPT ![c] = SubSeq(@, 1, k)]
    BY <2>1
  <2>3. c = 1 /\ 1 \in Conns
    BY <1>3, <2>1, ReferencedBound, FramingTypes, SMTT(40)
  <2>4. /\ inbound \in [Conns -> Seq(Tokens)] /\ messageBuffers \in Seq(Tokens)
        /\ n \in Nat /\ asked \in Nat
    BY FramingTypes
  <2>5. inbound'[1] = SubSeq(inbound[1], 1, k) /\ state'[1] = "reset"
    <3>1. state \in [Conns -> {"none", "est", "fin", "reset", "dead"}]
      BY DEF TypeOK
    <3> QED
      BY <2>1, <2>2, <2>3, <2>4, <3>1
  <2>6. inbound'[1] \in Seq(Tokens) /\ PartOf(inbound'[1], inbound[1], 0)
    BY <2>2, <2>3, <2>4, <2>5, PrefixIsPart
  <2>7. JoinOf(Stream(1)', messageBuffers, inbound'[1])
    BY <1>0, <2>4, <2>6, ConcatIsJoin DEF Stream
  <2>8. JoinOf(Stream(1), messageBuffers, inbound[1])
    BY <2>3, StreamJoins
  <2>9. PartOf(Stream(1)', Stream(1), 0)
    BY <2>6, <2>7, <2>8, PrefixJoin
  <2>10. /\ Len(Stream(1)) \in Nat /\ Len(Stream(1)') \in Nat
         /\ Len(Stream(1)') <= Len(Stream(1))
    BY <2>6, <2>7, <2>8, <2>9 DEF JoinOf, PartOf
  <2>11. /\ Continues(Stream(1), n) /\ 6 * n + Len(Stream(1)) <= 6 * asked
    BY <1>3, <2>1, <2>3 DEF OneConnection
  <2>12. ASSUME NEW i \in 1 .. Len(Stream(1)')
         PROVE  Stream(1)'[i] = FrameToken(6 * n + i)
    <3>1. i + 0 = i /\ i + 0 \in 1 .. Len(Stream(1)) /\ Stream(1)'[i] = Stream(1)[i]
      BY <2>9 DEF PartOf
    <3> QED
      BY <2>11, <3>1 DEF Continues
  <2>13. 6 * n + Len(Stream(1)') <= 6 * asked
    BY <2>4, <2>10, <2>11
  <2>14. OneConnection'
    <3>1. Continues(Stream(1)', n)
      BY <2>12 DEF Continues
    <3> QED
      BY <1>0, <1>3, <2>5, <2>11, <2>13, <3>1 DEF OneConnection
  <2> QED
    BY <1>1, <2>14
<1> QED
  BY <1>2, <1>3

(* Every step keeps the one stream, and what was taken out of it.          *)
LEMMA OneNext ==
  /\ TypeOK /\ SocketInv /\ MainFirst /\ BeforeFirst /\ Framed
  /\ OneConnection /\ FramesIntact /\ [Next]_vars
  => OneConnection' /\ FramesIntact'
<1> SUFFICES ASSUME TypeOK, SocketInv, MainFirst, BeforeFirst, Framed,
                    OneConnection, FramesIntact, [Next]_vars
             PROVE  OneConnection' /\ FramesIntact'
  OBVIOUS
<1>t. /\ OriginInv
      /\ pc \in [Threads -> MainLabels \cup SendLabels \cup RecvLabels]
      /\ pc["recv"] # "reading" => reading = Free
      /\ fdTable \in [Fds -> Files] /\ Free # 1 /\ Fresh # 1 /\ Other # 1
      /\ conns = 1 => 1 \in Conns
      /\ state \in [Conns -> {"none", "est", "fin", "reset", "dead"}]
  BY BoundsAssumption DEF TypeOK, Framed, OriginInv, Free, Fresh, Other, Conns
<1> USE <1>t DEF At, Goto
<1>0. ASSUME UNCHANGED <<messageBuffers, inbound, asked, conns, dispatched,
                         receiveMessage>>,
             reading' = reading \/ reading' = Free,
             \A fd \in Fds : fdTable'[fd] = 1 => fdTable[fd] = 1,
             conns = 1 => (state'[1] = "est" => state[1] = "est")
      PROVE  OneConnection' /\ FramesIntact'
  <2>1. Delivered' = Delivered
    BY <1>0 DEF Delivered
  <2>2. Referenced(1)' => Referenced(1)
    BY <1>0 DEF Referenced
  <2> QED
    BY <1>0, <2>1, <2>2, OneQuiet
<1>1. ASSUME NEW t \in Threads, Connect(t) PROVE OneConnection' /\ FramesIntact'
  <2>1. CASE Lock(t)
    BY <1>0, <2>1 DEF Lock, queues, locals, kernel, network, history
  <2>2. CASE CloseOld(t)
    BY <1>0, <2>2 DEF CloseOld, Close, queues, members, locals, network, history
  <2>3. CASE Socket(t)
    BY <1>0, <2>3 DEF Socket, queues, locals, network, history
  <2>4. CASE ConnectSocket(t)
    BY <2>4, OneConnectSocket
  <2>5. CASE CheckConnected(t)
    BY <1>0, <2>5 DEF CheckConnected, Close, queues, locals, network, history
  <2> QED
    BY <1>1, <2>1, <2>2, <2>3, <2>4, <2>5 DEF Connect
<1>2. CASE Send
  <2>1. CASE CheckLive("send", "pop") \/ SendPop \/ SendPopNothing
    BY <1>0, <2>1 DEF CheckLive, SendPop, SendPopNothing, PopSendMessage, queues,
       members, locals, kernel, network, history
  <2>2. CASE SendWrite
    <3>1. /\ UNCHANGED <<messageBuffers, inbound, asked, conns, dispatched,
                         receiveMessage, reading, fdTable>>
      BY <2>2 DEF SendWrite, queues, members
    <3>2. \A c \in Conns : state'[c] = "est" => state[c] = "est"
      BY <2>2 DEF SendWrite
    <3> QED
      BY <1>0, <3>1, <3>2
  <2> QED
    BY <1>2, <2>1, <2>2 DEF Send
<1>3. CASE Recv
  <2>1. CASE CheckLive("recv", "read")
    BY <1>0, <2>1 DEF CheckLive, queues, members, locals, kernel, network, history
  <2>2. CASE RecvEnd
    BY <1>0, <2>2 DEF RecvEnd, queues, members, kernel, network, history
  <2>3. CASE RecvError
    <3>1. /\ UNCHANGED <<messageBuffers, inbound, asked, conns, dispatched,
                         receiveMessage, fdTable>>
          /\ reading' = Free
      BY <2>3 DEF RecvError, queues, members, kernel, history
    <3>2. \A c \in Conns : state'[c] = "est" => state[c] = "est"
      BY <2>3 DEF RecvError
    <3> QED
      BY <1>0, <3>1, <3>2
  <2>4. CASE RecvNoFrame
    BY <1>0, <2>4 DEF RecvNoFrame, queues, members, locals, kernel, network, history
  <2>5. CASE Disconnect
    BY <1>0, <2>5 DEF Disconnect, queues, locals, kernel, network, history
  <2>6. CASE DisconnectClose
    BY <1>0, <2>6 DEF DisconnectClose, Close, queues, members, locals, network, history
  <2> QED
    BY <1>3, <2>1, <2>2, <2>3, <2>4, <2>5, <2>6, OneRead, OneData, OneFrame
    DEF Recv
<1>4. CASE Environment
  <2>1. CASE ComponentPush
    BY <1>0, <2>1 DEF ComponentPush, queues, members, locals, kernel, network
  <2>2. CASE MatchPop
    <3>1. UNCHANGED <<messageBuffers, inbound, asked, conns, reading, fdTable, state>>
      BY <2>2 DEF MatchPop, members, locals, kernel, network
    <3>2. Delivered' = Delivered
      BY <2>2, PopKeeps
    <3>3. Referenced(1)' = Referenced(1)
      BY <3>1 DEF Referenced
    <3> QED
      BY <3>1, <3>2, <3>3, OneQuiet
  <2>3. CASE OtherOpen \/ OtherClose
    BY <1>0, <2>3 DEF OtherOpen, OtherClose, queues, members, locals, network, history
  <2>4. CASE ServerClose
    <3>1. /\ UNCHANGED <<messageBuffers, inbound, asked, conns, dispatched,
                         receiveMessage, reading, fdTable>>
      BY <2>4 DEF ServerClose, queues, members, locals, kernel, history
    <3>2. \A c \in Conns : state'[c] = "est" => state[c] = "est"
      BY <2>4 DEF ServerClose
    <3> QED
      BY <1>0, <3>1, <3>2
  <2>5. CASE ServerStop
    <3>1. /\ UNCHANGED <<messageBuffers, inbound, asked, conns, dispatched,
                         receiveMessage, fdTable, reading>>
          /\ state' = [c \in Conns |-> IF state[c] = "est" THEN "fin" ELSE state[c]]
      BY <2>5 DEF ServerStop, queues, members, locals, kernel, history
    <3>2. \A c \in Conns : state'[c] = "est" => state[c] = "est"
      BY <3>1
    <3> QED
      BY <1>0, <3>1, <3>2
  <2>6. CASE ServerStart
    BY <1>0, <2>6 DEF ServerStart, queues, members, locals, kernel, history
  <2> QED
    BY <1>4, <2>1, <2>2, <2>3, <2>4, <2>5, <2>6, OneSend, OneReset
    DEF Environment
<1>5. CASE UNCHANGED vars
  BY <1>0, <1>5 DEF vars, queues, members, locals, kernel, network, history
<1> QED
  BY <1>1, <1>2, <1>3, <1>4, <1>5 DEF Next

(* The invariants of the sockets and of the framing are inductive together *)
(* (CCommunication.cpp:28-48, 93-150).                                     *)
LEMMA StreamsAlways ==
  Spec => [](TypeOK /\ MutexHeld /\ SocketInv /\ MainFirst /\ BeforeFirst /\ Framed
               /\ OneConnection /\ FramesIntact)
<1> DEFINE Base == TypeOK /\ MutexHeld /\ SocketInv /\ MainFirst /\ BeforeFirst /\ Framed
           One == OneConnection /\ FramesIntact
<1>1. Init => Base /\ One
  <2>1. Init => One
    BY DEF Init, InitQueues, OneConnection, FramesIntact, Delivered
  <2>2. Init => MainFirst
    BY DEF Init, MainFirst, Threads
  <2> QED
    BY <2>1, <2>2, TypeInit, SocketInit, FramedInit
<1>2. Base /\ One /\ [Next]_vars => (Base /\ One)'
  <2>1. Base /\ [Next]_vars => Base'
    BY TypeNext, SocketNext, MainFirstNext, BeforeFirstNext, FramedNext DEF Framed
  <2>2. Base /\ One /\ [Next]_vars => One'
    BY OneNext
  <2> QED
    BY <2>1, <2>2
<1> QED
  BY <1>1, <1>2, PTL DEF Spec

(* Every request is handed to CMatch at most once, and those of one        *)
(* connection in the order they were sent, for any number of requests,     *)
(* connections and failures, however the stream is cut                     *)
(* (CCommunication.cpp:93-144).                                            *)
THEOREM DeliveredInOrder == Spec => []RequestsInOrder
  BY StreamsAlways, PTL DEF Framed

(* Each lost connection spoils at most one packet of those that follow     *)
(* (CCommunication.cpp:124-139).                                           *)
THEOREM SpoiledByReconnect == Spec => []GarbagePerReconnect
  BY StreamsAlways, PTL DEF Framed

(* As long as there was one connection only, the packets are the server's  *)
(* requests, whole, in order and without gaps, for any number of requests  *)
(* and wherever read cut them (CCommunication.cpp:123-140).                *)
THEOREM FramesArriveWhole == Spec => []FramesIntact
  BY StreamsAlways, PTL

-----------------------------------------------------------------------------
(***************************************************************************)
(* While nothing fails: the server is up from the start, and neither the   *)
(* network nor another thread interferes.  Then main makes the connection, *)
(* unless there can be none at all, and neither thread calls Connect.      *)
(***************************************************************************)
Reliable ==
  /\ MaxFailures = 0 /\ ~OtherThreads
  /\ serverUp /\ ~killed /\ conns \in {0, 1}
  /\ \A c \in Conns : state[c] \in {"none", "est"}
  /\ conns = 0 =>
       /\ pc["send"] \in InConnect \cup {"off", "live", "lock"}
       /\ pc["main"] \in {"lock", "close", "socket"} =>
            \A fd \in Fds : fdTable[fd] = Free
       /\ pc["main"] = "connect" => Fds = {} \/ File(clientSocket) = Fresh
       /\ pc["main"] \in {"check", "done"} => Fds = {} \/ MaxConns = 0
  /\ conns = 1 =>
       /\ connected = 0 /\ File(clientSocket) = 1 /\ state[1] = "est"
       /\ pc["main"] \in {"check", "done"}
       /\ pc["send"] \in {"off", "live", "pop", "write"}
       /\ pc["recv"] \in {"off", "live", "read", "reading", "parse"}

(* The messages written are the first ones pushed, without gaps. *)
InSequence ==
  /\ \A i \in 1 .. Len(written) : written[i] = i
  /\ pc["send"] # "write" => pushed = Len(written) + Len(sendMessage)
  /\ pc["send"] = "write" =>
       pushed = Len(written) + 1 + Len(sendMessage) /\ sending = Len(written) + 1

LEMMA ReliableInit ==
  Init /\ serverUp /\ MaxFailures = 0 /\ ~OtherThreads => Reliable /\ InSequence
<1> SUFFICES ASSUME Init, serverUp, MaxFailures = 0, ~OtherThreads
             PROVE  Reliable /\ InSequence
  OBVIOUS
<1>1. /\ pc["main"] = "lock" /\ pc["send"] = "off"
      /\ conns = 0 /\ ~killed /\ \A c \in Conns : state[c] = "none"
      /\ \A fd \in Fds : fdTable[fd] = Free
  BY DEF Init, Threads
<1>2. Reliable
  BY <1>1 DEF Reliable
<1>3. written = <<>> /\ pushed = 0 /\ sendMessage = <<>>
  BY DEF Init, InitQueues
<1>4. Len(written) = 0 /\ Len(sendMessage) = 0 /\ pc["send"] # "write"
  BY <1>1, <1>3
<1>5. InSequence
  <2>1. \A i \in 1 .. Len(written) : FALSE
    BY <1>4
  <2>2. pushed = Len(written) + Len(sendMessage)
    BY <1>3, <1>4
  <2> QED
    BY <1>4, <2>1, <2>2 DEF InSequence
<1> QED
  BY <1>2, <1>5

LEMMA ReliableConnect ==
  ASSUME TypeOK, MainFirst, BeforeFirst, Reliable, NEW t \in Threads, Connect(t)
  PROVE  Reliable'
<1> USE DEF Threads, InConnect
<1>t. /\ pc \in [Threads -> MainLabels \cup SendLabels \cup RecvLabels]
      /\ Fds \subseteq Nat /\ NoFd \notin Fds /\ Fresh # Free /\ Free # 1
      /\ fdTable \in [Fds -> Files] /\ MaxConns \in Nat
      /\ state \in [Conns -> {"none", "est", "fin", "reset", "dead"}]
  BY FdsAssumption, BoundsAssumption DEF TypeOK, NoFd, Fresh, Free
<1>m. t # "main" /\ pc[t] # "off" => pc["main"] = "done"
  BY DEF MainFirst
<1>r. /\ MaxFailures = 0 /\ ~OtherThreads /\ serverUp /\ ~killed
      /\ \A c \in Conns : state[c] \in {"none", "est"}
  BY DEF Reliable
<1>1. CASE conns = 1
  <2>1. /\ connected = 0 /\ File(clientSocket) = 1 /\ state[1] = "est"
        /\ pc["main"] \in {"check", "done"}
        /\ pc["send"] \in {"off", "live", "pop", "write"}
        /\ pc["recv"] \in {"off", "live", "read", "reading", "parse"}
    BY <1>1 DEF Reliable
  <2>2. t = "main" /\ pc["main"] = "check" /\ CheckConnected(t)
    BY <2>1 DEF Connect, Lock, CloseOld, Socket, ConnectSocket, CheckConnected, At
  <2>3. clientSocket \in Fds /\ Live
    BY <1>t, <2>1 DEF File, Live
  <2>4. /\ UNCHANGED <<connected, fdTable, clientSocket, conns, state, serverUp, killed>>
        /\ pc' = [x \in Threads |-> IF x = "main" THEN "done" ELSE "live"]
    BY <2>2, <2>3 DEF CheckConnected, AfterConnect, network
  <2>5. /\ pc'["main"] = "done" /\ pc'["send"] = "live" /\ pc'["recv"] = "live"
        /\ File(clientSocket)' = File(clientSocket)
    BY <2>4 DEF File
  <2> QED
    BY <1>1, <1>r, <2>1, <2>4, <2>5 DEF Reliable
<1>2. CASE conns = 0
  <2>1. /\ pc["send"] \in InConnect \cup {"off", "live", "lock"}
        /\ pc["main"] \in {"lock", "close", "socket"} =>
             \A fd \in Fds : fdTable[fd] = Free
        /\ pc["main"] = "connect" => Fds = {} \/ File(clientSocket) = Fresh
        /\ pc["main"] \in {"check", "done"} => Fds = {} \/ MaxConns = 0
    BY <1>2 DEF Reliable
  <2>2. connected = -1 /\ ~Live
    BY <1>2 DEF BeforeFirst, Live
  <2>3. CASE Lock(t)
    <3>1. /\ UNCHANGED <<clientSocket, connected, fdTable, conns, state, serverUp, killed>>
          /\ pc[t] = "lock" /\ pc' = [pc EXCEPT ![t] = "close"]
      BY <2>3 DEF Lock, At, Goto, kernel, network
    <3>2. File(clientSocket)' = File(clientSocket)
      BY <3>1 DEF File
    <3> QED
      BY <1>2, <1>t, <1>m, <1>r, <2>1, <3>1, <3>2 DEF Reliable
  <2>4. CASE CloseOld(t)
    <3>1. /\ UNCHANGED <<clientSocket, connected, conns, state, serverUp, killed>>
          /\ pc[t] = "close" /\ pc' = [pc EXCEPT ![t] = "socket"]
          /\ \A fd \in Fds : fdTable'[fd] \in {Free, fdTable[fd]}
      BY <1>t, <2>4 DEF CloseOld, Close, At, Goto, members, network
    <3> QED
      BY <1>2, <1>t, <1>m, <1>r, <2>1, <3>1 DEF Reliable
  <2>5. CASE Socket(t)
    <3>1. /\ UNCHANGED <<connected, conns, state, serverUp, killed>>
          /\ pc[t] = "socket" /\ pc' = [pc EXCEPT ![t] = "connect"]
      BY <2>5 DEF Socket, At, Goto, network
    <3>2. ASSUME t = "main" PROVE Fds = {} \/ File(clientSocket)' = Fresh
      <4>1. CASE NoneFree
        BY <2>1, <3>1, <3>2, <4>1 DEF NoneFree
      <4>2. CASE \E fd \in Fds : /\ fdTable' = [fdTable EXCEPT ![fd] = Fresh]
                                 /\ clientSocket' = fd
        BY <1>t, <4>2 DEF File
      <4> QED
        BY <2>5, <4>1, <4>2 DEF Socket
    <3> QED
      BY <1>2, <1>t, <1>m, <1>r, <2>1, <3>1, <3>2 DEF Reliable
  <2>6. CASE ConnectSocket(t)
    <3>1. /\ UNCHANGED <<clientSocket, serverUp, killed>>
          /\ pc[t] = "connect" /\ pc' = [pc EXCEPT ![t] = "check"]
      BY <2>6 DEF ConnectSocket, At, Goto
    <3>2. CASE CanConnect
      <4>1. /\ clientSocket \in Fds /\ MaxConns > 0 /\ 1 \in Conns
        BY <1>2, <1>t, <3>2 DEF CanConnect, File, Conns
      <4>2. t = "main" /\ pc["send"] = "off" /\ pc["recv"] = "off"
        BY <1>m, <2>1, <3>1, <4>1 DEF MainFirst
      <4>3. /\ connected' = 0 /\ conns' = 1 /\ fdTable' = [fdTable EXCEPT ![clientSocket] = 1]
            /\ state' = [state EXCEPT ![1] = "est"]
        BY <1>2, <2>6, <3>2 DEF ConnectSocket
      <4>4. File(clientSocket)' = 1 /\ state'[1] = "est"
        BY <1>t, <3>1, <4>1, <4>3 DEF File
      <4>5. \A c \in Conns : state'[c] \in {"none", "est"}
        BY <1>t, <1>r, <4>3
      <4>6. pc'["main"] = "check" /\ pc'["send"] = "off" /\ pc'["recv"] = "off"
        BY <1>t, <3>1, <4>2
      <4> QED
        BY <1>r, <3>1, <4>3, <4>4, <4>5, <4>6 DEF Reliable
    <3>3. CASE ~CanConnect
      <4>1. UNCHANGED <<conns, fdTable, state>>
        BY <2>6, <3>3 DEF ConnectSocket
      <4>2. t = "main" => Fds = {} \/ MaxConns = 0
        BY <1>2, <1>t, <1>r, <2>1, <3>1, <3>3 DEF CanConnect
      <4> QED
        BY <1>2, <1>t, <1>m, <1>r, <2>1, <3>1, <4>1, <4>2 DEF Reliable
    <3> QED
      BY <3>2, <3>3
  <2>7. CASE CheckConnected(t)
    <3>1. /\ UNCHANGED <<conns, state, serverUp, killed>>
          /\ pc[t] = "check"
          /\ pc' = IF t = "main"
                     THEN [x \in Threads |-> IF x = "main" THEN "done" ELSE "live"]
                     ELSE [pc EXCEPT ![t] = "live"]
      BY <2>7 DEF CheckConnected, AfterConnect, At, network
    <3> QED
      BY <1>2, <1>t, <1>m, <1>r, <2>1, <3>1 DEF Reliable
  <2> QED
    BY <2>3, <2>4, <2>5, <2>6, <2>7 DEF Connect
<1> QED
  BY <1>1, <1>2 DEF Reliable

LEMMA ReliableNext ==
  TypeOK /\ MainFirst /\ BeforeFirst /\ Reliable /\ [Next]_vars => Reliable'
<1> SUFFICES ASSUME TypeOK, MainFirst, BeforeFirst, Reliable, [Next]_vars
             PROVE  Reliable'
  OBVIOUS
<1> USE DEF InConnect
<1>t. /\ pc \in [Threads -> MainLabels \cup SendLabels \cup RecvLabels]
      /\ Fds \subseteq Nat /\ NoFd \notin Fds /\ Fresh # 1 /\ Free # 1 /\ Other # 1
      /\ failures \in 0 .. MaxFailures
      /\ state \in [Conns -> {"none", "est", "fin", "reset", "dead"}]
      /\ conns = 1 => 1 \in Conns
      /\ pc["recv"] = "reading" => reading \in Conns
  BY FdsAssumption, BoundsAssumption DEF TypeOK, NoFd, Fresh, Free, Other, Conns
<1>r. /\ MaxFailures = 0 /\ ~OtherThreads /\ serverUp /\ ~killed /\ conns \in {0, 1}
      /\ \A c \in Conns : state[c] \in {"none", "est"}
  BY DEF Reliable
<1>0. conns = 0 => /\ pc["send"] \in InConnect \cup {"off", "live", "lock"}
                   /\ pc["recv"] \in InConnect \cup {"off", "live", "lock"}
                   /\ ~Live
  BY DEF Reliable, BeforeFirst, Live
<1>1. conns = 1 => /\ File(clientSocket) = 1 /\ state[1] = "est" /\ Live
                   /\ pc["send"] \in {"off", "live", "pop", "write"}
                   /\ pc["recv"] \in {"off", "live", "read", "reading", "parse"}
  <2> SUFFICES ASSUME conns = 1 PROVE clientSocket # NoFd
    BY DEF Reliable, Live
  <2>1. File(clientSocket) = 1
    BY DEF Reliable
  <2> QED
    BY <1>t, <2>1 DEF File
<1>2. ASSUME UNCHANGED <<fdTable, clientSocket, connected, conns, serverUp>>,
             ~killed', \A c \in Conns : state'[c] = state[c],
             pc'["main"] = pc["main"],
             conns = 0 => pc'["send"] \in InConnect \cup {"off", "live", "lock"},
             conns = 1 => /\ pc'["send"] \in {"off", "live", "pop", "write"}
                          /\ pc'["recv"] \in {"off", "live", "read", "reading", "parse"}
      PROVE  Reliable'
  <2>1. File(clientSocket)' = File(clientSocket)
    BY <1>2 DEF File
  <2> QED
    BY <1>t, <1>2, <2>1 DEF Reliable
<1> HIDE DEF InConnect
<1>3. CASE Send
  <2>1. CASE CheckLive("send", "pop")
    <3>1. UNCHANGED <<fdTable, clientSocket, connected, conns, serverUp, killed, state>>
      BY <2>1 DEF CheckLive, members, kernel, network
    <3>2. pc' = [pc EXCEPT !["send"] = IF Live THEN "pop" ELSE "lock"]
      BY <2>1 DEF CheckLive, Goto
    <3> QED
      BY <1>t, <1>r, <1>0, <1>1, <1>2, <3>1, <3>2 DEF Threads
  <2>2. CASE SendPop \/ SendPopNothing
    <3>1. UNCHANGED <<fdTable, clientSocket, connected, conns, serverUp, killed, state>>
      BY <2>2 DEF SendPop, SendPopNothing, members, kernel, network
    <3>2. /\ pc["send"] = "pop"
          /\ \/ pc' = [pc EXCEPT !["send"] = "write"]
             \/ pc' = [pc EXCEPT !["send"] = "live"]
      BY <2>2 DEF SendPop, SendPopNothing, At, Goto
    <3> QED
      BY <1>t, <1>r, <1>0, <1>1, <1>2, <3>1, <3>2 DEF Threads, InConnect
  <2>3. CASE SendWrite
    <3>1. pc["send"] = "write" /\ pc' = [pc EXCEPT !["send"] = "live"] /\ conns = 1
      BY <1>r, <1>0, <2>3 DEF SendWrite, At, Goto, InConnect
    <3>2. /\ UNCHANGED <<fdTable, clientSocket, connected, conns, serverUp>>
          /\ state' = state /\ ~killed'
      BY <1>t, <1>1, <2>3, <3>1 DEF SendWrite, members
    <3> QED
      BY <1>t, <1>r, <1>0, <1>1, <1>2, <3>1, <3>2 DEF Threads, InConnect
  <2> QED
    BY <1>3, <2>1, <2>2, <2>3 DEF Send
<1>4. CASE Recv
  <2>1. CASE CheckLive("recv", "read")
    <3>1. UNCHANGED <<fdTable, clientSocket, connected, conns, serverUp, killed, state>>
      BY <2>1 DEF CheckLive, members, kernel, network
    <3>2. pc' = [pc EXCEPT !["recv"] = IF Live THEN "read" ELSE "lock"]
      BY <2>1 DEF CheckLive, Goto
    <3> QED
      BY <1>t, <1>r, <1>0, <1>1, <1>2, <3>1, <3>2 DEF Threads
  <2>2. CASE RecvRead
    <3>1. UNCHANGED <<fdTable, clientSocket, connected, conns, serverUp, killed, state>>
      BY <2>2 DEF RecvRead, kernel, network
    <3>2. pc["recv"] = "read" /\ conns = 1
      BY <1>r, <1>0, <2>2 DEF RecvRead, At, InConnect
    <3>3. pc' = [pc EXCEPT !["recv"] = "reading"]
      BY <1>t, <1>1, <2>2, <3>2 DEF RecvRead, Goto
    <3> QED
      BY <1>t, <1>r, <1>0, <1>1, <1>2, <3>1, <3>2, <3>3 DEF Threads
  <2>3. CASE RecvData
    <3>1. UNCHANGED <<fdTable, clientSocket, connected, conns, serverUp, killed, state>>
      BY <2>3 DEF RecvData, kernel
    <3>2. pc' = [pc EXCEPT !["recv"] = "parse"]
      BY <2>3 DEF RecvData, Goto
    <3> QED
      BY <1>t, <1>r, <1>0, <1>1, <1>2, <3>1, <3>2 DEF Threads
  <2>4. ~RecvEnd /\ ~RecvError
    BY <1>t, <1>r DEF RecvEnd, RecvError, At
  <2>5. CASE RecvFrame
    BY <1>r, <1>0, <1>1, <1>2, <2>5 DEF RecvFrame, kernel, network
  <2>6. CASE RecvNoFrame
    <3>1. UNCHANGED <<fdTable, clientSocket, connected, conns, serverUp, killed, state>>
      BY <2>6 DEF RecvNoFrame, members, kernel, network
    <3>2. pc' = [pc EXCEPT !["recv"] = "live"]
      BY <2>6 DEF RecvNoFrame, Goto
    <3> QED
      BY <1>t, <1>r, <1>0, <1>1, <1>2, <3>1, <3>2 DEF Threads
  <2>7. ~Disconnect /\ ~DisconnectClose
    BY <1>r, <1>0, <1>1 DEF Disconnect, DisconnectClose, At, InConnect
  <2> QED
    BY <1>4, <2>1, <2>2, <2>3, <2>4, <2>5, <2>6, <2>7 DEF Recv
<1>5. CASE Environment
  <2>1. ~OtherOpen /\ ~OtherClose
    BY <1>r DEF OtherOpen, OtherClose
  <2>2. ~ServerClose /\ ~NetworkReset /\ ~ServerStop /\ ~ServerStart
    BY <1>t, <1>r DEF ServerClose, NetworkReset, ServerStop, ServerStart
  <2>3. CASE ComponentPush \/ MatchPop \/ ServerSend
    <3>1. UNCHANGED <<fdTable, clientSocket, connected, conns, serverUp, killed, state, pc>>
      BY <2>3 DEF ComponentPush, MatchPop, ServerSend, members, kernel, network
    <3> QED
      BY <1>r, <1>0, <1>1, <1>2, <3>1
  <2> QED
    BY <1>5, <2>1, <2>2, <2>3 DEF Environment
<1>6. CASE UNCHANGED vars
  <2>1. UNCHANGED <<fdTable, clientSocket, connected, conns, serverUp, killed, state, pc>>
    BY <1>6 DEF vars, members, kernel, network
  <2> QED
    BY <1>r, <1>0, <1>1, <1>2, <2>1
<1> QED
  BY <1>3, <1>4, <1>5, <1>6, ReliableConnect DEF Next

LEMMA InSequenceNext ==
  TypeOK /\ MainFirst /\ BeforeFirst /\ SendInv /\ Reliable /\ InSequence
    /\ [Next]_vars => InSequence'
<1> SUFFICES ASSUME TypeOK, MainFirst, BeforeFirst, SendInv, Reliable, InSequence,
                    [Next]_vars
             PROVE  InSequence'
  OBVIOUS
<1>t. /\ pc \in [Threads -> MainLabels \cup SendLabels \cup RecvLabels]
      /\ Threads = {"main", "send", "recv"}
      /\ written \in Seq(Messages) /\ sendMessage \in Seq(Messages)
      /\ Len(written) \in Nat /\ Len(sendMessage) \in Nat /\ pushed \in Nat
  BY BoundsAssumption DEF TypeOK, Threads
<1>i. /\ \A i \in 1 .. Len(written) : written[i] = i
      /\ pc["send"] # "write" => pushed = Len(written) + Len(sendMessage)
      /\ pc["send"] = "write" => /\ pushed = Len(written) + 1 + Len(sendMessage)
                                 /\ sending = Len(written) + 1
  BY DEF InSequence
<1>1. ASSUME UNCHANGED <<written, pushed, sendMessage, sending>>,
             pc'["send"] = "write" <=> pc["send"] = "write"
      PROVE  InSequence'
  BY <1>1, <1>i DEF InSequence
<1>2. ASSUME NEW t \in Threads, Connect(t)
      PROVE  InSequence'
  <2>1. UNCHANGED <<written, pushed, sendMessage, sending>>
    BY <1>2 DEF Connect, Lock, CloseOld, Socket, ConnectSocket, CheckConnected,
                history, queues, locals
  <2>2. CASE CheckConnected(t)
    <3>1. t = "main" => pc["send"] # "write"
      BY <2>2 DEF MainFirst, CheckConnected, At
    <3>2. t = "send" => pc["send"] # "write"
      BY <2>2 DEF CheckConnected, At
    <3>3. pc' = IF t = "main"
                  THEN [x \in Threads |-> IF x = "main" THEN "done" ELSE "live"]
                  ELSE [pc EXCEPT ![t] = "live"]
      BY <2>2 DEF CheckConnected, AfterConnect
    <3> QED
      BY <1>1, <1>t, <2>1, <3>1, <3>2, <3>3
  <2>3. CASE ~CheckConnected(t)
    <3>1. PICK label \in {"close", "socket", "connect", "check"} :
            pc' = [pc EXCEPT ![t] = label]
      BY <1>2, <2>3 DEF Connect, Lock, CloseOld, Socket, ConnectSocket, Goto
    <3>2. t = "send" => pc["send"] # "write"
      BY <1>2, <2>3 DEF Connect, Lock, CloseOld, Socket, ConnectSocket, At
    <3> QED
      BY <1>1, <1>t, <2>1, <3>1, <3>2
  <2> QED
    BY <2>2, <2>3
<1>3. CASE Send
  <2>1. CASE CheckLive("send", "pop")
    <3>1. /\ UNCHANGED <<written, pushed, sendMessage, sending>>
          /\ pc["send"] = "live"
          /\ pc' = [pc EXCEPT !["send"] = IF Live THEN "pop" ELSE "lock"]
      BY <2>1 DEF CheckLive, At, Goto, history, queues, locals
    <3> QED
      BY <1>1, <1>t, <3>1
  <2>2. CASE SendPop
    <3>1. /\ sendMessage # <<>> /\ sending' = Head(sendMessage)
          /\ sendMessage' = Tail(sendMessage)
          /\ pc["send"] = "pop" /\ pc' = [pc EXCEPT !["send"] = "write"]
          /\ UNCHANGED <<written, pushed>>
      BY <2>2 DEF SendPop, PopSendMessage, At, Goto, history
    <3>2. /\ Len(sendMessage) > 0 /\ sending' = sendMessage[1]
          /\ Len(sendMessage') = Len(sendMessage) - 1
      BY <1>t, <3>1
    <3>3. sendMessage[1] = pushed - Len(sendMessage) + 1
      BY <1>t, <3>2 DEF SendInv
    <3>4. pushed = Len(written) + Len(sendMessage)
      BY <1>i, <3>1
    <3>5. pc'["send"] = "write"
      BY <1>t, <3>1
    <3>6. /\ pushed = Len(written) + 1 + Len(sendMessage')
          /\ sending' = Len(written) + 1
      BY <1>t, <3>2, <3>3, <3>4
    <3> QED
      BY <1>i, <3>1, <3>5, <3>6 DEF InSequence
  <2>3. CASE SendPopNothing
    <3>1. /\ UNCHANGED <<written, pushed, sendMessage, sending>>
          /\ pc["send"] = "pop" /\ pc' = [pc EXCEPT !["send"] = "live"]
      BY <2>3 DEF SendPopNothing, At, Goto, history, queues, locals
    <3> QED
      BY <1>1, <1>t, <3>1
  <2>4. CASE SendWrite
    <3>1. /\ pc["send"] = "write" /\ pc' = [pc EXCEPT !["send"] = "live"]
          /\ UNCHANGED <<pushed, sendMessage>>
      BY <2>4 DEF SendWrite, At, Goto, queues
    <3>2. /\ conns = 1
      BY <3>1 DEF Reliable, InConnect
    <3>3. File(clientSocket) = 1 /\ state[1] = "est" /\ 1 \in Conns
      BY <3>2, BoundsAssumption DEF Reliable, TypeOK, Conns
    <3>4. written' = Append(written, sending)
      BY <2>4, <3>3 DEF SendWrite
    <3>5. sending \in Messages /\ sending = Len(written) + 1
      BY <1>i, <3>1 DEF TypeOK
    <3>6. /\ Len(written') = Len(written) + 1
          /\ \A i \in 1 .. Len(written) : written'[i] = written[i]
          /\ written'[Len(written) + 1] = sending
      BY <1>t, <3>4, <3>5
    <3>7. \A i \in 1 .. Len(written') : written'[i] = i
      BY <1>t, <1>i, <3>5, <3>6
    <3>8. pushed = Len(written') + Len(sendMessage)
      BY <1>t, <1>i, <3>1, <3>6
    <3>9. pc'["send"] # "write"
      BY <1>t, <3>1
    <3> QED
      BY <3>1, <3>7, <3>8, <3>9 DEF InSequence
  <2> QED
    BY <1>3, <2>1, <2>2, <2>3, <2>4 DEF Send
<1>4. CASE Recv
  <2>1. UNCHANGED <<written, pushed, sendMessage, sending>>
    BY <1>4 DEF Recv, CheckLive, RecvRead, RecvData, RecvEnd, RecvError, RecvFrame,
                RecvNoFrame, Disconnect, DisconnectClose, history, queues, locals
  <2>2. pc'["send"] = pc["send"]
    <3>1. \A label : Goto("recv", label) => pc'["send"] = pc["send"]
      BY <1>t DEF Goto
    <3>2. CheckLive("recv", "read") => pc'["send"] = pc["send"]
      BY <3>1 DEF CheckLive
    <3>3. RecvRead => pc'["send"] = pc["send"]
      BY <1>t DEF RecvRead, Goto
    <3>6. RecvData \/ RecvEnd \/ RecvError => pc'["send"] = pc["send"]
      BY <3>1 DEF RecvData, RecvEnd, RecvError
    <3>4. RecvFrame => pc'["send"] = pc["send"]
      BY DEF RecvFrame
    <3>5. RecvNoFrame \/ Disconnect \/ DisconnectClose => pc'["send"] = pc["send"]
      BY <3>1 DEF RecvNoFrame, Disconnect, DisconnectClose
    <3> QED
      BY <1>4, <3>2, <3>3, <3>4, <3>5, <3>6 DEF Recv
  <2> QED
    BY <1>1, <2>1, <2>2
<1>5. CASE Environment
  <2>1. CASE ComponentPush
    <3>1. /\ pushed' = pushed + 1 /\ sendMessage' = Append(sendMessage, pushed + 1)
          /\ UNCHANGED <<pc, written, sending>>
      BY <2>1 DEF ComponentPush, PushSendMessage, locals
    <3>2. Len(sendMessage') = Len(sendMessage) + 1
      BY <1>t, <3>1
    <3>3. \A l, m, p \in Nat : /\ p = l + m => p + 1 = l + (m + 1)
                               /\ p = l + 1 + m => p + 1 = l + 1 + (m + 1)
      OBVIOUS
    <3>4. pc["send"] # "write" => pushed' = Len(written) + Len(sendMessage')
      BY <1>t, <1>i, <3>1, <3>2, <3>3
    <3>5. pc["send"] = "write" => pushed' = Len(written) + 1 + Len(sendMessage')
      BY <1>t, <1>i, <3>1, <3>2, <3>3
    <3> QED
      BY <1>i, <3>1, <3>4, <3>5 DEF InSequence
  <2>2. CASE ~ComponentPush
    <3>1. UNCHANGED <<written, pushed, sendMessage, sending, pc>>
      BY <1>5, <2>2 DEF Environment, MatchPop, OtherOpen, OtherClose, ServerSend,
                        ServerClose, NetworkReset, ServerStop, ServerStart,
                        history, queues, locals
    <3> QED
      BY <1>1, <3>1
  <2> QED
    BY <2>1, <2>2
<1>6. CASE UNCHANGED vars
  BY <1>1, <1>6 DEF vars, history, queues, locals
<1> QED
  BY <1>2, <1>3, <1>4, <1>5, <1>6 DEF Next

LEMMA ReliableDelivers ==
  ASSUME TypeOK, BeforeFirst, Framed, OneConnection, Reliable, RecvFrame
  PROVE  LinkOf!Deliver
<1> DEFINE b == messageBuffers
           n == Len(Delivered)
<1>1. /\ b \in Seq(Tokens) /\ Len(b) \in Nat /\ n \in Nat
      /\ inbound \in [Conns -> Seq(Tokens)] /\ asked \in Nat
  BY FramingTypes
<1>2. conns = 1
  BY DEF RecvFrame, At, Reliable, BeforeFirst, InConnect
<1>3. /\ File(clientSocket) = 1 /\ state[1] = "est" /\ 1 \in Conns
  BY <1>2, BoundsAssumption DEF Reliable, TypeOK, Conns
<1>4. Referenced(1)
  BY <1>3 DEF File, Free, Referenced
<1>5. FramesWhole(b)
  BY DEF Framed, StreamInv, StreamOK
<1>6. PICK k \in 1 .. Len(b), packet \in Requests \cup {Garbage} :
        /\ EndsAt(k, b) /\ Taken(packet, k, b)
        /\ \A p \in 1 .. k - 1 : ~EndsAt(p, b)
        /\ Delivered' = Append(Delivered, packet)
  BY <1>5, FramePicked
<1>7. \A i \in 1 .. Len(b) :
        b[i] = FrameToken(6 * n + i) \/ (i = Len(b) /\ b[i] = Noise)
  <2> SUFFICES ASSUME NEW i \in 1 .. Len(messageBuffers)
               PROVE  \/ messageBuffers[i] = FrameToken(6 * Len(Delivered) + i)
                      \/ i = Len(messageBuffers) /\ messageBuffers[i] = Noise
    OBVIOUS
  <2> QED
    BY <1>2 DEF OneConnection
<1>8. Len(Stream(1)) = Len(b) + Len(inbound[1]) /\ Len(inbound[1]) \in Nat
  BY <1>1, <1>3 DEF Stream
<1>9. 6 * n + Len(Stream(1)) = 6 * asked
  BY <1>2, <1>3, <1>4 DEF OneConnection
<1> HIDE DEF b, n
<1>10. k = 6 /\ packet = n + 1
  BY <1>1, <1>6, <1>7, NextRequest
<1>11. n < asked
  BY <1>1, <1>6, <1>8, <1>9, <1>10
<1>12. UNCHANGED <<pushed, written, asked>>
  BY DEF RecvFrame, PushReceiveMessage, history, network
<1> QED
  BY <1>6, <1>10, <1>11, <1>12 DEF LinkOf!Deliver, n

LEMMA ReliableSteps ==
  TypeOK /\ MainFirst /\ BeforeFirst /\ Framed /\ OneConnection /\ Reliable
    /\ InSequence /\ InSequence' /\ [Next]_vars
    => [LinkOf!LinkNext]_(LinkOf!linkVars)
<1> SUFFICES ASSUME TypeOK, MainFirst, BeforeFirst, Framed, OneConnection, Reliable,
                    InSequence, InSequence', [Next]_vars
             PROVE  [LinkOf!LinkNext]_(LinkOf!linkVars)
  OBVIOUS
<1>1. ASSUME UNCHANGED <<pushed, written, asked, dispatched, receiveMessage>>
      PROVE  UNCHANGED LinkOf!linkVars
  BY <1>1 DEF LinkOf!linkVars, Delivered
<1>2. ASSUME NEW t \in Threads, Connect(t)
      PROVE  UNCHANGED LinkOf!linkVars
  BY <1>1, <1>2 DEF Connect, Lock, CloseOld, Socket, ConnectSocket, CheckConnected,
                    queues, network, history
<1>3. CASE Send
  <2>1. CASE SendWrite
    <3>1. /\ pc["send"] = "write" /\ pc' = [pc EXCEPT !["send"] = "live"]
          /\ UNCHANGED <<pushed, asked, dispatched, receiveMessage, sendMessage>>
      BY <2>1 DEF SendWrite, At, Goto, queues
    <3>2. conns = 1
      BY <3>1 DEF Reliable, InConnect
    <3>3. File(clientSocket) = 1 /\ state[1] = "est" /\ 1 \in Conns
      BY <3>2, BoundsAssumption DEF Reliable, TypeOK, Conns
    <3>4. written' = Append(written, sending) /\ sending = Len(written) + 1
      BY <2>1, <3>1, <3>3 DEF SendWrite, InSequence
    <3>5. /\ Len(written) \in Nat /\ Len(sendMessage) \in Nat
          /\ pushed = Len(written) + 1 + Len(sendMessage)
      BY <3>1, SMTT(40) DEF TypeOK, InSequence
    <3>6. Len(written) < pushed
      BY <3>5
    <3>7. Delivered' = Delivered
      BY <3>1 DEF Delivered
    <3> QED
      BY <3>1, <3>4, <3>6, <3>7 DEF LinkOf!Arrive, LinkOf!LinkNext
  <2>2. CASE ~SendWrite
    BY <1>1, <1>3, <2>2 DEF Send, CheckLive, SendPop, SendPopNothing, queues,
                            network, history
  <2> QED
    BY <2>1, <2>2
<1>4. CASE Recv
  <2>1. CASE RecvFrame
    BY <2>1, ReliableDelivers DEF LinkOf!LinkNext
  <2>2. CASE ~RecvFrame
    BY <1>1, <1>4, <2>2 DEF Recv, CheckLive, RecvRead, RecvData, RecvEnd, RecvError,
         RecvNoFrame, Disconnect, DisconnectClose, queues, network, history
  <2> QED
    BY <2>1, <2>2
<1>5. CASE Environment
  <2>1. CASE ComponentPush
    <3>1. /\ pushed' = pushed + 1
          /\ UNCHANGED <<written, asked, dispatched, receiveMessage>>
      BY <2>1 DEF ComponentPush, network
    <3> QED
      BY <3>1 DEF LinkOf!Push, LinkOf!LinkNext, Delivered
  <2>2. CASE MatchPop
    <3>1. UNCHANGED <<pushed, written, asked>>
      BY <2>2 DEF MatchPop, network
    <3>2. Delivered' = Delivered
      BY <2>2, PopKeeps
    <3> QED
      BY <3>1, <3>2 DEF LinkOf!linkVars
  <2>3. CASE ServerSend
    <3>1. /\ asked' = asked + 1
          /\ UNCHANGED <<pushed, written, dispatched, receiveMessage>>
      BY <2>3 DEF ServerSend, queues, history
    <3> QED
      BY <3>1 DEF LinkOf!Ask, LinkOf!LinkNext, Delivered
  <2>4. CASE ~ComponentPush /\ ~MatchPop /\ ~ServerSend
    BY <1>1, <1>5, <2>4 DEF Environment, OtherOpen, OtherClose, ServerClose,
         NetworkReset, ServerStop, ServerStart, queues, network, history
  <2> QED
    BY <2>1, <2>2, <2>3, <2>4
<1>6. CASE UNCHANGED vars
  BY <1>1, <1>6 DEF vars, network, history, queues
<1> QED
  BY <1>2, <1>3, <1>4, <1>5, <1>6 DEF Next

(* What holds while nothing fails. *)
LEMMA ReliableAlways ==
  ASSUME MaxFailures = 0, ~OtherThreads
  PROVE  Spec /\ serverUp => [](Reliable /\ InSequence)
<1> DEFINE Base == TypeOK /\ MainFirst /\ BeforeFirst /\ SendInv
           Rel == Reliable /\ InSequence
<1>1. Spec => []Base
  BY StreamsAlways, InductiveInvariant, PTL DEF IInv
<1>2. Init /\ serverUp => Rel
  BY ReliableInit
<1>3. Base /\ Rel /\ [Next]_vars => Rel'
  BY ReliableNext, InSequenceNext
<1> HIDE DEF Base, Rel
<1>4. Spec /\ serverUp => []Rel
  BY <1>1, <1>2, <1>3, PTL DEF Spec
<1> QED
  BY <1>4, PTL DEF Rel

(* While nothing fails, every step of the two threads, of the server and   *)
(* of the rest of the agent is a step of the reliable link, or none of it: *)
(* for any number of messages, requests and descriptors, wherever read     *)
(* cuts the stream (CMessage.cpp:13-51, CCommunication.cpp:57-144).        *)
THEOREM StepsOfLink ==
  ASSUME MaxFailures = 0, ~OtherThreads
  PROVE  Spec /\ serverUp
           => LinkOf!LinkInit /\ [][LinkOf!LinkNext]_(LinkOf!linkVars)
<1> DEFINE Base == TypeOK /\ MainFirst /\ BeforeFirst /\ Framed /\ OneConnection
           Rel == Reliable /\ InSequence
<1>1. Spec => []Base
  BY StreamsAlways, InductiveInvariant, PTL
<1>2. Spec /\ serverUp => []Rel
  BY ReliableAlways
<1>3. Base /\ Rel /\ Rel' /\ [Next]_vars => [LinkOf!LinkNext]_(LinkOf!linkVars)
  BY ReliableSteps
<1>4. Init => LinkOf!LinkInit
  BY DEF Init, InitQueues, LinkOf!LinkInit, Delivered
<1> HIDE DEF Base, Rel
<1> QED
  BY <1>1, <1>2, <1>3, <1>4, PTL DEF Spec
=============================================================================
