--------------------------- MODULE FramingProofs ---------------------------
(***************************************************************************)
(* The stream of bytes under WrappedSocket: its types, that the bytes of   *)
(* two messages never mix, and that it is a queue of whole messages.       *)
(***************************************************************************)
EXTENDS Framing, FoldTheorems

-----------------------------------------------------------------------------
(* What holds of the bytes and of the writers in every state.              *)

AnyByte == {b \in [of : Msg, at : Nat] : b.at \in 1..Size[b.of]}

(* Every byte is followed by the next one of its message, the last one by the *)
(* first of another. *)
Flows(B) ==
  /\ B # <<>> => B[1].at = 1
  /\ \A i \in 1..(Len(B) - 1) :
       IF B[i].at < Size[B[i].of] THEN B[i + 1] = Byte(B[i].of, B[i].at + 1)
                                  ELSE B[i + 1].at = 1

Unfinished(B) == B # <<>> /\ B[Len(B)].at < Size[B[Len(B)].of]

(* The beginning of a message, or nothing yet. *)
Fragment(f) ==
  f # <<>> => \E m \in Msg : Len(f) < Size[m] /\ \A i \in 1..Len(f) : f[i] = Byte(m, i)

Midway(s) == written[s] > 0 /\ written[s] < Size[msg[s]]

Stream == frame \o pipe

BytesFollow ==
  /\ pipe \in Seq(AnyByte) /\ frame \in Seq(AnyByte)
  /\ Fragment(frame) /\ Flows(Stream) /\ reader # "torn"
  /\ Closed => frame = <<>> /\ pipe = <<>>

(* Only the holder of the lock has written bytes of its message. *)
OneWriter ==
  /\ written \in [Sender -> Nat]
  /\ \A s, t \in write_mutex : s = t
  /\ \A s \in Sender : written[s] > 0 => s \in write_mutex

(* The stream ends in the middle of a message while its sender is there, and  *)
(* goes on from where it is. *)
EndIsWritten ==
  ~Closed =>
    /\ \A s \in Sender :
         Midway(s) => alive /\ Unfinished(Stream) /\ Stream[Len(Stream)] = Byte(msg[s], written[s])
    /\ alive /\ Unfinished(Stream) => \E s \in Sender : Midway(s)

FrameInv == FrameTypeOK /\ BytesFollow /\ OneWriter /\ EndIsWritten

-----------------------------------------------------------------------------
(* The marked bytes of a sequence.                                         *)

Places == [Msg -> Nat]

LEMMA PlacesAre == AtFirst \in Places /\ AtLast \in Places
BY FramingAssumption DEF AtFirst, AtLast, Places

LEMMA ByteIs == \A b \in AnyByte : b.of \in Msg /\ b.at \in 1..Size[b.of] /\ Size[b.of] \in Nat \ {0}
                                   /\ b.at \in Nat /\ b = Byte(b.of, b.at)
BY FramingAssumption DEF AnyByte, Byte

MarkStep(place) ==
  [p \in Seq(Msg) \X AnyByte |-> IF p[2].at = place[p[2].of] THEN Append(p[1], p[2].of) ELSE p[1]]

LEMMA MarkStepType == ASSUME NEW place PROVE MarkStep(place) \in [Seq(Msg) \X AnyByte -> Seq(Msg)]
<1>1. ASSUME NEW q \in Seq(Msg), NEW b \in AnyByte
      PROVE  (IF b.at = place[b.of] THEN Append(q, b.of) ELSE q) \in Seq(Msg)
  <2>1. b.of \in Msg
    BY ByteIs
  <2>2. Append(q, b.of) \in Seq(Msg)
    BY <2>1, AppendProperties
  <2> QED BY <2>2
<1> QED BY <1>1 DEF MarkStep

LEMMA MarksIterates ==
  ASSUME NEW place, NEW s \in Seq(AnyByte)
  PROVE  \E g : IterationTo(Marks(s, place), g, s, Seq(Msg), <<>>, MarkStep(place))
<1> DEFINE step == MarkStep(place)
           D == DOMAIN s
           Is(f) == f = [T \in SUBSET D |->
                          IF T = {} THEN <<>>
                          ELSE IF s[Max(T)].at = place[s[Max(T)].of]
                               THEN Append(f[T \ {Max(T)}], s[Max(T)].of)
                               ELSE f[T \ {Max(T)}]]
           h == CHOOSE f : Is(f)
<1>1. step \in [Seq(Msg) \X AnyByte -> Seq(Msg)]
  BY MarkStepType
<1>2. Len(s) \in Nat /\ D = 1..Len(s) /\ \A i \in D : s[i] \in AnyByte
  BY LenProperties, ElementOfSeq
<1>3. \A q \in Seq(Msg), i \in D :
        step[<<q, s[i]>>] = IF s[i].at = place[s[i].of] THEN Append(q, s[i].of) ELSE q
  BY <1>2 DEF MarkStep
<1> HIDE DEF step
<1>4. PICK f \in [SUBSET D -> Seq(Msg)] : LeftFolds(f, s, <<>>, step)
  <2>1. <<>> \in Seq(Msg)
    OBVIOUS
  <2>2. \E f \in [SUBSET DOMAIN s -> Seq(Msg)] : LeftFolds(f, s, <<>>, step)
    BY <1>1, <2>1, SequenceFoldExists
  <2> QED BY <2>2
<1>5. Is(f)
  <2>1. \A T \in SUBSET D : T # {} => Max(T) \in T
    BY <1>2, MaxOfSome
  <2>2. ASSUME NEW T \in SUBSET D
        PROVE  f[T] = IF T = {} THEN <<>>
                      ELSE IF s[Max(T)].at = place[s[Max(T)].of]
                           THEN Append(f[T \ {Max(T)}], s[Max(T)].of) ELSE f[T \ {Max(T)}]
    BY <1>3, <1>4, <2>1 DEF LeftFolds
  <2> QED BY <2>2
<1>6. Is(h)
  BY <1>5
<1>7. Marks(s, place) = h[D]
  BY DEF Marks, FoldLeft, MapThenFoldSet
<1> HIDE DEF h
<1>a. \A T \in SUBSET D :
        h[T] = IF T = {} THEN <<>>
               ELSE IF s[Max(T)].at = place[s[Max(T)].of]
                    THEN Append(h[T \ {Max(T)}], s[Max(T)].of) ELSE h[T \ {Max(T)}]
  BY <1>6
<1>8. StepsAlong(h, s, Seq(Msg), <<>>, step)
  <2>1. h[{}] = <<>>
    <3>1. {} \in SUBSET D
      OBVIOUS
    <3> QED BY <1>a, <3>1
  <2>2. ASSUME NEW i \in 1..Len(s), h[1..(i - 1)] \in Seq(Msg)
        PROVE  h[1..i] = step[<<h[1..(i - 1)], s[i]>>]
    <3>1. i \in D /\ i \in 1..i /\ 1..i \in SUBSET D /\ i \in Nat \ {0}
      BY <1>2
    <3>2. 1..i # {} /\ Max(1..i) = i /\ (1..i) \ {i} = 1..(i - 1)
      BY <3>1, MaxUpTo
    <3>3. h[1..i] = IF s[i].at = place[s[i].of] THEN Append(h[1..(i - 1)], s[i].of) ELSE h[1..(i - 1)]
      BY <1>a, <3>1, <3>2
    <3> QED BY <1>3, <2>2, <3>1, <3>3
  <2> QED BY <2>1, <2>2 DEF StepsAlong
<1>9. <<>> \in Seq(Msg)
  OBVIOUS
<1>10. \E g : IterationTo(h[DOMAIN s], g, s, Seq(Msg), <<>>, step)
  BY <1>1, <1>8, <1>9, BeginningsFold
<1> QED BY <1>7, <1>10 DEF step

LEMMA MarksType ==
  ASSUME NEW place, NEW s \in Seq(AnyByte) PROVE Marks(s, place) \in Seq(Msg)
BY MarksIterates, LenProperties DEF IterationTo

LEMMA MarksOfNone == ASSUME NEW place PROVE Marks(<<>>, place) = <<>>
<1>1. <<>> \in Seq(AnyByte) /\ Len(<<>>) = 0
  OBVIOUS
<1>2. PICK g : IterationTo(Marks(<<>>, place), g, <<>>, Seq(Msg), <<>>, MarkStep(place))
  BY <1>1, MarksIterates
<1> QED BY <1>1, <1>2 DEF IterationTo, Iterates

LEMMA MarksAppended ==
  ASSUME NEW place, NEW s \in Seq(AnyByte), NEW b \in AnyByte
  PROVE  Marks(Append(s, b), place)
           = IF b.at = place[b.of] THEN Append(Marks(s, place), b.of) ELSE Marks(s, place)
<1>1. Append(s, b) \in Seq(AnyByte)
  BY AppendProperties
<1>2. PICK f : IterationTo(Marks(s, place), f, s, Seq(Msg), <<>>, MarkStep(place))
  BY MarksIterates
<1>3. PICK g : IterationTo(Marks(Append(s, b), place), g, Append(s, b), Seq(Msg), <<>>, MarkStep(place))
  BY <1>1, MarksIterates
<1> DEFINE q == Marks(s, place)
<1>4. q \in Seq(Msg) /\ Marks(Append(s, b), place) = MarkStep(place)[<<q, b>>]
  BY <1>2, <1>3, IterationAppended
<1> HIDE DEF q
<1>5. MarkStep(place)[<<q, b>>] = IF b.at = place[b.of] THEN Append(q, b.of) ELSE q
  BY <1>4 DEF MarkStep
<1> QED BY <1>4, <1>5 DEF q

LEMMA MarksConcatenated ==
  ASSUME NEW place, NEW s \in Seq(AnyByte), NEW t \in Seq(AnyByte)
  PROVE  Marks(s \o t, place) = Marks(s, place) \o Marks(t, place)
<1> DEFINE Splits(u) == Marks(s \o u, place) = Marks(s, place) \o Marks(u, place)
           T == {u \in Seq(AnyByte) : Splits(u)}
<1>0. Marks(s, place) \in Seq(Msg)
  BY MarksType
<1>1. <<>> \in T
  <2> DEFINE q == Marks(s, place)
  <2>1. s \o <<>> = s
    BY ConcatEmptySeq
  <2>2. q \o <<>> = q
    <3> HIDE DEF q
    <3> QED BY <1>0, ConcatEmptySeq DEF q
  <2>3. Splits(<<>>)
    BY <2>1, <2>2, MarksOfNone
  <2> HIDE DEF Splits
  <2> QED BY <2>3
<1>2. ASSUME NEW u \in Seq(AnyByte), NEW b \in AnyByte, Splits(u) PROVE Splits(Append(u, b))
  <2> DEFINE v == s \o u
             q == Marks(u, place)
  <2>1. v \in Seq(AnyByte) /\ s \o Append(u, b) = Append(v, b)
    <3>1. v \in Seq(AnyByte) /\ <<b>> \in Seq(AnyByte)
      BY ConcatProperties
    <3>2. Append(u, b) = u \o <<b>> /\ Append(v, b) = v \o <<b>>
      BY <3>1, AppendIsConcat
    <3>3. v \o <<b>> = s \o (u \o <<b>>)
      BY <3>1, ConcatAssociative
    <3> QED BY <3>1, <3>2, <3>3
  <2>2. q \in Seq(Msg) /\ b.of \in Msg
    BY MarksType, ByteIs
  <2>3. Marks(s, place) \o Append(q, b.of) = Append(Marks(s, place) \o q, b.of)
    <3> DEFINE p == Marks(s, place)
               x == b.of
    <3>1. p \in Seq(Msg) /\ x \in Msg /\ <<x>> \in Seq(Msg) /\ p \o q \in Seq(Msg)
      BY <1>0, <2>2, ConcatProperties
    <3> HIDE DEF p, q, x
    <3>2. Append(q, x) = q \o <<x>> /\ Append(p \o q, x) = (p \o q) \o <<x>>
      BY <2>2, <3>1, AppendIsConcat
    <3>3. (p \o q) \o <<x>> = p \o (q \o <<x>>)
      BY <2>2, <3>1, ConcatAssociative
    <3>4. p \o Append(q, x) = Append(p \o q, x)
      BY <3>2, <3>3
    <3> QED BY <3>4 DEF p, x
  <2>4. Marks(Append(u, b), place) = IF b.at = place[b.of] THEN Append(q, b.of) ELSE q
    BY MarksAppended
  <2>5. Marks(Append(v, b), place)
          = IF b.at = place[b.of] THEN Append(Marks(v, place), b.of) ELSE Marks(v, place)
    BY <2>1, MarksAppended
  <2>6. Marks(v, place) = Marks(s, place) \o q
    BY <1>2
  <2>7. Marks(s \o Append(u, b), place) = Marks(Append(v, b), place)
    BY <2>1
  <2> HIDE DEF v, q
  <2> QED BY <2>3, <2>4, <2>5, <2>6, <2>7
<1>3. Seq(AnyByte) \subseteq T
  <2>1. \A u \in Seq(AnyByte), b \in AnyByte : u \in T => Append(u, b) \in T
    <3> SUFFICES ASSUME NEW u \in Seq(AnyByte), NEW b \in AnyByte, u \in T PROVE Append(u, b) \in T
      OBVIOUS
    <3>1. Append(u, b) \in Seq(AnyByte) /\ Splits(Append(u, b))
      BY <1>2, AppendProperties
    <3> QED BY <3>1
  <2> HIDE DEF T
  <2> QED BY <1>1, <2>1, SequenceInduction
<1> QED BY <1>3

(* The bytes that a place marks. *)
Marked(s, place, i) == s[i].at = place[s[i].of]

LEMMA FewMarks ==
  ASSUME NEW place, NEW s \in Seq(AnyByte)
  PROVE  /\ (\A i \in 1..Len(s) : ~Marked(s, place, i)) => Marks(s, place) = <<>>
         /\ \A k \in 1..Len(s) :
              (\A i \in 1..Len(s) : Marked(s, place, i) <=> i = k) => Marks(s, place) = <<s[k].of>>
<1> DEFINE None(u) == (\A i \in 1..Len(u) : ~Marked(u, place, i)) => Marks(u, place) = <<>>
           One(u)  == \A k \in 1..Len(u) :
                        (\A i \in 1..Len(u) : Marked(u, place, i) <=> i = k) => Marks(u, place) = <<u[k].of>>
           T == {u \in Seq(AnyByte) : None(u) /\ One(u)}
<1>1. <<>> \in T
  BY MarksOfNone
<1>2. ASSUME NEW u \in Seq(AnyByte), NEW b \in AnyByte, None(u), One(u)
      PROVE  None(Append(u, b)) /\ One(Append(u, b))
  <2> DEFINE v == Append(u, b)
             n == Len(u)
  <2>1. /\ n \in Nat /\ v \in Seq(AnyByte) /\ Len(v) = n + 1 /\ v[n + 1] = b
        /\ \A i \in 1..n : v[i] = u[i]
    BY AppendProperties, LenProperties
  <2>2. Marks(v, place) = IF b.at = place[b.of] THEN Append(Marks(u, place), b.of) ELSE Marks(u, place)
    BY MarksAppended
  <2>3. Len(u) = n
    OBVIOUS
  <2> HIDE DEF v, n
  <2>4. \A i \in 1..n : i \in 1..(n + 1) /\ (Marked(v, place, i) <=> Marked(u, place, i))
    BY <2>1 DEF Marked
  <2>5. n + 1 \in 1..(n + 1) /\ (Marked(v, place, n + 1) <=> b.at = place[b.of])
    BY <2>1 DEF Marked
  <2>6. None(v)
    <3> SUFFICES ASSUME \A i \in 1..Len(v) : ~Marked(v, place, i) PROVE Marks(v, place) = <<>>
      OBVIOUS
    <3>1. ~(b.at = place[b.of]) /\ \A i \in 1..Len(u) : ~Marked(u, place, i)
      BY <2>1, <2>3, <2>4, <2>5
    <3> QED BY <1>2, <2>2, <3>1
  <2>7. One(v)
    <3> SUFFICES ASSUME NEW k \in 1..Len(v), \A i \in 1..Len(v) : Marked(v, place, i) <=> i = k
                 PROVE  Marks(v, place) = <<v[k].of>>
      OBVIOUS
    <3>1. CASE k = n + 1
      <4>1. b.at = place[b.of] /\ v[k] = b
        BY <2>1, <2>5, <3>1
      <4>2. \A i \in 1..n : ~Marked(u, place, i)
        BY <2>1, <2>4, <3>1
      <4>3. Marks(u, place) = <<>>
        BY <1>2, <2>3, <4>2
      <4> QED BY <2>2, <4>1, <4>3
    <3>2. CASE k # n + 1
      <4>1. k \in 1..n /\ ~(b.at = place[b.of]) /\ v[k] = u[k]
        BY <2>1, <2>5, <3>2
      <4>2. \A i \in 1..n : Marked(u, place, i) <=> i = k
        BY <2>1, <2>4
      <4>3. Marks(u, place) = <<u[k].of>>
        BY <1>2, <2>3, <4>1, <4>2
      <4> QED BY <2>2, <4>1, <4>3
    <3> QED BY <3>1, <3>2
  <2> QED BY <2>6, <2>7 DEF v
<1>3. Seq(AnyByte) \subseteq T
  <2>1. \A u \in Seq(AnyByte), b \in AnyByte : u \in T => Append(u, b) \in T
    <3> SUFFICES ASSUME NEW u \in Seq(AnyByte), NEW b \in AnyByte, u \in T PROVE Append(u, b) \in T
      OBVIOUS
    <3>1. None(u) /\ One(u)
      OBVIOUS
    <3> HIDE DEF None, One
    <3>2. Append(u, b) \in Seq(AnyByte) /\ None(Append(u, b)) /\ One(Append(u, b))
      BY <1>2, <3>1, AppendProperties
    <3> QED BY <3>2
  <2> HIDE DEF T
  <2> QED BY <1>1, <2>1, SequenceInduction
<1> QED BY <1>3

-----------------------------------------------------------------------------
(* The bytes of a stream follow each other.                                *)

LEMMA FlowsAppended ==
  ASSUME NEW B \in Seq(AnyByte), NEW b \in AnyByte, Flows(Append(B, b))
  PROVE  /\ Flows(B)
         /\ IF Unfinished(B) THEN b = Byte(B[Len(B)].of, B[Len(B)].at + 1) ELSE b.at = 1
<1> DEFINE C == Append(B, b)
           n == Len(B)
<1>1. /\ n \in Nat /\ Len(C) = n + 1 /\ C[n + 1] = b /\ \A i \in 1..n : C[i] = B[i]
      /\ C # <<>> /\ (B # <<>> => n # 0)
  BY AppendProperties, LenProperties, EmptySeq
<1>2. Len(B) = n
  OBVIOUS
<1>3. Flows(C)
  OBVIOUS
<1> HIDE DEF C, n
<1>4. C[1].at = 1
  BY <1>1, <1>3 DEF Flows
<1>5. \A i \in 1..n : IF B[i].at < Size[B[i].of] THEN C[i + 1] = Byte(B[i].of, B[i].at + 1)
                                                 ELSE C[i + 1].at = 1
  <2> SUFFICES ASSUME NEW i \in 1..n
               PROVE  IF B[i].at < Size[B[i].of] THEN C[i + 1] = Byte(B[i].of, B[i].at + 1)
                                                 ELSE C[i + 1].at = 1
    OBVIOUS
  <2>1. i \in 1..(Len(C) - 1) /\ C[i] = B[i]
    BY <1>1
  <2> QED BY <1>3, <2>1 DEF Flows
<1>6. Flows(B)
  <2>1. \A i \in 1..(n - 1) : i \in 1..n /\ C[i + 1] = B[i + 1]
    BY <1>1
  <2>2. B # <<>> => B[1].at = 1
    BY <1>1, <1>4
  <2> QED BY <1>2, <1>5, <2>1, <2>2 DEF Flows
<1>7. CASE Unfinished(B)
  <2>1. n \in 1..n /\ B[n].at < Size[B[n].of]
    BY <1>1, <1>2, <1>7 DEF Unfinished
  <2> QED BY <1>1, <1>2, <1>5, <1>6, <1>7, <2>1
<1>8. CASE ~Unfinished(B)
  <2>1. CASE B = <<>>
    <3>1. Len(B) = 0
      BY <2>1
    <3> QED BY <1>1, <1>2, <1>4, <1>6, <1>8, <3>1
  <2>2. CASE B # <<>>
    <3>1. n \in 1..n /\ ~(B[n].at < Size[B[n].of])
      BY <1>1, <1>2, <1>8, <2>2 DEF Unfinished
    <3> QED BY <1>1, <1>2, <1>5, <1>6, <1>8, <3>1
  <2> QED BY <2>1, <2>2
<1> QED BY <1>7, <1>8

(* What is begun is what is whole and, at the end, what is unfinished. *)
LEMMA BegunOrWhole ==
  ASSUME NEW B \in Seq(AnyByte), Flows(B)
  PROVE  Marks(B, AtFirst) = IF Unfinished(B) THEN Append(Marks(B, AtLast), B[Len(B)].of)
                                              ELSE Marks(B, AtLast)
<1> DEFINE Begun(C) ==
             Flows(C) => Marks(C, AtFirst) = IF Unfinished(C) THEN Append(Marks(C, AtLast), C[Len(C)].of)
                                                              ELSE Marks(C, AtLast)
           T == {C \in Seq(AnyByte) : Begun(C)}
<1>1. <<>> \in T
  BY MarksOfNone DEF Unfinished
<1>2. ASSUME NEW C \in Seq(AnyByte), NEW b \in AnyByte, Begun(C) PROVE Begun(Append(C, b))
  <2> SUFFICES ASSUME Flows(Append(C, b))
               PROVE  Marks(Append(C, b), AtFirst)
                        = IF Unfinished(Append(C, b))
                          THEN Append(Marks(Append(C, b), AtLast), Append(C, b)[Len(Append(C, b))].of)
                          ELSE Marks(Append(C, b), AtLast)
    OBVIOUS
  <2> DEFINE D == Append(C, b)
             c == C[Len(C)]
  <2>1. D # <<>> /\ D[Len(D)] = b
    BY AppendProperties, LenProperties
  <2>2. Flows(C) /\ IF Unfinished(C) THEN b = Byte(c.of, c.at + 1) ELSE b.at = 1
    BY FlowsAppended
  <2>3. Marks(C, AtFirst) = IF Unfinished(C) THEN Append(Marks(C, AtLast), c.of) ELSE Marks(C, AtLast)
    BY <1>2, <2>2
  <2>4. /\ b.of \in Msg /\ b.at \in 1..Size[b.of] /\ Size[b.of] \in Nat \ {0}
        /\ AtFirst[b.of] = 1 /\ AtLast[b.of] = Size[b.of]
    BY ByteIs DEF AtFirst, AtLast
  <2>5. Marks(D, AtFirst) = IF b.at = 1 THEN Append(Marks(C, AtFirst), b.of) ELSE Marks(C, AtFirst)
    BY <2>4, MarksAppended
  <2>6. Marks(D, AtLast) = IF b.at = Size[b.of] THEN Append(Marks(C, AtLast), b.of) ELSE Marks(C, AtLast)
    BY <2>4, MarksAppended
  <2>7. Unfinished(D) <=> b.at < Size[b.of]
    BY <2>1 DEF Unfinished
  <2>8. CASE Unfinished(C)
    <3>1. c \in AnyByte
      <4>1. C # <<>>
        BY <2>8 DEF Unfinished
      <4>2. Len(C) \in 1..Len(C)
        BY <4>1, EmptySeq
      <4> QED BY <4>2, ElementOfSeq
    <3>2. c.at \in Nat \ {0} /\ b.of = c.of /\ b.at = c.at + 1
      BY <2>2, <2>8, <3>1, ByteIs DEF Byte
    <3>3. b.at # 1
      BY <3>2
    <3> HIDE DEF D, c
    <3>4. Marks(D, AtFirst) = Append(Marks(C, AtLast), b.of)
      BY <2>3, <2>5, <2>8, <3>2, <3>3
    <3> QED BY <2>1, <2>4, <2>6, <2>7, <3>4 DEF D
  <2>9. CASE ~Unfinished(C)
    <3> HIDE DEF D, c
    <3>1. Marks(D, AtFirst) = Append(Marks(C, AtLast), b.of)
      BY <2>2, <2>3, <2>5, <2>9
    <3> QED BY <2>1, <2>4, <2>6, <2>7, <3>1 DEF D
  <2> QED BY <2>8, <2>9
<1>3. Seq(AnyByte) \subseteq T
  <2>1. \A C \in Seq(AnyByte), b \in AnyByte : C \in T => Append(C, b) \in T
    <3> SUFFICES ASSUME NEW C \in Seq(AnyByte), NEW b \in AnyByte, C \in T PROVE Append(C, b) \in T
      OBVIOUS
    <3>1. Begun(C)
      OBVIOUS
    <3> HIDE DEF Begun
    <3>2. Append(C, b) \in Seq(AnyByte) /\ Begun(Append(C, b))
      BY <1>2, <3>1, AppendProperties
    <3> QED BY <3>2
  <2> HIDE DEF T
  <2> QED BY <1>1, <2>1, SequenceInduction
<1>4. B \in T
  BY <1>3
<1> QED BY <1>4

(* The bytes of a message, and some of them in a row. *)
Part(m, w, n) == SubSeq(Bytes(m), w + 1, w + n)

LEMMA BytesAre ==
  ASSUME NEW m \in Msg
  PROVE  /\ Bytes(m) \in Seq(AnyByte) /\ Len(Bytes(m)) = Size[m] /\ Size[m] \in Nat \ {0}
         /\ \A i \in 1..Size[m] : Bytes(m)[i] = Byte(m, i) /\ Byte(m, i) \in AnyByte
<1>1. Size[m] \in Nat \ {0}
  BY FramingAssumption
<1>2. \A i \in 1..Size[m] : Byte(m, i) \in AnyByte
  BY <1>1 DEF Byte, AnyByte
<1>3. Bytes(m) \in [1..Size[m] -> AnyByte]
  BY <1>2 DEF Bytes
<1> QED BY <1>1, <1>2, <1>3 DEF Bytes

LEMMA PartIs ==
  ASSUME NEW m \in Msg, NEW w \in Nat, NEW n \in Nat, w + n <= Size[m]
  PROVE  /\ Part(m, w, n) \in Seq(AnyByte) /\ Len(Part(m, w, n)) = n
         /\ \A i \in 1..n : Part(m, w, n)[i] = Byte(m, w + i)
<1> DEFINE s == Bytes(m)
           a == w + 1
           b == w + n
<1>1. s \in Seq(AnyByte) /\ Size[m] \in Nat /\ \A i \in 1..Size[m] : s[i] = Byte(m, i) /\ s[i] \in AnyByte
  BY BytesAre
<1>2. a \in Int /\ b \in Int /\ \A i \in a..b : s[i] \in AnyByte
  BY <1>1
<1> HIDE DEF s, a, b
<1>3. /\ SubSeq(s, a, b) \in Seq(AnyByte) /\ Len(SubSeq(s, a, b)) = IF a <= b THEN b - a + 1 ELSE 0
      /\ \A i \in 1..(b - a + 1) : SubSeq(s, a, b)[i] = s[a + i - 1]
  BY <1>2, SubSeqProperties
<1>4. Part(m, w, n) = SubSeq(s, a, b)
  BY DEF Part, s, a, b
<1>5. b - a + 1 = n /\ (IF a <= b THEN b - a + 1 ELSE 0) = n
  BY DEF a, b
<1>6. ASSUME NEW i \in 1..n PROVE Part(m, w, n)[i] = Byte(m, w + i)
  <2>1. a + i - 1 = w + i /\ w + i \in 1..Size[m]
    BY <1>1 DEF a
  <2> QED BY <1>1, <1>3, <1>4, <1>5, <2>1
<1> QED BY <1>3, <1>4, <1>5, <1>6

(* What a part of a message adds to the messages begun. *)
LEMMA PartBegins ==
  ASSUME NEW m \in Msg, NEW w \in Nat, NEW n \in Nat \ {0}, w + n <= Size[m]
  PROVE  Marks(Part(m, w, n), AtFirst) = IF w = 0 THEN <<m>> ELSE <<>>
<1> DEFINE s == Part(m, w, n)
<1>1. s \in Seq(AnyByte) /\ Len(s) = n /\ \A i \in 1..n : s[i] = Byte(m, w + i)
  BY PartIs
<1> HIDE DEF s
<1>2. ASSUME NEW i \in 1..n PROVE Marked(s, AtFirst, i) <=> w = 0 /\ i = 1
  <2>1. s[i].of = m /\ s[i].at = w + i /\ AtFirst[m] = 1
    BY <1>1 DEF Byte, AtFirst
  <2> QED BY <2>1 DEF Marked
<1>3. CASE w = 0
  <2>1. 1 \in 1..Len(s) /\ s[1].of = m
    BY <1>1 DEF Byte
  <2>2. \A i \in 1..Len(s) : Marked(s, AtFirst, i) <=> i = 1
    BY <1>1, <1>2, <1>3
  <2> QED BY <1>1, <1>3, <2>1, <2>2, FewMarks DEF s
<1>4. CASE w # 0
  <2>1. \A i \in 1..Len(s) : ~Marked(s, AtFirst, i)
    BY <1>1, <1>2, <1>4
  <2> QED BY <1>1, <1>4, <2>1, FewMarks DEF s
<1> QED BY <1>3, <1>4

(* A message marks itself, whichever of its bytes counts. *)
LEMMA MessageMarks ==
  ASSUME NEW m \in Msg
  PROVE  Marks(Bytes(m), AtFirst) = <<m>> /\ Marks(Bytes(m), AtLast) = <<m>>
<1> DEFINE s == Bytes(m)
<1>1. /\ s \in Seq(AnyByte) /\ Len(s) = Size[m] /\ Size[m] \in Nat \ {0}
      /\ \A i \in 1..Size[m] : s[i] = Byte(m, i)
  BY BytesAre
<1> HIDE DEF s
<1>2. ASSUME NEW i \in 1..Size[m] PROVE s[i].of = m /\ s[i].at = i
  <2>1. s[i] = Byte(m, i)
    BY <1>1
  <2> QED BY <2>1 DEF Byte
<1>3. AtFirst[m] = 1 /\ AtLast[m] = Size[m] /\ 1 \in 1..Len(s) /\ Size[m] \in 1..Len(s)
  BY <1>1 DEF AtFirst, AtLast
<1>4. \A i \in 1..Len(s) : (Marked(s, AtFirst, i) <=> i = 1) /\ (Marked(s, AtLast, i) <=> i = Size[m])
  BY <1>1, <1>2, <1>3 DEF Marked
<1>5. Marks(s, AtFirst) = <<s[1].of>>
  BY <1>1, <1>3, <1>4, FewMarks
<1>6. Marks(s, AtLast) = <<s[Size[m]].of>>
  BY <1>1, <1>3, <1>4, FewMarks
<1> QED BY <1>1, <1>2, <1>3, <1>5, <1>6 DEF s

(* The stream goes on with a part of a message. *)
GoesOn(B, m, w) == IF w = 0 THEN ~Unfinished(B) ELSE Unfinished(B) /\ B[Len(B)] = Byte(m, w)

LEMMA FlowsWithPart ==
  ASSUME NEW B \in Seq(AnyByte), Flows(B), NEW m \in Msg, NEW w \in Nat, NEW n \in Nat \ {0},
         w + n <= Size[m], GoesOn(B, m, w)
  PROVE  /\ B \o Part(m, w, n) \in Seq(AnyByte) /\ Flows(B \o Part(m, w, n))
         /\ B \o Part(m, w, n) # <<>>
         /\ (B \o Part(m, w, n))[Len(B \o Part(m, w, n))] = Byte(m, w + n)
<1> DEFINE s == Part(m, w, n)
           C == B \o s
           l == Len(B)
<1>1. s \in Seq(AnyByte) /\ Len(s) = n /\ \A i \in 1..n : s[i] = Byte(m, w + i)
  BY PartIs
<1>2. l \in Nat /\ Len(B) = l
  BY LenProperties
<1>s. Size[m] \in Nat
  BY BytesAre
<1> HIDE DEF s, l
<1>3. C \in Seq(AnyByte) /\ Len(C) = l + n /\ \A i \in 1..(l + n) : C[i] = IF i <= l THEN B[i] ELSE s[i - l]
  BY <1>1, <1>2, ConcatProperties
<1>4. C # <<>>
  BY <1>2, <1>3
<1> HIDE DEF C
<1>5. \A i \in (l + 1)..(l + n) : C[i] = Byte(m, w + (i - l))
  <2> SUFFICES ASSUME NEW i \in (l + 1)..(l + n) PROVE C[i] = Byte(m, w + (i - l))
    OBVIOUS
  <2>1. i \in 1..(l + n) /\ ~(i <= l) /\ i - l \in 1..n
    BY <1>2
  <2> QED BY <1>1, <1>3, <2>1
<1>6. \A i \in 1..l : C[i] = B[i]
  BY <1>2, <1>3
<1>7. C[l + n] = Byte(m, w + n)
  <2>1. l + n \in (l + 1)..(l + n) /\ w + ((l + n) - l) = w + n
    BY <1>2
  <2> QED BY <1>5, <2>1
<1>8. C[l + 1] = Byte(m, w + 1)
  <2>1. l + 1 \in (l + 1)..(l + n) /\ w + ((l + 1) - l) = w + 1
    BY <1>2
  <2> QED BY <1>5, <2>1
<1>9. C[1].at = 1
  <2>1. CASE l = 0
    <3>1. B = <<>>
      BY <1>2, <2>1, EmptySeq
    <3>2. w = 0
      BY <3>1 DEF GoesOn, Unfinished
    <3> QED BY <1>8, <2>1, <3>2 DEF Byte
  <2>2. CASE l # 0
    <3>1. B # <<>> /\ 1 \in 1..l
      BY <1>2, <2>2, EmptySeq
    <3> QED BY <1>6, <3>1 DEF Flows
  <2> QED BY <2>1, <2>2
<1>10. ASSUME NEW i \in 1..(Len(C) - 1)
       PROVE  IF C[i].at < Size[C[i].of] THEN C[i + 1] = Byte(C[i].of, C[i].at + 1) ELSE C[i + 1].at = 1
  <2>1. CASE i < l
    <3>1. i \in 1..(Len(B) - 1) /\ i \in 1..l /\ i + 1 \in 1..l
      BY <1>2, <2>1
    <3>2. IF B[i].at < Size[B[i].of] THEN B[i + 1] = Byte(B[i].of, B[i].at + 1) ELSE B[i + 1].at = 1
      BY <3>1 DEF Flows
    <3> QED BY <1>6, <3>1, <3>2
  <2>2. CASE i = l
    <3>1. B # <<>> /\ C[i] = B[Len(B)] /\ i \in 1..l
      BY <1>2, <1>6, <2>2, EmptySeq
    <3>2. CASE w = 0
      <4>1. ~(C[i].at < Size[C[i].of])
        BY <3>1, <3>2 DEF GoesOn, Unfinished
      <4>2. C[i + 1].at = 1
        BY <1>8, <2>2, <3>2 DEF Byte
      <4> QED BY <4>1, <4>2
    <3>3. CASE w # 0
      <4>1. C[i] = Byte(m, w) /\ C[i].at < Size[C[i].of]
        BY <3>1, <3>3 DEF GoesOn, Unfinished
      <4>2. C[i].of = m /\ C[i].at = w
        BY <4>1 DEF Byte
      <4> QED BY <1>8, <2>2, <4>1, <4>2
    <3> QED BY <3>2, <3>3
  <2>3. CASE i > l
    <3>1. i \in (l + 1)..(l + n) /\ i + 1 \in (l + 1)..(l + n) /\ w + ((i + 1) - l) = (w + (i - l)) + 1
      BY <1>2, <1>3, <2>3
    <3>2. C[i] = Byte(m, w + (i - l)) /\ C[i + 1] = Byte(m, (w + (i - l)) + 1)
      BY <1>5, <3>1
    <3>3. C[i].of = m /\ C[i].at = w + (i - l)
      BY <3>2 DEF Byte
    <3>4. w + (i - l) < Size[m]
      BY <1>2, <1>3, <1>s, <2>3
    <3> QED BY <3>2, <3>3, <3>4
  <2> QED BY <1>2, <1>3, <2>1, <2>2, <2>3
<1>11. Flows(C)
  BY <1>9, <1>10 DEF Flows
<1> QED BY <1>3, <1>4, <1>7, <1>11 DEF C, s

(* What the reader has of a message, with the next byte. *)
LEMMA NextOfFragment ==
  ASSUME NEW f \in Seq(AnyByte), Fragment(f), NEW p \in Seq(AnyByte), p # <<>>, Flows(f \o p)
  PROVE  LET bytes == Append(f, Head(p))
             m     == bytes[1].of
         IN  /\ m \in Msg /\ bytes \in Seq(AnyByte) /\ bytes \o Tail(p) = f \o p
             /\ Len(bytes) \in 1..Size[m] /\ \A i \in 1..Len(bytes) : bytes[i] = Byte(m, i)
<1> DEFINE x == Head(p)
           bytes == Append(f, x)
           m == bytes[1].of
           B == f \o p
           n == Len(f)
<1>1. /\ x \in AnyByte /\ Tail(p) \in Seq(AnyByte) /\ bytes \in Seq(AnyByte) /\ Len(bytes) = n + 1
      /\ n \in Nat /\ Len(f) = n /\ \A i \in 1..n : bytes[i] = f[i]
  BY HeadTailProperties, AppendProperties, LenProperties
<1>2. bytes[n + 1] = x
  BY <1>1, AppendProperties
<1>3. bytes \o Tail(p) = B
  <2>1. <<x>> \in Seq(AnyByte) /\ bytes = f \o <<x>>
    BY <1>1, AppendIsConcat
  <2>2. p = <<x>> \o Tail(p)
    <3>1. Len(p) \in Nat \ {0} /\ x = p[1]
      BY EmptySeq
    <3> DEFINE l == Len(p)
    <3>2. 1 \in 1..l /\ l \in 1..l
      BY <3>1
    <3>3. SubSeq(p, 1, l) = <<p[1]>> \o SubSeq(p, 1 + 1, l)
      BY <3>2, SubSeqRecursiveFirst
    <3>4. SubSeq(p, 1, l) = p /\ Tail(p) = SubSeq(p, 2, l)
      BY SubSeqFull, TailIsSubSeq
    <3> QED BY <3>1, <3>3, <3>4
  <2>3. (f \o <<x>>) \o Tail(p) = f \o (<<x>> \o Tail(p))
    BY <1>1, <2>1, ConcatAssociative
  <2> HIDE DEF x, bytes
  <2> QED BY <2>1, <2>2, <2>3
<1>4. x.of \in Msg /\ x.at \in 1..Size[x.of] /\ Size[x.of] \in Nat \ {0} /\ x = Byte(x.of, x.at)
  BY <1>1, ByteIs
<1>5. B # <<>> /\ B[n + 1] = x /\ Len(B) >= n + 1 /\ Len(B) \in Nat /\ \A i \in 1..n : B[i] = f[i]
  <2>1. Len(p) \in Nat \ {0} /\ x = p[1]
    BY EmptySeq
  <2>2. B \in Seq(AnyByte) /\ Len(B) = n + Len(p) /\ \A i \in 1..(n + Len(p)) : B[i] = IF i <= n THEN f[i] ELSE p[i - n]
    BY <1>1, ConcatProperties
  <2> HIDE DEF x, bytes, B, n
  <2>3. n + 1 \in 1..(n + Len(p)) /\ ~(n + 1 <= n) /\ (n + 1) - n = 1
    BY <1>1, <2>1
  <2>4. B # <<>>
    BY <1>1, <2>1, <2>2
  <2> QED BY <1>1, <2>1, <2>2, <2>3, <2>4
<1>6. Flows(B)
  OBVIOUS
<1> HIDE DEF x, bytes, B, n
<1>7. CASE f = <<>>
  <2>1. n = 0
    BY <1>7 DEF n
  <2>2. bytes[1] = x /\ x.at = 1
    BY <1>2, <1>5, <1>6, <2>1 DEF Flows
  <2>3. x = Byte(m, 1) /\ m = x.of
    BY <1>4, <2>2
  <2>4. Len(bytes) = 1 /\ \A i \in 1..Len(bytes) : bytes[i] = Byte(m, i)
    BY <1>1, <2>1, <2>2, <2>3
  <2>5. 1 \in 1..Size[m] /\ m \in Msg
    BY <1>4, <2>3
  <2> QED BY <1>1, <1>3, <2>4, <2>5 DEF bytes, x, B
<1>8. CASE f # <<>>
  <2>1. PICK k \in Msg : n < Size[k] /\ \A i \in 1..n : f[i] = Byte(k, i)
    BY <1>1, <1>8 DEF Fragment
  <2>2. n \in 1..n /\ 1 \in 1..n /\ Size[k] \in Nat
    <3>1. n # 0
      BY <1>8, EmptySeq DEF n
    <3> QED BY <1>1, <3>1, FramingAssumption
  <2>3. m = k
    BY <1>1, <2>1, <2>2 DEF Byte
  <2>4. x = Byte(m, n + 1)
    <3>1. n \in 1..(Len(B) - 1) /\ B[n] = Byte(k, n)
      BY <1>5, <2>1, <2>2
    <3>2. B[n].of = k /\ B[n].at = n
      BY <3>1 DEF Byte
    <3>3. IF B[n].at < Size[B[n].of] THEN B[n + 1] = Byte(B[n].of, B[n].at + 1) ELSE B[n + 1].at = 1
      BY <1>6, <3>1 DEF Flows
    <3>4. B[n + 1] = Byte(k, n + 1)
      BY <2>1, <3>2, <3>3
    <3> QED BY <1>5, <2>3, <3>4
  <2>5. \A i \in 1..Len(bytes) : bytes[i] = Byte(m, i)
    <3> SUFFICES ASSUME NEW i \in 1..Len(bytes) PROVE bytes[i] = Byte(m, i)
      OBVIOUS
    <3>1. i \in 1..n \/ i = n + 1
      BY <1>1
    <3>2. CASE i \in 1..n
      <4>1. bytes[i] = f[i] /\ f[i] = Byte(k, i)
        BY <1>1, <2>1, <3>2
      <4> QED BY <2>3, <4>1
    <3>3. CASE i = n + 1
      BY <1>2, <2>4, <3>3
    <3> QED BY <3>1, <3>2, <3>3
  <2>6. Len(bytes) \in 1..Size[m] /\ m \in Msg
    BY <1>1, <2>1, <2>2, <2>3
  <2> QED BY <1>1, <1>3, <2>5, <2>6 DEF bytes, x, B
<1> QED BY <1>7, <1>8

LEMMA BeginningOfMessage ==
  ASSUME NEW m \in Msg, NEW bytes \in Seq(AnyByte), Len(bytes) \in 1..Size[m],
         \A i \in 1..Len(bytes) : bytes[i] = Byte(m, i)
  PROVE  /\ IsPrefix(bytes, Bytes(m)) /\ bytes # <<>>
         /\ bytes = Bytes(m) <=> Len(bytes) = Size[m]
<1> DEFINE s == Bytes(m)
           n == Len(bytes)
<1>1. /\ s \in Seq(AnyByte) /\ Len(s) = Size[m] /\ Size[m] \in Nat \ {0}
      /\ \A i \in 1..Size[m] : s[i] = Byte(m, i) /\ Byte(m, i) \in AnyByte
  BY BytesAre
<1>2. n \in Nat /\ n \in 1..Size[m] /\ n <= Len(s) /\ Len(bytes) = n
  BY <1>1, LenProperties
<1> HIDE DEF s, n
<1>3. SubSeq(bytes, 1, n) = bytes
  BY <1>2, SubSeqFull
<1>4. \A i \in 1..n : s[i] \in AnyByte /\ s[i] = bytes[i]
  BY <1>1, <1>2
<1>5. SubSeq(s, 1, n) = bytes
  <2> DEFINE t == SubSeq(s, 1, n)
  <2>1. t \in Seq(AnyByte) /\ Len(t) = n /\ \A i \in 1..n : t[i] = s[i]
    <3>1. /\ t \in Seq(AnyByte) /\ Len(t) = IF 1 <= n THEN n - 1 + 1 ELSE 0
          /\ \A i \in 1..(n - 1 + 1) : t[i] = s[1 + i - 1]
      BY <1>2, <1>4, SubSeqProperties
    <3> HIDE DEF t
    <3>2. n - 1 + 1 = n /\ 1 <= n /\ \A i \in 1..n : 1 + i - 1 = i
      BY <1>2
    <3> QED BY <3>1, <3>2
  <2> HIDE DEF t
  <2>2. \A i \in 1..Len(t) : t[i] = bytes[i]
    BY <1>4, <2>1
  <2>3. t = bytes
    BY <1>2, <2>1, <2>2, SeqEqual
  <2> QED BY <2>3 DEF t
<1>6. IsPrefix(bytes, s)
  BY <1>2, <1>3, <1>5 DEF IsPrefix
<1>7. bytes # <<>>
  BY <1>1, <1>2 DEF n
<1>8. ASSUME n = Size[m] PROVE bytes = s
  BY <1>1, <1>2, <1>4, <1>8, SeqEqual
<1> QED BY <1>1, <1>2, <1>6, <1>7, <1>8 DEF s

-----------------------------------------------------------------------------
(* The steps.                                                              *)

Effective == {s \in Sender : written[s] > 0}

(* A step of the stream is one of the mailbox, or none. *)
MailStep == Mail!MailNext \/ UNCHANGED Mail!mailVars

LEMMA PipeTyped ==
  ASSUME NEW p \in Seq(AnyByte) PROVE \A i \in DOMAIN p : p[i].at \in 1..Size[p[i].of]
<1>1. \A i \in DOMAIN p : p[i] \in AnyByte
  BY LenProperties, ElementOfSeq
<1> QED BY <1>1 DEF AnyByte

LEMMA UnderWayIs ==
  /\ alive = TRUE => UnderWay = Marks(Stream, AtFirst)
  /\ alive = FALSE => UnderWay = Marks(Stream, AtLast)
BY DEF UnderWay, Stream

LEMMA StillUnderWay ==
  ASSUME frame' \o pipe' = frame \o pipe, alive' = alive, alive \in BOOLEAN
  PROVE  UnderWay' = UnderWay /\ Stream' = Stream
<1>1. CASE alive = TRUE
  BY <1>1 DEF UnderWay, Stream
<1>2. CASE alive = FALSE
  BY <1>2 DEF UnderWay, Stream
<1> QED BY <1>1, <1>2

LEMMA StreamTyped ==
  ASSUME FrameInv PROVE Stream \in Seq(AnyByte)
BY ConcatProperties DEF FrameInv, BytesFollow, Stream

LEMMA FrameInitInv == ASSUME FrameInit PROVE FrameInv /\ Mail!MailInit
<1>1. frame = <<>> /\ pipe = <<>> /\ Stream = <<>> /\ Len(<<>>) = 0
  BY DEF FrameInit, Stream
<1>2. FrameTypeOK
  BY <1>1, FramingAssumption DEF FrameInit, FrameTypeOK
<1>3. BytesFollow
  BY <1>1 DEF FrameInit, BytesFollow, Fragment, Flows
<1>4. OneWriter
  BY DEF FrameInit, OneWriter
<1>5. EndIsWritten
  BY <1>1 DEF FrameInit, EndIsWritten, Midway, Unfinished
<1>6. Mail!MailInit
  <2>1. UnderWay = <<>>
    BY <1>1, UnderWayIs, MarksOfNone DEF FrameInit
  <2> QED BY <2>1 DEF Mail!MailInit, FrameInit, Closed
<1> QED BY <1>2, <1>3, <1>4, <1>5, <1>6 DEF FrameInv

LEMMA CallSendStep ==
  ASSUME FrameInv, NEW s \in Sender, CallSend(s) PROVE FrameInv' /\ MailStep
<1>1. PICK m \in Msg : msg' = [msg EXCEPT ![s] = m]
  BY DEF CallSend
<1>2. /\ alive = TRUE /\ alive' = alive /\ msg[s] = NoMsg /\ sends[s] < MaxSends
      /\ sends' = [sends EXCEPT ![s] = @ + 1]
      /\ UNCHANGED <<written, write_mutex, pipe, frame, received, reader>>
  BY DEF CallSend, receiver, FrameInv, FrameTypeOK
<1>3. Stream' = Stream /\ UnderWay' = UnderWay
  BY <1>2, StillUnderWay
<1>4. written[s] = 0 /\ \A t \in Sender : written[t] \in Nat
  <2>1. written[s] \in 0..0 /\ written \in [Sender -> Nat]
    BY <1>2 DEF FrameInv, FrameTypeOK, OneWriter
  <2> QED BY <2>1
<1>5. \A t \in Sender : (t # s => msg'[t] = msg[t]) /\ msg'[t] \in Msg \cup {NoMsg}
  BY <1>1 DEF FrameInv, FrameTypeOK
<1>6. msg'[s] = m /\ m # NoMsg /\ Size[m] \in Nat
  BY <1>1, FramingAssumption DEF FrameInv, FrameTypeOK
<1>7. FrameTypeOK'
  <2>1. msg' \in [Sender -> Msg \cup {NoMsg}]
    BY <1>1 DEF FrameInv, FrameTypeOK
  <2>2. ASSUME NEW t \in Sender PROVE written'[t] \in 0..(IF msg'[t] = NoMsg THEN 0 ELSE Size[msg'[t]])
    <3>1. CASE t = s
      BY <1>2, <1>4, <1>6, <3>1
    <3>2. CASE t # s
      BY <1>2, <1>5, <3>2 DEF FrameInv, FrameTypeOK
    <3> QED BY <3>1, <3>2
  <2>3. sends' \in [Sender -> 0..MaxSends]
    <3>1. sends \in [Sender -> 0..MaxSends] /\ sends[s] + 1 \in 0..MaxSends
      BY <1>2, FramingAssumption DEF FrameInv, FrameTypeOK
    <3> QED BY <1>2, <3>1
  <2> QED BY <1>2, <2>1, <2>2, <2>3 DEF FrameInv, FrameTypeOK
<1>a. Closed' = Closed
  BY <1>2 DEF Closed
<1>8. BytesFollow'
  BY <1>2, <1>3, <1>a DEF FrameInv, BytesFollow
<1>9. OneWriter'
  BY <1>2 DEF FrameInv, OneWriter
<1>10. \A t \in Sender : (Midway(t)' <=> Midway(t)) /\ (Midway(t) => msg'[t] = msg[t])
  <2> SUFFICES ASSUME NEW t \in Sender
               PROVE  (Midway(t)' <=> Midway(t)) /\ (Midway(t) => msg'[t] = msg[t])
    OBVIOUS
  <2>1. CASE t = s
    BY <1>2, <1>4, <2>1 DEF Midway
  <2>2. CASE t # s
    BY <1>2, <1>5, <2>2 DEF Midway
  <2> QED BY <2>1, <2>2
<1>11. EndIsWritten'
  BY <1>2, <1>3, <1>10, <1>a DEF FrameInv, EndIsWritten
<1>12. Mail!CallSend(s, m)
  BY <1>1, <1>2, <1>3, <1>a DEF Mail!CallSend
<1> QED BY <1>7, <1>8, <1>9, <1>11, <1>12 DEF FrameInv, MailStep, Mail!MailNext

LEMMA LockStep ==
  ASSUME FrameInv, NEW s \in Sender, Lock(s) PROVE FrameInv' /\ MailStep
<1>1. /\ alive' = alive /\ write_mutex = {} /\ write_mutex' = {s} /\ alive \in BOOLEAN
      /\ UNCHANGED <<msg, written, sends, pipe, frame, received, reader>>
  BY DEF Lock, receiver, FrameInv, FrameTypeOK
<1>2. Stream' = Stream /\ UnderWay' = UnderWay
  BY <1>1, StillUnderWay
<1>3. FrameTypeOK'
  BY <1>1 DEF FrameInv, FrameTypeOK
<1>a. Closed' = Closed
  BY <1>1 DEF Closed
<1>4. BytesFollow'
  BY <1>1, <1>2, <1>a DEF FrameInv, BytesFollow
<1>5. OneWriter'
  BY <1>1 DEF FrameInv, OneWriter
<1>6. EndIsWritten'
  BY <1>1, <1>2, <1>a DEF FrameInv, EndIsWritten, Midway
<1>7. UNCHANGED Mail!mailVars
  BY <1>1, <1>2, <1>a DEF Mail!mailVars
<1> QED BY <1>3, <1>4, <1>5, <1>6, <1>7 DEF FrameInv, MailStep

LEMMA MinOfTwo == \A a, b \in Int : Min({a, b}) \in Int /\ Min({a, b}) <= a /\ Min({a, b}) <= b
<1> SUFFICES ASSUME NEW a \in Int, NEW b \in Int
             PROVE  Min({a, b}) \in {a, b} /\ \A y \in {a, b} : Min({a, b}) <= y
  OBVIOUS
<1>1. \E x \in {a, b} : \A y \in {a, b} : x <= y
  OBVIOUS
<1> QED BY <1>1 DEF Min

LEMMA WriteStep ==
  ASSUME FrameInv, NEW s \in Sender, Write(s) PROVE FrameInv' /\ MailStep
<1> DEFINE m == msg[s]
           w == written[s]
<1>1. /\ alive = TRUE /\ alive' = TRUE /\ m \in Msg /\ m # NoMsg /\ s \in write_mutex
      /\ UNCHANGED <<msg, write_mutex, sends, frame, received, reader>>
  BY DEF Write, Holds, receiver, FrameInv, FrameTypeOK
<1>a. ~Closed /\ ~Closed'
  BY <1>1 DEF Write, Closed
<1>2. PICK n \in 1..Min({Size[m] - w, ByteCap - Len(pipe)}) :
        pipe' = pipe \o Part(m, w, n) /\ written' = [written EXCEPT ![s] = @ + n]
  BY DEF Write, Part
<1>3. /\ Size[m] \in Nat \ {0} /\ w \in Nat /\ w <= Size[m] /\ ByteCap \in Nat /\ Len(pipe) \in Nat
      /\ written \in [Sender -> Nat]
  BY <1>1, FramingAssumption, LenProperties DEF FrameInv, FrameTypeOK, OneWriter, BytesFollow
<1>4. n \in Nat \ {0} /\ w + n <= Size[m] /\ Len(pipe) + n <= ByteCap
  <2> DEFINE a == Size[m] - w
             b == ByteCap - Len(pipe)
  <2>1. a \in Int /\ b \in Int
    BY <1>3
  <2> HIDE DEF a, b
  <2>2. Min({a, b}) \in Int /\ Min({a, b}) <= a /\ Min({a, b}) <= b /\ n \in 1..Min({a, b})
    BY <1>2, <2>1, MinOfTwo DEF a, b
  <2>3. n \in Nat \ {0} /\ n <= a /\ n <= b
    BY <2>1, <2>2
  <2> QED BY <1>3, <2>3 DEF a, b
<1>5. \A t \in Sender : t # s => written[t] = 0
  BY <1>1, <1>3 DEF FrameInv, OneWriter
<1>6. GoesOn(Stream, m, w)
  <2>1. CASE w = 0
    <3>1. \A t \in Sender : ~Midway(t)
      BY <1>5, <2>1 DEF Midway
    <3> QED BY <1>1, <1>a, <2>1, <3>1 DEF FrameInv, EndIsWritten, GoesOn
  <2>2. CASE w # 0
    <3>1. Midway(s)
      BY <1>3, <1>4, <2>2 DEF Midway
    <3> QED BY <1>a, <2>2, <3>1 DEF FrameInv, EndIsWritten, GoesOn
  <2> QED BY <2>1, <2>2
<1> DEFINE c == Part(m, w, n)
           B == Stream
<1>7. B \in Seq(AnyByte) /\ Flows(B) /\ pipe \in Seq(AnyByte) /\ frame \in Seq(AnyByte) /\ B = frame \o pipe
  BY StreamTyped DEF FrameInv, BytesFollow, Stream
<1>8. c \in Seq(AnyByte) /\ Len(c) = n
  BY <1>1, <1>3, <1>4, PartIs
<1>9. /\ Flows(B \o c) /\ B \o c # <<>> /\ (B \o c)[Len(B \o c)] = Byte(m, w + n)
  <2>1. GoesOn(B, m, w)
    BY <1>6
  <2>2. m \in Msg /\ w \in Nat /\ n \in Nat \ {0} /\ w + n <= Size[m] /\ B \in Seq(AnyByte) /\ Flows(B)
    BY <1>1, <1>3, <1>4, <1>7
  <2> HIDE DEF B, m, w
  <2> QED BY <2>1, <2>2, FlowsWithPart
<1>10. Marks(B \o c, AtFirst) = IF w = 0 THEN Append(Marks(B, AtFirst), m) ELSE Marks(B, AtFirst)
  <2> DEFINE q == Marks(B, AtFirst)
  <2>1. Marks(B \o c, AtFirst) = q \o Marks(c, AtFirst) /\ q \in Seq(Msg)
    <3> HIDE DEF B, c
    <3> QED BY <1>7, <1>8, MarksConcatenated, MarksType
  <2>2. Marks(c, AtFirst) = IF w = 0 THEN <<m>> ELSE <<>>
    <3> HIDE DEF m, w
    <3> QED BY <1>1, <1>3, <1>4, PartBegins
  <2> HIDE DEF q, m, w, c, B
  <2>3. q \o <<m>> = Append(q, m) /\ q \o <<>> = q
    BY <1>1, <2>1, AppendIsConcat, ConcatEmptySeq
  <2> QED BY <2>1, <2>2, <2>3 DEF q
<1>11. Stream' = B \o c
  <2>1. Stream' = frame \o (pipe \o c)
    BY <1>1, <1>2 DEF Stream
  <2>2. (frame \o pipe) \o c = frame \o (pipe \o c)
    <3> HIDE DEF c
    <3> QED BY <1>7, <1>8, ConcatAssociative
  <2> QED BY <1>7, <2>1, <2>2
<1>12. pipe' \in Seq(AnyByte) /\ Len(pipe') = Len(pipe) + n
  <2> HIDE DEF c
  <2>1. pipe' = pipe \o c
    BY <1>2 DEF c
  <2> QED BY <1>7, <1>8, <2>1, ConcatProperties
<1>13. written'[s] = w + n /\ (\A t \in Sender : t # s => written'[t] = written[t]) /\ written' \in [Sender -> Nat]
  BY <1>2, <1>3, <1>4
<1>14. UnderWay = Marks(B, AtFirst) /\ UnderWay' = Marks(B \o c, AtFirst)
  BY <1>1, <1>11 DEF UnderWay, Stream
<1> HIDE DEF c, B
<1>15. FrameTypeOK'
  <2>1. ASSUME NEW t \in Sender PROVE written'[t] \in 0..(IF msg'[t] = NoMsg THEN 0 ELSE Size[msg'[t]])
    <3>1. CASE t = s
      BY <1>1, <1>3, <1>4, <1>13, <3>1
    <3>2. CASE t # s
      BY <1>1, <1>13, <3>2 DEF FrameInv, FrameTypeOK
    <3> QED BY <3>1, <3>2
  <2>2. Len(pipe') <= ByteCap
    BY <1>3, <1>4, <1>12
  <2>3. \A i \in DOMAIN pipe' : pipe'[i].at \in 1..Size[pipe'[i].of]
    BY <1>12, PipeTyped
  <2> HIDE DEF m, w
  <2> QED BY <1>1, <2>1, <2>2, <2>3 DEF FrameInv, FrameTypeOK
<1>16. BytesFollow'
  BY <1>1, <1>7, <1>9, <1>11, <1>12, <1>a DEF FrameInv, BytesFollow
<1>17. OneWriter'
  BY <1>1, <1>13 DEF FrameInv, OneWriter
<1>18. EndIsWritten'
  <2>1. Stream'[Len(Stream')] = Byte(m, w + n) /\ Stream' # <<>> /\ msg'[s] = m
    BY <1>1, <1>9, <1>11
  <2>2. Unfinished(Stream)' <=> w + n < Size[m]
    BY <2>1 DEF Unfinished, Byte
  <2>3. \A t \in Sender : Midway(t)' <=> t = s /\ w + n < Size[m]
    <3> SUFFICES ASSUME NEW t \in Sender PROVE Midway(t)' <=> t = s /\ w + n < Size[m]
      OBVIOUS
    <3>1. CASE t = s
      BY <1>3, <1>4, <1>13, <2>1, <3>1 DEF Midway
    <3>2. CASE t # s
      BY <1>5, <1>13, <3>2 DEF Midway
    <3> QED BY <3>1, <3>2
  <2> HIDE DEF m, w
  <2>4. written'[s] = w + n /\ alive' = TRUE
    BY <1>1, <1>13
  <2> QED BY <2>1, <2>2, <2>3, <2>4 DEF EndIsWritten
<1>19. MailStep
  <2>1. CASE w = 0
    <3>1. Effective' = Effective \cup {s} /\ s \notin Effective
      BY <1>3, <1>4, <1>13, <2>1 DEF Effective
    <3>2. UnderWay' = Append(UnderWay, msg[s])
      BY <1>10, <1>14, <2>1
    <3>3. Mail!TakeEffect(s)
      BY <1>1, <1>a, <3>1, <3>2 DEF Mail!TakeEffect, Effective
    <3> QED BY <3>3 DEF MailStep, Mail!MailNext
  <2>2. CASE w # 0
    <3>1. Effective' = Effective
      BY <1>3, <1>4, <1>13, <2>2 DEF Effective
    <3>2. UnderWay' = UnderWay
      BY <1>10, <1>14, <2>2
    <3> QED BY <1>1, <1>a, <3>1, <3>2 DEF MailStep, Mail!mailVars, Effective
  <2> QED BY <2>1, <2>2
<1> QED BY <1>15, <1>16, <1>17, <1>18, <1>19 DEF FrameInv

LEMMA ReturnStep ==
  ASSUME FrameInv, NEW s \in Sender, Return(s) PROVE FrameInv' /\ MailStep
<1>1. /\ alive = TRUE /\ alive' = TRUE /\ msg[s] \in Msg /\ s \in write_mutex
      /\ written[s] = Size[msg[s]] /\ Size[msg[s]] \in Nat \ {0}
      /\ msg' = [msg EXCEPT ![s] = NoMsg] /\ written' = [written EXCEPT ![s] = 0]
      /\ write_mutex' = write_mutex \ {s}
      /\ UNCHANGED <<sends, pipe, frame, received, reader>>
  BY FramingAssumption DEF Return, Holds, receiver, FrameInv, FrameTypeOK
<1>2. /\ written \in [Sender -> Nat] /\ msg \in [Sender -> Msg \cup {NoMsg}]
      /\ \A t \in Sender : t # s => written[t] = 0
  <2>1. written \in [Sender -> Nat] /\ msg \in [Sender -> Msg \cup {NoMsg}]
    BY DEF FrameInv, OneWriter, FrameTypeOK
  <2>2. ASSUME NEW t \in Sender, t # s PROVE written[t] = 0
    <3>1. t \notin write_mutex
      BY <1>1, <2>2 DEF FrameInv, OneWriter
    <3>2. ~(written[t] > 0) /\ written[t] \in Nat
      BY <2>1, <3>1 DEF FrameInv, OneWriter
    <3> QED BY <3>2
  <2> QED BY <2>1, <2>2
<1>3. Stream' = Stream /\ UnderWay' = UnderWay
  BY <1>1, StillUnderWay
<1>4. \A t \in Sender : written'[t] = 0
  BY <1>1, <1>2
<1>5. FrameTypeOK'
  <2>1. msg' \in [Sender -> Msg \cup {NoMsg}]
    BY <1>1, <1>2
  <2>2. ASSUME NEW t \in Sender PROVE written'[t] \in 0..(IF msg'[t] = NoMsg THEN 0 ELSE Size[msg'[t]])
    BY <1>4, <2>1, FramingAssumption
  <2>3. write_mutex' \subseteq Sender
    BY <1>1 DEF FrameInv, FrameTypeOK
  <2> QED BY <1>1, <2>1, <2>2, <2>3 DEF FrameInv, FrameTypeOK
<1>a. Closed' = Closed
  BY <1>1 DEF Closed
<1>6. BytesFollow'
  BY <1>1, <1>3, <1>a DEF FrameInv, BytesFollow
<1>7. OneWriter'
  <2>1. written' \in [Sender -> Nat]
    BY <1>1, <1>2
  <2> QED BY <1>1, <1>4, <2>1 DEF FrameInv, OneWriter
<1>8. EndIsWritten'
  <2>1. \A t \in Sender : ~Midway(t)
    <3> SUFFICES ASSUME NEW t \in Sender PROVE ~Midway(t)
      OBVIOUS
    <3>1. CASE t = s
      BY <1>1, <3>1 DEF Midway
    <3>2. CASE t # s
      BY <1>2, <3>2 DEF Midway
    <3> QED BY <3>1, <3>2
  <2>2. ~Closed => ~Unfinished(Stream)
    BY <1>1, <2>1 DEF FrameInv, EndIsWritten
  <2>3. \A t \in Sender : ~Midway(t)'
    BY <1>4 DEF Midway
  <2> QED BY <1>3, <1>a, <2>2, <2>3 DEF EndIsWritten
<1>9. Effective' = Effective \ {s} /\ s \in Effective
  BY <1>1, <1>2, <1>4 DEF Effective
<1>10. Mail!Return(s)
  BY <1>1, <1>3, <1>9, <1>a DEF Mail!Return, Effective
<1> QED BY <1>5, <1>6, <1>7, <1>8, <1>10 DEF FrameInv, MailStep, Mail!MailNext

LEMMA FragmentIsUnfinished ==
  ASSUME NEW f \in Seq(AnyByte), Fragment(f) PROVE Marks(f, AtLast) = <<>>
<1>1. CASE f = <<>>
  BY <1>1, MarksOfNone
<1>2. CASE f # <<>>
  <2>1. PICK m \in Msg : Len(f) < Size[m] /\ \A i \in 1..Len(f) : f[i] = Byte(m, i)
    BY <1>2 DEF Fragment
  <2>2. ASSUME NEW i \in 1..Len(f) PROVE ~Marked(f, AtLast, i)
    <3>a. f[i] = Byte(m, i)
      BY <2>1
    <3>1. f[i].of = m /\ f[i].at = i
      BY <3>a DEF Byte
    <3>2. Size[m] \in Nat /\ Len(f) \in Nat
      BY FramingAssumption, LenProperties
    <3>3. i # Size[m]
      BY <2>1, <3>2
    <3> QED BY <3>1, <3>3 DEF Marked, AtLast
  <2> QED BY <2>2, FewMarks
<1> QED BY <1>1, <1>2

(* A stream without the message at its beginning. *)
LEMMA MessageTaken ==
  ASSUME NEW m \in Msg, NEW p \in Seq(AnyByte), Flows(Bytes(m) \o p)
  PROVE  /\ Flows(p) /\ (Unfinished(p) <=> Unfinished(Bytes(m) \o p))
         /\ Unfinished(p) => p[Len(p)] = (Bytes(m) \o p)[Len(Bytes(m) \o p)]
         /\ \A place \in {AtFirst, AtLast} : Marks(Bytes(m) \o p, place) = <<m>> \o Marks(p, place)
<1> DEFINE s == Bytes(m)
           B == s \o p
           n == Size[m]
           l == Len(p)
<1>1. s \in Seq(AnyByte) /\ Len(s) = n /\ n \in Nat \ {0} /\ \A i \in 1..n : s[i] = Byte(m, i)
  BY BytesAre
<1>2. l \in Nat /\ Len(p) = l /\ (p # <<>> <=> l # 0)
  BY LenProperties, EmptySeq
<1>3. \A place \in {AtFirst, AtLast} : Marks(s, place) = <<m>>
  BY MessageMarks
<1> HIDE DEF s, n, l
<1>4. B \in Seq(AnyByte) /\ Len(B) = n + l /\ \A i \in 1..(n + l) : B[i] = IF i <= n THEN s[i] ELSE p[i - n]
  BY <1>1, ConcatProperties DEF l
<1>5. \A place \in {AtFirst, AtLast} : Marks(B, place) = <<m>> \o Marks(p, place)
  BY <1>1, <1>3, MarksConcatenated
<1>6. Flows(B)
  BY DEF s
<1> HIDE DEF B
<1>7. \A i \in 1..l : B[n + i] = p[i]
  <2> SUFFICES ASSUME NEW i \in 1..l PROVE B[n + i] = p[i]
    OBVIOUS
  <2>1. n + i \in 1..(n + l) /\ ~(n + i <= n) /\ (n + i) - n = i
    BY <1>1, <1>2
  <2> QED BY <1>4, <2>1
<1>8. B[n].of = m /\ B[n].at = n
  <2>1. n \in 1..(n + l) /\ n \in 1..n /\ n <= n
    BY <1>1, <1>2
  <2>2. B[n] = Byte(m, n)
    BY <1>1, <1>4, <2>1
  <2> QED BY <2>2 DEF Byte
<1>9. p # <<>> => p[1].at = 1
  <2> SUFFICES ASSUME p # <<>> PROVE p[1].at = 1
    OBVIOUS
  <2>1. 1 \in 1..l /\ n \in 1..(Len(B) - 1)
    BY <1>1, <1>2, <1>4
  <2>2. IF B[n].at < Size[B[n].of] THEN B[n + 1] = Byte(B[n].of, B[n].at + 1) ELSE B[n + 1].at = 1
    BY <1>6, <2>1 DEF Flows
  <2>3. ~(B[n].at < Size[B[n].of])
    BY <1>1, <1>8 DEF n
  <2> QED BY <1>7, <2>1, <2>2, <2>3
<1>10. ASSUME NEW i \in 1..(Len(p) - 1)
       PROVE  IF p[i].at < Size[p[i].of] THEN p[i + 1] = Byte(p[i].of, p[i].at + 1) ELSE p[i + 1].at = 1
  <2>1. i \in 1..l /\ i + 1 \in 1..l /\ n + i \in 1..(Len(B) - 1) /\ (n + i) + 1 = n + (i + 1)
    BY <1>1, <1>2, <1>4
  <2>2. LET j == n + i IN
        IF B[j].at < Size[B[j].of] THEN B[j + 1] = Byte(B[j].of, B[j].at + 1) ELSE B[j + 1].at = 1
    BY <1>6, <2>1 DEF Flows
  <2> QED BY <1>7, <2>1, <2>2
<1>11. Flows(p)
  BY <1>9, <1>10 DEF Flows
<1>12. B # <<>>
  BY <1>1, <1>2, <1>4
<1>13. CASE p = <<>>
  <2>1. B[Len(B)] = B[n]
    BY <1>1, <1>2, <1>4, <1>13
  <2>2. ~(B[n].at < Size[B[n].of])
    BY <1>1, <1>8 DEF n
  <2>3. ~Unfinished(p) /\ ~Unfinished(B)
    BY <1>13, <2>1, <2>2 DEF Unfinished
  <2> QED BY <1>5, <1>11, <2>3 DEF B, s
<1>14. CASE p # <<>>
  <2>1. l \in 1..l /\ B[Len(B)] = p[Len(p)]
    <3>1. l \in 1..l
      BY <1>2, <1>14
    <3> QED BY <1>2, <1>4, <1>7, <3>1
  <2>2. Unfinished(p) <=> Unfinished(B)
    BY <1>12, <1>14, <2>1 DEF Unfinished
  <2> QED BY <1>5, <1>11, <2>1, <2>2 DEF B, s
<1> QED BY <1>13, <1>14

LEMMA ReadByteStep ==
  ASSUME FrameInv, ReadByte PROVE FrameInv' /\ MailStep
<1> DEFINE bytes == Append(frame, Head(pipe))
           m == bytes[1].of
           B == Stream
<1>1. /\ pipe # <<>> /\ pipe' = Tail(pipe) /\ reader = "reading"
      /\ received' = IF bytes = Bytes(m) THEN m ELSE received
      /\ frame' = IF IsStrictPrefix(bytes, Bytes(m)) THEN bytes ELSE <<>>
      /\ reader' = IF IsPrefix(bytes, Bytes(m)) THEN reader ELSE "torn"
      /\ UNCHANGED <<msg, written, write_mutex, sends, alive>>
  BY DEF ReadByte, senders, FrameInv, FrameTypeOK
<1>2. /\ frame \in Seq(AnyByte) /\ pipe \in Seq(AnyByte) /\ Fragment(frame) /\ Flows(B)
      /\ reader # "torn" /\ alive \in BOOLEAN /\ B = frame \o pipe
  BY DEF FrameInv, FrameTypeOK, BytesFollow, Stream
<1>3. /\ m \in Msg /\ bytes \in Seq(AnyByte) /\ bytes \o Tail(pipe) = B
      /\ Len(bytes) \in 1..Size[m] /\ \A i \in 1..Len(bytes) : bytes[i] = Byte(m, i)
  <2>1. Flows(frame \o pipe)
    BY <1>2
  <2> HIDE DEF B
  <2> QED BY <1>1, <1>2, <2>1, NextOfFragment
<1>4. Tail(pipe) \in Seq(AnyByte) /\ Len(Tail(pipe)) = Len(pipe) - 1 /\ Len(pipe) \in Nat
  BY <1>1, <1>2, HeadTailProperties, LenProperties
<1> HIDE DEF bytes, m, B
<1>5. IsPrefix(bytes, Bytes(m)) /\ (bytes = Bytes(m) <=> Len(bytes) = Size[m])
  BY <1>3, BeginningOfMessage
<1>6. reader' = reader
  BY <1>1, <1>5
<1>a. ~Closed /\ ~Closed'
  BY <1>1, <1>6 DEF Closed
<1>7. FrameTypeOK'
  <2>1. received' \in Msg \cup {NoMsg}
    BY <1>1, <1>3 DEF FrameInv, FrameTypeOK
  <2>2. \A i \in DOMAIN pipe' : pipe'[i].at \in 1..Size[pipe'[i].of]
    BY <1>1, <1>4, PipeTyped
  <2>3. Len(pipe') <= ByteCap
    BY <1>1, <1>4, FramingAssumption DEF FrameInv, FrameTypeOK
  <2> QED BY <1>1, <1>6, <2>1, <2>2, <2>3 DEF FrameInv, FrameTypeOK
<1>8. OneWriter'
  BY <1>1 DEF FrameInv, OneWriter
<1>9. CASE bytes = Bytes(m)
  <2>1. frame' = <<>> /\ received' = m /\ Stream' = Tail(pipe)
    BY <1>1, <1>4, <1>9, ConcatEmptySeq DEF IsStrictPrefix, Stream
  <2>2. B = Bytes(m) \o Tail(pipe)
    BY <1>3, <1>9
  <2> DEFINE p == Tail(pipe)
  <2>3. p \in Seq(AnyByte) /\ Flows(Bytes(m) \o p)
    BY <1>2, <1>4, <2>2
  <2> HIDE DEF p
  <2>4. /\ Flows(p) /\ (Unfinished(p) <=> Unfinished(B)) /\ (Unfinished(p) => p[Len(p)] = B[Len(B)])
        /\ \A place \in {AtFirst, AtLast} : Marks(B, place) = <<m>> \o Marks(p, place)
    <3>1. B = Bytes(m) \o p
      BY <2>2 DEF p
    <3>2. m \in Msg
      BY <1>3
    <3>3. LET C == Bytes(m) \o p IN
          /\ Flows(p) /\ (Unfinished(p) <=> Unfinished(C)) /\ (Unfinished(p) => p[Len(p)] = C[Len(C)])
          /\ \A place \in {AtFirst, AtLast} : Marks(C, place) = <<m>> \o Marks(p, place)
      BY <2>3, <3>2, MessageTaken
    <3> QED BY <3>1, <3>3
  <2>5. Stream' = p
    BY <2>1 DEF p
  <2>6. BytesFollow'
    <3>a. <<>> \in Seq(AnyByte) /\ Fragment(<<>>)
      BY DEF Fragment
    <3>1. frame' \in Seq(AnyByte) /\ Fragment(frame)' /\ pipe' \in Seq(AnyByte)
      BY <1>1, <1>4, <2>1, <3>a
    <3> QED BY <1>2, <1>6, <1>a, <2>4, <2>5, <3>1 DEF BytesFollow
  <2>7. EndIsWritten'
    <3>1. Unfinished(Stream)' <=> Unfinished(Stream)
      BY <2>4, <2>5 DEF B
    <3>2. Unfinished(Stream) => Stream'[Len(Stream')] = Stream[Len(Stream)]
      BY <2>4, <2>5 DEF B
    <3>3. \A s \in Sender : (Midway(s)' <=> Midway(s)) /\ msg'[s] = msg[s] /\ written'[s] = written[s]
      BY <1>1 DEF Midway
    <3> QED BY <1>1, <1>a, <3>1, <3>2, <3>3 DEF FrameInv, EndIsWritten
  <2>8. \E q \in Seq(Msg) : UnderWay = <<m>> \o q /\ UnderWay' = q
    <3>1. CASE alive = TRUE
      <4>1. UnderWay = Marks(B, AtFirst) /\ UnderWay' = Marks(p, AtFirst)
        BY <1>1, <2>5, <3>1 DEF UnderWay, B, Stream
      <4> QED BY <2>3, <2>4, <4>1, MarksType
    <3>2. CASE alive = FALSE
      <4>1. UnderWay = Marks(B, AtLast) /\ UnderWay' = Marks(p, AtLast)
        BY <1>1, <2>5, <3>2 DEF UnderWay, B, Stream
      <4> QED BY <2>3, <2>4, <4>1, MarksType
    <3> QED BY <1>2, <3>1, <3>2
  <2>9. UnderWay # <<>> /\ Head(UnderWay) = m /\ Tail(UnderWay) = UnderWay'
    <3>1. PICK q \in Seq(Msg) : UnderWay = <<m>> \o q /\ UnderWay' = q
      BY <2>8
    <3>2. <<m>> \o q # <<>> /\ Head(<<m>> \o q) = m /\ Tail(<<m>> \o q) = q
      OBVIOUS
    <3> QED BY <3>1, <3>2
  <2>10. Mail!Receive
    BY <1>1, <1>a, <2>1, <2>9 DEF Mail!Receive
  <2> QED BY <1>7, <1>8, <2>6, <2>7, <2>10 DEF FrameInv, MailStep, Mail!MailNext
<1>10. CASE bytes # Bytes(m)
  <2>1. frame' = bytes /\ received' = received
    BY <1>1, <1>5, <1>10 DEF IsStrictPrefix
  <2>2. frame' \o pipe' = frame \o pipe
    BY <1>1, <1>2, <1>3, <2>1
  <2>3. Stream' = Stream /\ UnderWay' = UnderWay
    BY <1>1, <1>2, <2>2, StillUnderWay
  <2>4. BytesFollow'
    <3>1. Len(bytes) < Size[m]
      <4>1. Size[m] \in Nat
        BY <1>3, FramingAssumption
      <4> QED BY <1>3, <1>5, <1>10, <4>1
    <3>2. Fragment(frame)'
      BY <1>3, <2>1, <3>1 DEF Fragment
    <3> QED BY <1>1, <1>2, <1>3, <1>4, <1>6, <1>a, <2>1, <2>3, <3>2 DEF BytesFollow, B
  <2>5. EndIsWritten'
    BY <1>1, <1>a, <2>3 DEF FrameInv, EndIsWritten, Midway
  <2>6. UNCHANGED Mail!mailVars
    BY <1>1, <1>a, <2>1, <2>3 DEF Mail!mailVars
  <2> QED BY <1>7, <1>8, <2>4, <2>5, <2>6 DEF FrameInv, MailStep
<1> QED BY <1>9, <1>10

LEMMA SendersEndStep ==
  ASSUME FrameInv, SendersEnd PROVE FrameInv' /\ MailStep
<1>1. /\ alive = TRUE /\ alive' = FALSE /\ write_mutex' = {}
      /\ msg' = [s \in Sender |-> NoMsg] /\ written' = [s \in Sender |-> 0]
      /\ UNCHANGED <<sends, pipe, frame, received, reader>>
  BY DEF SendersEnd, receiver, FrameInv, FrameTypeOK
<1>2. FrameTypeOK'
  <2>1. \A s \in Sender : written'[s] = 0 /\ msg'[s] = NoMsg
    BY <1>1
  <2>2. \A s \in Sender : written'[s] \in 0..(IF msg'[s] = NoMsg THEN 0 ELSE Size[msg'[s]])
    BY <2>1
  <2>3. msg' \in [Sender -> Msg \cup {NoMsg}]
    BY <1>1
  <2> QED BY <1>1, <2>2, <2>3 DEF FrameInv, FrameTypeOK
<1>3. Stream' = Stream /\ Closed' = Closed
  BY <1>1 DEF Stream, Closed
<1>4. BytesFollow'
  BY <1>1, <1>3 DEF FrameInv, BytesFollow
<1>5. OneWriter'
  BY <1>1 DEF OneWriter
<1>6. EndIsWritten'
  BY <1>1 DEF EndIsWritten, Midway
<1> DEFINE B == Stream
           whole == Marks(B, AtLast)
<1>7. B \in Seq(AnyByte) /\ Flows(B)
  BY StreamTyped DEF FrameInv, BytesFollow
<1>8. UnderWay = Marks(B, AtFirst) /\ UnderWay' = whole
  BY <1>1, <1>3 DEF UnderWay, Stream
<1>9. whole \in Seq(Msg)
  BY <1>7, MarksType
<1>10. Marks(B, AtFirst) = IF Unfinished(B) THEN Append(whole, B[Len(B)].of) ELSE whole
  BY <1>7, BegunOrWhole
<1>11. \/ UnderWay' = UnderWay
       \/ /\ UnderWay # <<>> /\ UnderWay[Len(UnderWay)] \in {msg[s] : s \in Effective}
          /\ UnderWay' = SubSeq(UnderWay, 1, Len(UnderWay) - 1)
  <2>1. CASE Unfinished(B)
    <3>0. ~Closed
      <4>1. Closed => Stream = <<>>
        BY DEF FrameInv, BytesFollow, Stream
      <4> QED BY <2>1, <4>1 DEF Unfinished
    <3>1. PICK s \in Sender : Midway(s)
      BY <1>1, <2>1, <3>0 DEF FrameInv, EndIsWritten
    <3>2. B[Len(B)] = Byte(msg[s], written[s]) /\ s \in Effective
      BY <3>0, <3>1 DEF FrameInv, EndIsWritten, Midway, Effective
    <3> DEFINE x == B[Len(B)].of
    <3>3. x = msg[s]
      BY <3>2 DEF Byte
    <3>4. x \in Msg
      <4>1. B # <<>>
        BY <2>1 DEF Unfinished
      <4> HIDE DEF B
      <4>2. Len(B) \in 1..Len(B)
        BY <1>7, <4>1, EmptySeq
      <4>3. B[Len(B)] \in AnyByte
        BY <1>7, <4>2, ElementOfSeq
      <4> QED BY <4>3, ByteIs
    <3> DEFINE q == Append(whole, x)
    <3>5. UnderWay = q
      BY <1>8, <1>10, <2>1
    <3> HIDE DEF whole, x
    <3>6. /\ q \in Seq(Msg) /\ q # <<>> /\ Len(q) = Len(whole) + 1 /\ q[Len(whole) + 1] = x
          /\ Len(whole) \in Nat /\ \A i \in 1..Len(whole) : q[i] = whole[i]
      BY <1>9, <3>4, AppendProperties, LenProperties
    <3> HIDE DEF q
    <3>7. SubSeq(q, 1, Len(q) - 1) = whole
      <4> DEFINE n == Len(whole)
                 t == SubSeq(q, 1, n)
      <4>1. n \in Nat /\ n = Len(q) - 1 /\ Len(whole) = n /\ \A i \in 1..n : q[i] \in Msg
        BY <1>9, <3>6, ElementOfSeq
      <4> HIDE DEF n
      <4>2. /\ t \in Seq(Msg) /\ Len(t) = IF 1 <= n THEN n - 1 + 1 ELSE 0
            /\ \A i \in 1..(n - 1 + 1) : t[i] = q[1 + i - 1]
        BY <4>1, SubSeqProperties
      <4> HIDE DEF t
      <4>3. Len(t) = n /\ \A i \in 1..n : t[i] = q[i]
        BY <4>1, <4>2
      <4>4. \A i \in 1..n : t[i] = whole[i]
        BY <3>6, <4>1, <4>3
      <4>5. t = whole
        BY <1>9, <4>1, <4>2, <4>3, <4>4, SeqEqual
      <4> QED BY <4>1, <4>5 DEF t
    <3>8. UnderWay[Len(UnderWay)] = msg[s]
      BY <3>3, <3>5, <3>6
    <3> QED BY <1>8, <3>2, <3>5, <3>6, <3>7, <3>8
  <2>2. CASE ~Unfinished(B)
    BY <1>8, <1>10, <2>2
  <2> QED BY <2>1, <2>2
<1>12. Effective' = {}
  BY <1>1 DEF Effective
<1>13. Mail!CutOff
  BY <1>1, <1>3, <1>11, <1>12 DEF Mail!CutOff, Effective
<1> QED BY <1>2, <1>4, <1>5, <1>6, <1>13 DEF FrameInv, MailStep, Mail!MailNext

LEMMA ReadEndStep ==
  ASSUME FrameInv, ReadEnd PROVE FrameInv' /\ MailStep
<1>1. /\ pipe = <<>> /\ alive = FALSE /\ alive' = FALSE /\ reader' = "ended" /\ frame' = <<>>
      /\ UNCHANGED <<msg, written, write_mutex, sends, pipe, received>>
  BY DEF ReadEnd, senders, FrameInv, FrameTypeOK
<1>2. FrameTypeOK'
  BY <1>1 DEF FrameInv, FrameTypeOK
<1>3. Stream' = <<>>
  BY <1>1 DEF Stream
<1>a. ~Closed /\ ~Closed'
  BY <1>1 DEF ReadEnd, Closed
<1>4. BytesFollow'
  BY <1>1, <1>3, <1>a DEF FrameInv, BytesFollow, Fragment, Flows
<1>5. OneWriter'
  BY <1>1 DEF FrameInv, OneWriter
<1>6. \A s \in Sender : ~Midway(s)
  BY <1>1, <1>a DEF FrameInv, EndIsWritten
<1>7. EndIsWritten'
  BY <1>1, <1>3, <1>6 DEF EndIsWritten, Midway
<1>8. UnderWay = <<>> /\ UnderWay' = <<>>
  <2>1. frame \in Seq(AnyByte) /\ Fragment(frame)
    BY DEF FrameInv, BytesFollow
  <2>2. Stream = frame
    BY <1>1, <2>1, ConcatEmptySeq DEF Stream
  <2>3. UnderWay = Marks(frame, AtLast)
    BY <1>1, <2>2, UnderWayIs
  <2>4. UnderWay' = Marks(<<>>, AtLast)
    BY <1>1, <1>3 DEF UnderWay, Stream
  <2> QED BY <2>1, <2>3, <2>4, FragmentIsUnfinished, MarksOfNone
<1>9. UNCHANGED Mail!mailVars
  BY <1>1, <1>8, <1>a DEF Mail!mailVars
<1> QED BY <1>2, <1>4, <1>5, <1>7, <1>9 DEF FrameInv, MailStep

LEMMA ReceiverEndsStep ==
  ASSUME FrameInv, ReceiverEnds PROVE FrameInv' /\ MailStep
<1>1. /\ reader = "reading" /\ reader' = "closed" /\ pipe' = <<>> /\ frame' = <<>>
      /\ UNCHANGED <<msg, written, write_mutex, sends, alive, received>>
  BY DEF ReceiverEnds, senders
<1>2. ~Closed /\ Closed' /\ alive \in BOOLEAN
  BY <1>1 DEF Closed, FrameInv, FrameTypeOK
<1>3. Stream' = <<>> /\ Len(<<>>) = 0 /\ <<>> \in Seq(AnyByte)
  BY <1>1 DEF Stream
<1>4. FrameTypeOK'
  BY <1>1, <1>3, FramingAssumption DEF FrameInv, FrameTypeOK
<1>5. BytesFollow'
  BY <1>1, <1>3 DEF BytesFollow, Fragment, Flows
<1>6. OneWriter'
  BY <1>1 DEF FrameInv, OneWriter
<1>7. EndIsWritten'
  BY <1>2 DEF EndIsWritten
<1>8. UnderWay' = <<>>
  <2>1. UnderWay' = Marks(<<>>, IF alive THEN AtFirst ELSE AtLast)
    BY <1>1, <1>3 DEF UnderWay, Stream
  <2> QED BY <2>1, MarksOfNone
<1>9. Mail!Close
  BY <1>1, <1>2, <1>8 DEF Mail!Close
<1> QED BY <1>4, <1>5, <1>6, <1>7, <1>9 DEF FrameInv, MailStep, Mail!MailNext

LEMMA SendFailsStep ==
  ASSUME FrameInv, NEW s \in Sender, SendFails(s) PROVE FrameInv' /\ MailStep
<1>1. /\ Closed /\ alive' = alive /\ alive \in BOOLEAN /\ msg[s] # NoMsg
      /\ msg' = [msg EXCEPT ![s] = NoMsg] /\ written' = [written EXCEPT ![s] = 0]
      /\ write_mutex' = write_mutex \ {s}
      /\ UNCHANGED <<sends, pipe, frame, received, reader>>
  BY DEF SendFails, Holds, receiver, FrameInv, FrameTypeOK
<1>2. written \in [Sender -> Nat] /\ msg \in [Sender -> Msg \cup {NoMsg}]
  BY DEF FrameInv, OneWriter, FrameTypeOK
<1>3. Closed' /\ Stream' = Stream /\ UnderWay' = UnderWay
  BY <1>1, StillUnderWay DEF Closed
<1>4. /\ written'[s] = 0 /\ msg'[s] = NoMsg
      /\ \A t \in Sender : t # s => written'[t] = written[t] /\ msg'[t] = msg[t]
  BY <1>1, <1>2
<1>5. FrameTypeOK'
  <2>1. msg' \in [Sender -> Msg \cup {NoMsg}]
    BY <1>1, <1>2
  <2>2. ASSUME NEW t \in Sender PROVE written'[t] \in 0..(IF msg'[t] = NoMsg THEN 0 ELSE Size[msg'[t]])
    <3>1. CASE t = s
      BY <1>4, <3>1
    <3>2. CASE t # s
      BY <1>4, <3>2 DEF FrameInv, FrameTypeOK
    <3> QED BY <3>1, <3>2
  <2> QED BY <1>1, <2>1, <2>2 DEF FrameInv, FrameTypeOK
<1>6. BytesFollow'
  BY <1>1, <1>3 DEF FrameInv, BytesFollow
<1>7. OneWriter'
  <2>1. written' \in [Sender -> Nat]
    BY <1>1, <1>2
  <2> QED BY <1>1, <1>4, <2>1 DEF FrameInv, OneWriter
<1>8. EndIsWritten'
  BY <1>3 DEF EndIsWritten
<1>9. Effective' = Effective \ {s}
  BY <1>2, <1>4 DEF Effective
<1>10. Mail!Fail(s)
  BY <1>1, <1>3, <1>9 DEF Mail!Fail, Effective
<1> QED BY <1>5, <1>6, <1>7, <1>8, <1>10 DEF FrameInv, MailStep, Mail!MailNext

LEMMA FrameStep ==
  ASSUME FrameInv, [FrameNext]_frameVars PROVE FrameInv' /\ [Mail!MailNext]_Mail!mailVars
<1>1. CASE FrameNext
  <2>1. FrameInv' /\ MailStep
    BY <1>1, CallSendStep, LockStep, WriteStep, ReturnStep, SendFailsStep, ReadByteStep,
       SendersEndStep, ReadEndStep, ReceiverEndsStep DEF FrameNext
  <2> QED BY <2>1 DEF MailStep
<1>2. CASE UNCHANGED frameVars
  <2>1. UNCHANGED <<msg, written, write_mutex, sends, alive, pipe, frame, received, reader>>
    BY <1>2 DEF frameVars, senders, receiver
  <2>2. Stream' = Stream /\ Closed' = Closed
    BY <2>1 DEF Stream, Closed
  <2>a. alive \in BOOLEAN
    BY DEF FrameInv, FrameTypeOK
  <2>3. UnderWay' = UnderWay
    BY <2>1, <2>a, StillUnderWay
  <2>4. FrameTypeOK'
    BY <2>1 DEF FrameInv, FrameTypeOK
  <2>5. BytesFollow'
    BY <2>1, <2>2 DEF FrameInv, BytesFollow
  <2>6. OneWriter'
    BY <2>1 DEF FrameInv, OneWriter
  <2>7. EndIsWritten'
    BY <2>1, <2>2 DEF FrameInv, EndIsWritten, Midway
  <2>8. UNCHANGED Mail!mailVars
    BY <2>1, <2>2, <2>3 DEF Mail!mailVars
  <2> QED BY <2>4, <2>5, <2>6, <2>7, <2>8 DEF FrameInv
<1> QED BY <1>1, <1>2

-----------------------------------------------------------------------------
(* The theorems.                                                           *)

(* Every variable has its type, no more is written than the message has, nor  *)
(* put in the socket than it holds (WrappedSocket::send, write_all). *)
THEOREM FramesAreTyped == FrameSpec => []FrameTypeOK
<1>1. FrameInit => FrameInv
  BY FrameInitInv
<1>2. FrameInv /\ [FrameNext]_frameVars => FrameInv'
  BY FrameStep
<1>3. FrameInv => FrameTypeOK
  BY DEF FrameInv
<1> QED BY <1>1, <1>2, <1>3, PTL DEF FrameSpec

(* The receiver never reads bytes that are of no message, or of two: what it  *)
(* has is always the beginning of one message (WrappedSocket::read).          *)
THEOREM FramesAreWhole == FrameSpec => [](reader # "torn" /\ Fragment(frame))
<1>1. FrameInit => FrameInv
  BY FrameInitInv
<1>2. FrameInv /\ [FrameNext]_frameVars => FrameInv'
  BY FrameStep
<1>3. FrameInv => reader # "torn" /\ Fragment(frame)
  BY DEF FrameInv, BytesFollow
<1> QED BY <1>1, <1>2, <1>3, PTL DEF FrameSpec

(* The stream of bytes is a queue of whole messages, whatever the sizes of    *)
(* the messages and of the writes and however many threads send at the same   *)
(* time: what is received is what was sent, in one order.                     *)
THEOREM StreamIsAMailbox == FrameSpec => ImplementsMailbox
<1>1. FrameInit => FrameInv /\ Mail!MailInit
  BY FrameInitInv
<1>2. FrameInv /\ [FrameNext]_frameVars => FrameInv' /\ [Mail!MailNext]_Mail!mailVars
  BY FrameStep
<1> QED BY <1>1, <1>2, PTL DEF FrameSpec, ImplementsMailbox, Mail!MailSpec
=============================================================================
