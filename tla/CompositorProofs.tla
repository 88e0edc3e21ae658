-------------------------- MODULE CompositorProofs --------------------------
(***************************************************************************)
(* That calls of the compositor are each answered once, that the layers    *)
(* let the pointer go and that no call fails without a reason, for any     *)
(* outputs, any number of calls and any number of changes.                 *)
(***************************************************************************)
EXTENDS Compositor, SequenceTheorems, FiniteSetTheorems, TLAPS

-----------------------------------------------------------------------------
(* Messages in a queue. *)

(* Some message of s is in M. *)
In(s, M) == \E i \in DOMAIN s : s[i] \in M

(* At most one is. *)
Once(s, M) == \A i, j \in DOMAIN s : s[i] \in M /\ s[j] \in M => i = j

(* One of M comes before one of N. *)
Before(s, M, N) == \E i, j \in DOMAIN s : i < j /\ s[i] \in M /\ s[j] \in N

(* The last one of M is m. *)
LastIs(s, M, m) ==
  \A i \in DOMAIN s : s[i] \in M /\ (\A j \in DOMAIN s : j > i => s[j] \notin M) => s[i] = m

LEMMA Empty ==
  ASSUME NEW M, NEW N
  PROVE  ~In(<<>>, M) /\ ~Before(<<>>, M, N) /\ Once(<<>>, M)
BY DEF In, Before, Once

LEMMA Appended ==
  ASSUME NEW S, NEW s \in Seq(S), NEW m \in S, NEW M, NEW N
  PROVE  /\ In(Append(s, m), M) <=> In(s, M) \/ m \in M
         /\ Before(Append(s, m), M, N) <=> Before(s, M, N) \/ (In(s, M) /\ m \in N)
         /\ Once(s, M) /\ ~(In(s, M) /\ m \in M) => Once(Append(s, m), M)
         /\ m \in M => LastIs(Append(s, m), M, m)
         /\ \A l : LastIs(s, M, l) /\ m \notin M => LastIs(Append(s, m), M, l)
<1> DEFINE t == Append(s, m)
<1>1. /\ DOMAIN s = 1..Len(s) /\ DOMAIN t = 1..(Len(s) + 1) /\ Len(s) \in Nat
      /\ \A i \in 1..Len(s) : t[i] = s[i]
      /\ t[Len(s) + 1] = m
  OBVIOUS
<1> HIDE DEF t
<1>2. In(t, M) <=> In(s, M) \/ m \in M
  BY <1>1, SMT DEF In
<1>3. Before(t, M, N) <=> Before(s, M, N) \/ (In(s, M) /\ m \in N)
  BY <1>1, SMT DEF In, Before
<1>4. Once(s, M) /\ ~(In(s, M) /\ m \in M) => Once(t, M)
  BY <1>1, SMT DEF In, Once
<1>5. m \in M => LastIs(t, M, m)
  BY <1>1, SMT DEF LastIs
<1>6. \A l : LastIs(s, M, l) /\ m \notin M => LastIs(t, M, l)
  BY <1>1, SMT DEF LastIs
<1> QED BY <1>2, <1>3, <1>4, <1>5, <1>6 DEF t

LEMMA Taken ==
  ASSUME NEW S, NEW s \in Seq(S), s # <<>>, NEW M, NEW N
  PROVE  /\ In(s, M) <=> Head(s) \in M \/ In(Tail(s), M)
         /\ Before(s, M, N) <=> Before(Tail(s), M, N) \/ (Head(s) \in M /\ In(Tail(s), N))
         /\ Once(s, M) => Once(Tail(s), M) /\ ~(Head(s) \in M /\ In(Tail(s), M))
         /\ \A l : LastIs(s, M, l) => /\ LastIs(Tail(s), M, l)
                                      /\ Head(s) \in M /\ ~In(Tail(s), M) => Head(s) = l
<1> DEFINE t == Tail(s)
           h == Head(s)
<1>1. /\ Len(s) \in Nat \ {0} /\ Len(t) = Len(s) - 1
      /\ \A i \in 1..Len(t) : t[i] = s[i + 1]
      /\ h = s[1]
  BY HeadTailProperties, EmptySeq
<1>2. DOMAIN s = 1..Len(s) /\ DOMAIN t = 1..Len(t)
  BY HeadTailProperties, LenProperties
<1>3. /\ \A i \in DOMAIN t : i + 1 \in DOMAIN s /\ t[i] = s[i + 1]
      /\ 1 \in DOMAIN s
      /\ \A i \in DOMAIN s : i \in Int /\ (i = 1 \/ (i - 1 \in DOMAIN t /\ t[i - 1] = s[i] /\ i > 1))
      /\ \A i \in DOMAIN t : i \in Int /\ i > 0
  BY <1>1, <1>2, SMT
<1> HIDE DEF t, h
<1>4. In(s, M) <=> h \in M \/ In(t, M)
  <2>1. ASSUME NEW i \in DOMAIN s, s[i] \in M PROVE h \in M \/ In(t, M)
    <3>1. CASE i = 1
      BY <1>1, <2>1, <3>1
    <3>2. CASE i # 1
      BY <1>3, <2>1, <3>2 DEF In
    <3> QED BY <3>1, <3>2
  <2>2. h \in M => In(s, M)
    BY <1>1, <1>3 DEF In
  <2>3. ASSUME NEW i \in DOMAIN t, t[i] \in M PROVE In(s, M)
    BY <1>3, <2>3 DEF In
  <2> QED BY <2>1, <2>2, <2>3 DEF In
<1>5. Before(s, M, N) <=> Before(t, M, N) \/ (h \in M /\ In(t, N))
  <2>1. ASSUME NEW i \in DOMAIN s, NEW j \in DOMAIN s, i < j, s[i] \in M, s[j] \in N
        PROVE  Before(t, M, N) \/ (h \in M /\ In(t, N))
    <3>1. j - 1 \in DOMAIN t /\ t[j - 1] \in N /\ i \in Int /\ j \in Int
      BY <1>3, <2>1
    <3>2. CASE i = 1
      BY <1>1, <2>1, <3>1, <3>2 DEF In
    <3>3. CASE i # 1
      <4>1. i - 1 \in DOMAIN t /\ t[i - 1] \in M /\ i - 1 < j - 1
        BY <1>3, <2>1, <3>1, <3>3
      <4> QED BY <3>1, <4>1 DEF Before
    <3> QED BY <3>2, <3>3
  <2>2. ASSUME NEW i \in DOMAIN t, NEW j \in DOMAIN t, i < j, t[i] \in M, t[j] \in N
        PROVE  Before(s, M, N)
    <3>1. /\ i + 1 \in DOMAIN s /\ s[i + 1] \in M
          /\ j + 1 \in DOMAIN s /\ s[j + 1] \in N /\ i + 1 < j + 1
      BY <1>3, <2>2
    <3> QED BY <3>1 DEF Before
  <2>3. ASSUME h \in M, NEW j \in DOMAIN t, t[j] \in N PROVE Before(s, M, N)
    <3>1. /\ 1 \in DOMAIN s /\ s[1] \in M
          /\ j + 1 \in DOMAIN s /\ s[j + 1] \in N /\ 1 < j + 1
      BY <1>1, <1>3, <2>3
    <3> QED BY <3>1 DEF Before
  <2> QED BY <2>1, <2>2, <2>3 DEF Before, In
<1>6. Once(s, M) => Once(t, M) /\ ~(h \in M /\ In(t, M))
  BY <1>1, <1>3, SMT DEF In, Once
<1>7. ASSUME NEW l, LastIs(s, M, l)
      PROVE  LastIs(t, M, l) /\ (h \in M /\ ~In(t, M) => h = l)
  <2>1. ASSUME NEW i \in DOMAIN t, t[i] \in M, \A j \in DOMAIN t : j > i => t[j] \notin M
        PROVE  t[i] = l
    <3>1. i + 1 \in DOMAIN s /\ s[i + 1] = t[i] /\ i \in Int
      BY <1>3
    <3>2. ASSUME NEW j \in DOMAIN s, j > i + 1 PROVE s[j] \notin M
      <4>1. j - 1 \in DOMAIN t /\ t[j - 1] = s[j] /\ j - 1 > i
        BY <1>3, <3>1, <3>2
      <4> QED BY <2>1, <4>1
    <3> QED BY <1>7, <2>1, <3>1, <3>2 DEF LastIs
  <2>2. ASSUME h \in M, ~In(t, M) PROVE h = l
    <3>1. ASSUME NEW j \in DOMAIN s, j > 1 PROVE s[j] \notin M
      <4>1. j - 1 \in DOMAIN t /\ t[j - 1] = s[j]
        BY <1>3, <3>1
      <4> QED BY <2>2, <4>1 DEF In
    <3> QED BY <1>1, <1>3, <1>7, <2>2, <3>1 DEF LastIs
  <2> QED BY <2>1, <2>2 DEF LastIs
<1> QED BY <1>4, <1>5, <1>6, <1>7 DEF t, h

LEMMA Joined ==
  ASSUME NEW S, NEW s \in Seq(S), NEW t \in Seq(S), NEW M, NEW N
  PROVE  /\ In(s \o t, M) <=> In(s, M) \/ In(t, M)
         /\ Before(s \o t, M, N) <=>
              Before(s, M, N) \/ Before(t, M, N) \/ (In(s, M) /\ In(t, N))
         /\ Once(s, M) /\ ~In(t, M) => Once(s \o t, M)
<1> DEFINE u == s \o t
           n == Len(s)
<1>1. /\ n \in Nat /\ Len(t) \in Nat /\ Len(u) = n + Len(t)
      /\ \A i \in 1..Len(u) : u[i] = IF i <= n THEN s[i] ELSE t[i - n]
      /\ u \in Seq(S)
  BY ConcatProperties, LenProperties
<1>2. DOMAIN s = 1..n /\ DOMAIN t = 1..Len(t) /\ DOMAIN u = 1..Len(u)
  BY <1>1, LenProperties
<1>3. /\ \A i \in DOMAIN s : i \in DOMAIN u /\ u[i] = s[i] /\ i \in Int /\ i <= n
      /\ \A i \in DOMAIN t : i + n \in DOMAIN u /\ u[i + n] = t[i] /\ i \in Int /\ i > 0
      /\ \A i \in DOMAIN u : i \in Int /\
           \/ i <= n /\ i \in DOMAIN s /\ u[i] = s[i]
           \/ i > n /\ i - n \in DOMAIN t /\ u[i] = t[i - n]
  BY <1>1, <1>2, SMT
<1> HIDE DEF u, n
<1>4. In(u, M) <=> In(s, M) \/ In(t, M)
  BY <1>1, <1>3, SMT DEF In
<1>5. Before(u, M, N) <=> Before(s, M, N) \/ Before(t, M, N) \/ (In(s, M) /\ In(t, N))
  <2>1. ASSUME NEW i \in DOMAIN u, NEW j \in DOMAIN u, i < j, u[i] \in M, u[j] \in N
        PROVE  Before(s, M, N) \/ Before(t, M, N) \/ (In(s, M) /\ In(t, N))
    <3>1. CASE j <= n
      <4>1. /\ i \in DOMAIN s /\ s[i] \in M
            /\ j \in DOMAIN s /\ s[j] \in N
        BY <1>1, <1>3, <2>1, <3>1
      <4> QED BY <2>1, <4>1 DEF Before
    <3>2. CASE i > n
      <4>1. /\ i - n \in DOMAIN t /\ t[i - n] \in M
            /\ j - n \in DOMAIN t /\ t[j - n] \in N /\ i - n < j - n
        BY <1>1, <1>3, <2>1, <3>2
      <4> QED BY <4>1 DEF Before
    <3>3. CASE i <= n /\ j > n
      <4>1. /\ i \in DOMAIN s /\ s[i] \in M
            /\ j - n \in DOMAIN t /\ t[j - n] \in N
        BY <1>1, <1>3, <2>1, <3>3
      <4> QED BY <4>1 DEF In
    <3> QED BY <1>1, <1>3, <2>1, <3>1, <3>2, <3>3
  <2>2. Before(s, M, N) => Before(u, M, N)
    BY <1>1, <1>3, SMT DEF Before
  <2>3. Before(t, M, N) => Before(u, M, N)
    BY <1>1, <1>3, SMT DEF Before
  <2>4. In(s, M) /\ In(t, N) => Before(u, M, N)
    BY <1>1, <1>3, SMT DEF In, Before
  <2> QED BY <2>1, <2>2, <2>3, <2>4 DEF Before
<1>6. Once(s, M) /\ ~In(t, M) => Once(u, M)
  BY <1>1, <1>3, SMT DEF In, Once
<1> QED BY <1>4, <1>5, <1>6 DEF u

-----------------------------------------------------------------------------
(* Types. *)

Request == [type : {"AbsCursorPos", "ScreenInfo"}, call : Call]
ToComp  == [type : {"Layers"}, layers : SUBSET Layer] \cup [type : {"draw"}, layer : Layer]
             \cup [type : {"capture"}, call : Call] \cup [type : {"release", "syncLayers"}]
Event   == [type : {"enter"}, layer : Layer] \cup [type : {"done"}, call : Call]
             \cup [type : {"configure"}, layer : Layer, resized : BOOLEAN]
             \cup [type : {"outputs"}, change : 0..MaxChanges, outputs : SUBSET Output]
             \cup [type : {"layersDone"}]

QueuesTyped ==
  /\ reqs \in Seq(Request) /\ toComp \in Seq(ToComp) /\ fromComp \in Seq(Event)
  /\ outputs \subseteq Output /\ changes \in 0..MaxChanges
  /\ {active, pinned} \subseteq BOOLEAN

CompTyped == CompTypeOK /\ QueuesTyped

LEMMA LayersAreFinite == ASSUME NEW S \in SUBSET Layer PROVE Cardinality(S) \in Nat
<1> DEFINE P == (0..MaxChanges) \X Output
           f == [p \in P |-> [change |-> p[1], output |-> p[2]]]
<1>1. IsFiniteSet(0..MaxChanges)
  BY FS_Interval, CompositorAssumption
<1>2. IsFiniteSet(P)
  BY <1>1, FS_Product, CompositorAssumption
<1>3. f \in Surjection(P, Layer)
  <2>1. f \in [P -> Layer]
    BY DEF Layer
  <2>2. ASSUME NEW l \in Layer PROVE \E p \in P : f[p] = l
    <3>1. <<l.change, l.output>> \in P /\ f[<<l.change, l.output>>] = l
      BY DEF Layer
    <3> QED BY <3>1
  <2> QED BY <2>1, <2>2 DEF Surjection
<1>4. IsFiniteSet(Layer)
  BY <1>2, <1>3, FS_Surjection DEF ExistsSurjection
<1> QED BY <1>4, FS_Subset, FS_CardinalityType

LEMMA LayersOfOutputs ==
  ASSUME NEW change \in 0..MaxChanges, NEW outs \in SUBSET Output
  PROVE  LayersOf(change, outs) \in SUBSET Layer
BY DEF LayersOf, Layer

LEMMA Sent ==
  /\ \A L \in SUBSET Layer : [type |-> "Layers", layers |-> L] \in ToComp
  /\ \A l \in Layer : [type |-> "draw", layer |-> l] \in ToComp
  /\ \A c \in Call : [type |-> "capture", call |-> c] \in ToComp
  /\ [type |-> "release"] \in ToComp /\ [type |-> "syncLayers"] \in ToComp
BY DEF ToComp

LEMMA Told ==
  /\ \A l \in Layer : [type |-> "enter", layer |-> l] \in Event
  /\ \A c \in Call : [type |-> "done", call |-> c] \in Event
  /\ \A l \in Layer, r \in BOOLEAN : Configure(l, r) \in Event
  /\ \A n \in 0..MaxChanges, O \in SUBSET Output :
       [type |-> "outputs", change |-> n, outputs |-> O] \in Event
  /\ [type |-> "layersDone"] \in Event
BY DEF Event, Configure

LEMMA ReadToComp ==
  ASSUME NEW m \in ToComp
  PROVE  /\ m.type = "Layers" => m.layers \in SUBSET Layer /\ m = [type |-> "Layers", layers |-> m.layers]
         /\ m.type = "draw" => m.layer \in Layer
         /\ m.type = "capture" => m.call \in Call /\ m = [type |-> "capture", call |-> m.call]
BY DEF ToComp

LEMMA ReadEvent ==
  ASSUME NEW m \in Event
  PROVE  /\ m.type = "enter" => m.layer \in Layer /\ m = [type |-> "enter", layer |-> m.layer]
         /\ m.type = "done" => m.call \in Call /\ m = [type |-> "done", call |-> m.call]
         /\ m.type = "configure" => m.layer \in Layer /\ m.resized \in BOOLEAN
         /\ m.type = "outputs" => m.change \in 0..MaxChanges /\ m.outputs \in SUBSET Output
BY DEF Event

LEMMA OneSent == ASSUME NEW S, NEW m \in S PROVE <<m>> \in Seq(S)
OBVIOUS

(* Where the pointer goes, and what the client is told of it. *)
Entered(next) ==
  IF next \notin {NoLayer, focus} THEN <<[type |-> "enter", layer |-> next]>> ELSE <<>>

LEMMA TargetIsDrawn ==
  ASSUME NEW act, NEW on, NEW pos
  PROVE  LET t == Target(act, on, pos) IN
         /\ t \in on \cup {NoLayer}
         /\ act /\ (\E l \in on : l.output = pos) => t \in on /\ t.output = pos
         /\ ~act => t = NoLayer
BY DEF Target

LEMMA Refocused ==
  ASSUME NEW act, NEW on, NEW pos, NEW then, Refocus(act, on, pos, then)
  PROVE  /\ focus' = IF held' THEN focus ELSE Target(act, on, pos)
         /\ focus' \in on \cup {NoLayer, focus}
         /\ fromComp' = fromComp \o Entered(focus') \o then
BY TargetIsDrawn DEF Refocus, Entered

LEMMA EnteredTyped ==
  ASSUME NEW next \in Layer \cup {NoLayer}
  PROVE  Entered(next) \in Seq(Event)
<1>1. CASE next \in {NoLayer, focus}
  BY <1>1 DEF Entered
<1>2. CASE next \notin {NoLayer, focus}
  <2>1. [type |-> "enter", layer |-> next] \in Event
    BY <1>2, Told
  <2> QED BY <1>2, <2>1, OneSent DEF Entered
<1> QED BY <1>1, <1>2

LEMMA TypesBegin == CompInit => CompTyped
<1> SUFFICES ASSUME CompInit PROVE CompTyped
  OBVIOUS
<1>1. outputs \subseteq Output /\ 0 \in 0..MaxChanges
  BY CompositorAssumption DEF CompInit
<1>2. shell_layers \in SUBSET Layer
  BY <1>1, LayersOfOutputs DEF CompInit
<1>3. toComp \in Seq(ToComp)
  BY <1>2, Sent, OneSent DEF CompInit
<1>4. CompTypeOK
  BY <1>1, <1>2 DEF CompInit, CompTypeOK
<1>5. reqs \in Seq(Request) /\ fromComp \in Seq(Event)
  BY EmptySeq DEF CompInit
<1>6. changes \in 0..MaxChanges /\ {active, pinned} \subseteq BOOLEAN
  BY <1>1 DEF CompInit
<1> QED BY <1>1, <1>3, <1>4, <1>5, <1>6 DEF CompTyped, QueuesTyped

(* A failure ends the thread and changes nothing else. *)
LEMMA FailureEnds ==
  ASSUME DispatchFails \/ DrawFails \/ PoolFails
  PROVE  /\ client' = "failed"
         /\ UNCHANGED <<call, reqs, layering, answer, toComp, fromComp, screens, pointing, user>>
BY DEF DispatchFails, DrawFails, PoolFails, FailsAt, Fails

LEMMA TypesKept ==
  ASSUME CompTyped, [CompNext]_compVars
  PROVE  CompTyped'
<1> USE CompTyped DEF CompTyped
<1> USE DEF CompTypeOK, QueuesTyped
<1>h. ASSUME toComp # <<>>
      PROVE  Head(toComp) \in ToComp /\ Tail(toComp) \in Seq(ToComp)
  BY <1>h, HeadTailProperties
<1>e. ASSUME fromComp # <<>>
      PROVE  Head(fromComp) \in Event /\ Tail(fromComp) \in Seq(Event)
  BY <1>e, HeadTailProperties
<1>r. ASSUME reqs # <<>>
      PROVE  Head(reqs) \in Request /\ Tail(reqs) \in Seq(Request) /\ Head(reqs).call \in Call
  <2>1. Head(reqs) \in Request /\ Tail(reqs) \in Seq(Request)
    BY <1>r, HeadTailProperties
  <2> QED BY <2>1 DEF Request
<1>1. ASSUME NEW c \in Call, NEW type \in {"AbsCursorPos", "ScreenInfo"}, Ask(c, type)
      PROVE  CompTyped'
  <2>1. [type |-> type, call |-> c] \in Request
    BY DEF Request
  <2>2. reqs' \in Seq(Request)
    <3>1. reqs' \in {reqs, Append(reqs, [type |-> type, call |-> c])}
      BY <1>1 DEF Ask
    <3>2. Append(reqs, [type |-> type, call |-> c]) \in Seq(Request)
      BY <2>1, AppendProperties
    <3> QED BY <3>1, <3>2
  <2>3. call' \in [Call -> {"idle", "waiting", "answered", "failed", "timedout", "panicked"}]
    BY <1>1 DEF Ask
  <2>4. hindered' \subseteq Call
    BY <1>1 DEF Ask, Waiting
  <2> QED BY <1>1, <2>2, <2>3, <2>4 DEF Ask, layering, screens, pointing
<1>2. ASSUME NEW c \in Call, TimeOut(c) PROVE CompTyped'
  BY <1>2 DEF TimeOut, clientVars, layering, screens, pointing, failing
<1>3. CASE HandleAbsCursorPos
  <2>1. toComp' \in Seq(ToComp)
    BY <1>3, <1>r, Sent DEF HandleAbsCursorPos, NextRequest
  <2> QED BY <1>3, <1>r, <2>1
          DEF HandleAbsCursorPos, NextRequest, layering, screens, pointing, user, history, failing
<1>4. CASE HandleScreenInfo
  BY <1>4, <1>r DEF HandleScreenInfo, NextRequest, layering, screens, pointing, failing
<1>5. CASE HandleEnter
  <2>1. /\ Head(fromComp) \in Event /\ Head(fromComp).type = "enter"
        /\ fromComp' \in Seq(Event)
    BY <1>5, <1>e DEF HandleEnter, NextEvent
  <2>2. Head(fromComp).layer.output \in Output
    BY <2>1, ReadEvent DEF Layer
  <2>3. answer' \in Output \cup {NoPoint}
    BY <1>5, <2>2 DEF HandleEnter
  <2>4. toComp' \in {toComp, Append(toComp, [type |-> "release"])}
    BY <1>5 DEF HandleEnter
  <2>5. toComp' \in Seq(ToComp)
    <3>1. Append(toComp, [type |-> "release"]) \in Seq(ToComp)
      BY Sent, AppendProperties
    <3> QED BY <2>4, <3>1
  <2> QED BY <1>5, <2>1, <2>3, <2>5
          DEF HandleEnter, layering, screens, pointing, user, history, failing
<1>6. CASE HandleSyncAbsMousePos
  <2>1. /\ Head(fromComp) \in Event /\ Head(fromComp).type = "done"
        /\ fromComp' \in Seq(Event)
    BY <1>6, <1>e DEF HandleSyncAbsMousePos, NextEvent
  <2>2. Head(fromComp).call \in Call
    BY <2>1, ReadEvent
  <2>3. /\ client' \in {"running", "panicked"}
        /\ call' \in [Call -> {"idle", "waiting", "answered", "failed", "timedout", "panicked"}]
    BY <1>6, <2>2 DEF HandleSyncAbsMousePos, NextEvent, Reply
  <2>4. toComp' \in {toComp, Append(toComp, [type |-> "release"])}
    BY <1>6 DEF HandleSyncAbsMousePos
  <2>5. toComp' \in Seq(ToComp)
    <3>1. Append(toComp, [type |-> "release"]) \in Seq(ToComp)
      BY Sent, AppendProperties
    <3> QED BY <2>4, <3>1
  <2> QED BY <1>6, <2>1, <2>3, <2>5 DEF HandleSyncAbsMousePos, layering, screens, pointing
<1>7. CASE HandleLayersConfigured
  BY <1>7, <1>e DEF HandleLayersConfigured, NextEvent, screens, pointing, user, history, failing
<1>8. CASE HandleConfigure
  <2>1. /\ Head(fromComp) \in Event /\ Head(fromComp).type = "configure"
        /\ fromComp' \in Seq(Event)
    BY <1>8, <1>e DEF HandleConfigure, NextEvent
  <2>2. Head(fromComp).layer \in Layer
    BY <2>1, ReadEvent
  <2> DEFINE draw == [type |-> "draw", layer |-> Head(fromComp).layer]
             sync == [type |-> "syncLayers"]
  <2>3. draw \in ToComp /\ sync \in ToComp
    BY <2>2, Sent
  <2>4. <<draw, sync>> \in Seq(ToComp)
    BY <2>3
  <2>5. toComp' \in {toComp, Append(toComp, draw), toComp \o <<draw, sync>>}
    BY <1>8 DEF HandleConfigure
  <2>6. toComp' \in Seq(ToComp)
    <3> HIDE DEF draw, sync
    <3>1. Append(toComp, draw) \in Seq(ToComp) /\ toComp \o <<draw, sync>> \in Seq(ToComp)
      BY <2>3, <2>4, AppendProperties, ConcatProperties
    <3> QED BY <2>5, <3>1
  <2> QED BY <1>8, <2>1, <2>6
          DEF HandleConfigure, screens, pointing, user, history, failing
<1>9. CASE HandleOutputs
  <2>1. /\ Head(fromComp) \in Event /\ Head(fromComp).type = "outputs"
        /\ fromComp' \in Seq(Event)
    BY <1>9, <1>e DEF HandleOutputs, NextEvent
  <2>2. Head(fromComp).change \in 0..MaxChanges /\ Head(fromComp).outputs \in SUBSET Output
    BY <2>1, ReadEvent
  <2>3. shell_layers' \in SUBSET Layer /\ layers_state' \in {"AwaitingConf", "Empty"}
    BY <1>9, <2>2, LayersOfOutputs DEF HandleOutputs
  <2>4. toComp' \in Seq(ToComp)
    BY <1>9, <2>3, Sent DEF HandleOutputs
  <2> QED BY <1>9, <2>1, <2>3, <2>4
          DEF HandleOutputs, screens, pointing, user, history, failing
<1>10. CASE LayersReplaced
  <2>1. /\ Head(toComp) \in ToComp /\ Head(toComp).type = "Layers" /\ toComp' \in Seq(ToComp)
    BY <1>10, <1>h DEF LayersReplaced, NextFromClient
  <2>2. surfaces' \in SUBSET Layer
    BY <1>10, <2>1, ReadToComp DEF LayersReplaced
  <2>3. fromComp' \in Seq(Event)
    <3>1. PICK order \in SetToSeqs(surfaces') :
            fromComp' = fromComp \o [i \in DOMAIN order |-> Configure(order[i], FALSE)]
      BY <1>10 DEF LayersReplaced
    <3> DEFINE n == Cardinality(surfaces')
               told == [i \in DOMAIN order |-> Configure(order[i], FALSE)]
    <3>2. order \in [1..n -> surfaces'] /\ n \in Nat
      BY <2>2, LayersAreFinite DEF SetToSeqs
    <3>3. \A i \in 1..n : Configure(order[i], FALSE) \in Event
      BY <2>2, <3>2, Told
    <3>4. told \in [1..n -> Event]
      BY <3>2, <3>3
    <3>5. told \in Seq(Event)
      <4> HIDE DEF told, n
      <4> QED BY <3>2, <3>4
    <3> QED BY <3>1, <3>5
  <2> QED BY <1>10, <2>1, <2>2, <2>3
          DEF LayersReplaced, NextFromClient, clientVars, layering, user, history, failing
<1> DEFINE Same == UNCHANGED <<call, clientVars, outputs, changes, user>>
<1>t. \A pos : Target(active, mapped, pos) \in Layer \cup {NoLayer}
  BY TargetIsDrawn
<1>11. CASE LayerDrawn
  <2>1. /\ Head(toComp) \in ToComp /\ Head(toComp).type = "draw" /\ toComp' \in Seq(ToComp)
        /\ Same
    BY <1>11, <1>h DEF LayerDrawn, NextFromClient
  <2>2. mapped' \subseteq surfaces /\ UNCHANGED <<surfaces, active>> /\ mapped \subseteq mapped'
    BY <1>11 DEF LayerDrawn
  <2>3. focus' \in surfaces \cup {NoLayer} /\ fromComp' \in Seq(Event)
    <3>1. CASE Refocus(active, mapped', at, <<>>)
      <4>1. /\ focus' \in mapped' \cup {NoLayer, focus}
            /\ fromComp' = fromComp \o Entered(focus') \o <<>>
        BY <3>1, Refocused
      <4>2. focus' \in surfaces \cup {NoLayer}
        BY <4>1, <2>2
      <4>3. Entered(focus') \in Seq(Event)
        BY <4>2, EnteredTyped
      <4> QED BY <4>1, <4>2, <4>3
    <3>2. CASE UNCHANGED <<fromComp, focus>>
      BY <3>2
    <3> QED BY <1>11, <3>1, <3>2 DEF LayerDrawn
  <2> QED BY <2>1, <2>2, <2>3 DEF clientVars, layering, user, history, failing
<1>12. CASE LayersSynced
  <2>1. toComp' \in Seq(ToComp) /\ Same
    BY <1>12, <1>h DEF LayersSynced, NextFromClient
  <2>2. fromComp' \in Seq(Event)
    BY <1>12, Told DEF LayersSynced
  <2> QED BY <1>12, <2>1, <2>2
          DEF LayersSynced, clientVars, layering, pointing, user, history, failing
<1>13. CASE PointerCaptured
  <2>1. /\ Head(toComp) \in ToComp /\ Head(toComp).type = "capture" /\ toComp' \in Seq(ToComp)
        /\ Same
    BY <1>13, <1>h DEF PointerCaptured, NextFromClient
  <2> DEFINE done == [type |-> "done", call |-> Head(toComp).call]
  <2>2. <<done>> \in Seq(Event)
    BY <2>1, ReadToComp, Told, OneSent
  <2> HIDE DEF done
  <2>3. /\ focus' \in mapped \cup {NoLayer, focus}
        /\ fromComp' = fromComp \o Entered(focus') \o <<done>>
    BY <1>13, Refocused DEF PointerCaptured, done
  <2>4. focus' \in surfaces \cup {NoLayer}
    BY <2>3
  <2>5. fromComp' \in Seq(Event)
    <3>1. Entered(focus') \in Seq(Event)
      BY <2>4, EnteredTyped
    <3> QED BY <2>2, <2>3, <3>1
  <2> QED BY <1>13, <2>1, <2>4, <2>5
          DEF PointerCaptured, clientVars, layering, user, history, failing
<1>14. CASE PointerReleased
  <2>1. toComp' \in Seq(ToComp) /\ Same
    BY <1>14, <1>h DEF PointerReleased, NextFromClient
  <2>2. /\ focus' \in mapped \cup {NoLayer, focus}
        /\ fromComp' = fromComp \o Entered(focus') \o <<>>
    BY <1>14, Refocused DEF PointerReleased
  <2>3. focus' \in surfaces \cup {NoLayer}
    BY <2>2
  <2>4. Entered(focus') \in Seq(Event)
    BY <2>3, EnteredTyped
  <2>5. fromComp' \in Seq(Event)
    BY <2>2, <2>4
  <2> QED BY <1>14, <2>1, <2>3, <2>5
          DEF PointerReleased, clientVars, layering, user, history, failing
<1>15. CASE PointerMoves
  <2>1. /\ focus' \in mapped \cup {NoLayer, focus}
        /\ fromComp' = fromComp \o Entered(focus') \o <<>>
    BY <1>15, Refocused DEF PointerMoves
  <2>2. focus' \in surfaces \cup {NoLayer}
    BY <2>1
  <2>3. Entered(focus') \in Seq(Event)
    BY <2>2, EnteredTyped
  <2>4. fromComp' \in Seq(Event)
    BY <2>1, <2>3
  <2> QED BY <1>15, <2>2, <2>4
          DEF PointerMoves, clientVars, layering, screens, failing
<1>16. CASE ButtonChanges
  <2>1. focus' \in surfaces \cup {NoLayer} /\ fromComp' \in Seq(Event)
    <3>1. CASE Refocus(active, mapped, at, <<>>)
      <4>1. /\ focus' \in mapped \cup {NoLayer, focus}
            /\ fromComp' = fromComp \o Entered(focus') \o <<>>
        BY <3>1, Refocused
      <4>2. focus' \in surfaces \cup {NoLayer}
        BY <4>1
      <4>3. Entered(focus') \in Seq(Event)
        BY <4>2, EnteredTyped
      <4> QED BY <4>1, <4>2, <4>3
    <3>2. CASE UNCHANGED <<fromComp, focus>>
      BY <3>2
    <3> QED BY <1>16, <3>1, <3>2 DEF ButtonChanges
  <2>2. hindered' \subseteq Call
    BY <1>16 DEF ButtonChanges, Waiting
  <2> QED BY <1>16, <2>1, <2>2
          DEF ButtonChanges, clientVars, layering, screens
<1>17. CASE OutputsChange
  <2>1. changes' \in 0..MaxChanges /\ outputs' \subseteq Output
    BY <1>17, CompositorAssumption DEF OutputsChange
  <2>2. fromComp' \in Seq(Event)
    <3>1. [type |-> "outputs", change |-> changes', outputs |-> outputs'] \in Event
      BY <2>1, Told
    <3>2. fromComp' = Append(fromComp, [type |-> "outputs", change |-> changes', outputs |-> outputs'])
      BY <1>17 DEF OutputsChange
    <3> QED BY <3>1, <3>2, AppendProperties
  <2>3. hindered' \subseteq Call
    BY <1>17 DEF OutputsChange, Waiting
  <2>4. surfaces' \subseteq surfaces /\ mapped' \subseteq surfaces' /\ focus' \in surfaces' \cup {NoLayer}
    BY <1>17 DEF OutputsChange
  <2> QED BY <1>17, <2>1, <2>2, <2>3, <2>4 DEF OutputsChange, clientVars, layering
<1>18. CASE LayerResized
  <2>1. changes' \in 0..MaxChanges
    BY <1>18, CompositorAssumption DEF LayerResized
  <2>2. fromComp' \in Seq(Event)
    <3>1. PICK layer \in mapped : fromComp' = Append(fromComp, Configure(layer, TRUE))
      BY <1>18 DEF LayerResized
    <3>2. Configure(layer, TRUE) \in Event
      BY Told
    <3> QED BY <3>1, <3>2, AppendProperties
  <2> QED BY <1>18, <2>1, <2>2
          DEF LayerResized, clientVars, layering, pointing, user, history, failing
<1>19. CASE UNCHANGED compVars
  BY <1>19 DEF compVars, clientVars, layering, screens, pointing, user, history, failing
<1>20. CASE DispatchFails \/ DrawFails \/ PoolFails
  BY <1>20, FailureEnds DEF layering, screens, pointing, user, history, failing
<1> QED
  BY <1>1, <1>2, <1>3, <1>4, <1>5, <1>6, <1>7, <1>8, <1>9, <1>10, <1>11, <1>12, <1>13, <1>14,
     <1>15, <1>16, <1>17, <1>18, <1>19, <1>20
  DEF CompNext, ClientThread, Environment

(* Every variable has its type, whatever the compositor and the user do.     *)
THEOREM CompositorIsTyped == CompSpec => []CompTypeOK
<1>1. CompInit => CompTyped
  BY TypesBegin
<1>2. CompTyped /\ [CompNext]_compVars => CompTyped'
  BY TypesKept
<1>3. CompTyped => CompTypeOK
  BY DEF CompTyped
<1> QED BY <1>1, <1>2, <1>3, PTL DEF CompSpec

-----------------------------------------------------------------------------
(* Calls: each is on its way at one place only. *)

(* What stands for a call, from its request to the end of its sync. *)
AskFor(c) == [type : {"AbsCursorPos", "ScreenInfo", "capture", "done"}, call : {c}]

OnItsWay(c) == In(reqs, AskFor(c)) \/ In(toComp, AskFor(c)) \/ In(fromComp, AskFor(c))

AtOnePlace(c) ==
  /\ Once(reqs, AskFor(c)) /\ Once(toComp, AskFor(c)) /\ Once(fromComp, AskFor(c))
  /\ ~(In(reqs, AskFor(c)) /\ In(toComp, AskFor(c)))
  /\ ~(In(reqs, AskFor(c)) /\ In(fromComp, AskFor(c)))
  /\ ~(In(toComp, AskFor(c)) /\ In(fromComp, AskFor(c)))

CallsInv ==
  /\ \A c \in Call :
       /\ AtOnePlace(c)
       /\ OnItsWay(c) => call[c] \in {"waiting", "timedout"}
       /\ client = "running" /\ call[c] = "waiting" => OnItsWay(c)
  /\ OnlyLateRepliesPanic

(* t has what s has, as far as calls go. *)
SameCalls(s, t) ==
  \A c \in Call : /\ In(t, AskFor(c)) <=> In(s, AskFor(c))
                  /\ Once(s, AskFor(c)) => Once(t, AskFor(c))

OfNoCall(m) == \A c \in Call : m \notin AskFor(c)

LEMMA TypesTellCalls ==
  /\ \A m : m.type \notin {"AbsCursorPos", "ScreenInfo", "capture", "done"} => OfNoCall(m)
  /\ \A c, d \in Call, type \in {"AbsCursorPos", "ScreenInfo", "capture", "done"} :
       [type |-> type, call |-> d] \in AskFor(c) <=> c = d
BY DEF AskFor, OfNoCall

LEMMA RequestsAsk ==
  ASSUME NEW m \in Request, NEW c \in Call
  PROVE  m \in AskFor(c) <=> m.call = c
BY DEF Request, AskFor

LEMMA SameAppended ==
  ASSUME NEW S, NEW s \in Seq(S), NEW m \in S, OfNoCall(m)
  PROVE  SameCalls(s, Append(s, m))
BY Appended DEF SameCalls, OfNoCall

LEMMA SameTaken ==
  ASSUME NEW S, NEW s \in Seq(S), s # <<>>, OfNoCall(Head(s))
  PROVE  SameCalls(s, Tail(s))
BY Taken DEF SameCalls, OfNoCall

LEMMA SameJoined ==
  ASSUME NEW S, NEW s \in Seq(S), NEW t \in Seq(S), \A c \in Call : ~In(t, AskFor(c))
  PROVE  SameCalls(s, s \o t)
BY Joined DEF SameCalls

LEMMA SameItself == \A s : SameCalls(s, s)
BY DEF SameCalls

LEMMA EnteredIsOfNoCall ==
  ASSUME NEW next, NEW c \in Call
  PROVE  ~In(Entered(next), AskFor(c))
<1>1. OfNoCall([type |-> "enter", layer |-> next])
  BY TypesTellCalls
<1> QED BY <1>1 DEF Entered, In, OfNoCall

(* A step that moves no call. *)
LEMMA CallsUntouched ==
  ASSUME CallsInv, UNCHANGED <<call, client>>,
         SameCalls(reqs, reqs'), SameCalls(toComp, toComp'), SameCalls(fromComp, fromComp')
  PROVE  CallsInv'
<1>1. OnlyLateRepliesPanic'
  BY DEF CallsInv, OnlyLateRepliesPanic
<1>2. ASSUME NEW c \in Call
      PROVE  AtOnePlace(c)' /\ (OnItsWay(c)' <=> OnItsWay(c))
  BY DEF CallsInv, AtOnePlace, OnItsWay, SameCalls
<1> QED BY <1>1, <1>2 DEF CallsInv

LEMMA CallsBegin == CompInit => CallsInv
<1> SUFFICES ASSUME CompInit PROVE CallsInv
  OBVIOUS
<1>1. OfNoCall([type |-> "Layers", layers |-> shell_layers])
  BY TypesTellCalls
<1>2. \A c \in Call : ~In(toComp, AskFor(c)) /\ Once(toComp, AskFor(c))
  BY <1>1 DEF CompInit, In, Once, OfNoCall
<1>3. \A c \in Call : /\ ~In(reqs, AskFor(c)) /\ ~In(fromComp, AskFor(c))
                      /\ Once(reqs, AskFor(c)) /\ Once(fromComp, AskFor(c))
  BY Empty DEF CompInit
<1>4. \A c \in Call : AtOnePlace(c) /\ ~OnItsWay(c) /\ call[c] = "idle"
  BY <1>2, <1>3 DEF AtOnePlace, OnItsWay, CompInit
<1>5. OnlyLateRepliesPanic
  BY DEF OnlyLateRepliesPanic, CompInit
<1> QED BY <1>4, <1>5 DEF CallsInv

LEMMA CallsKept ==
  ASSUME CompTyped, CompTyped', CallsInv, [CompNext]_compVars
  PROVE  CallsInv'
<1>t. /\ reqs \in Seq(Request) /\ toComp \in Seq(ToComp) /\ fromComp \in Seq(Event)
      /\ reqs' \in Seq(Request) /\ toComp' \in Seq(ToComp) /\ fromComp' \in Seq(Event)
      /\ call \in [Call -> {"idle", "waiting", "answered", "failed", "timedout", "panicked"}]
      /\ client \in {"running", "panicked", "failed"}
  BY DEF CompTyped, QueuesTyped, CompTypeOK
<1>h. ASSUME toComp # <<>> PROVE Head(toComp) \in ToComp
  BY <1>h, <1>t, HeadTailProperties
<1>e. ASSUME fromComp # <<>> PROVE Head(fromComp) \in Event
  BY <1>e, <1>t, HeadTailProperties
<1>r. ASSUME reqs # <<>> PROVE Head(reqs) \in Request /\ Head(reqs).call \in Call
  <2>1. Head(reqs) \in Request
    BY <1>r, <1>t, HeadTailProperties
  <2> QED BY <2>1 DEF Request
<1>o. SameCalls(reqs, reqs) /\ SameCalls(toComp, toComp) /\ SameCalls(fromComp, fromComp)
  BY SameItself
<1>1. ASSUME NEW c \in Call, NEW type \in {"AbsCursorPos", "ScreenInfo"}, Ask(c, type)
      PROVE  CallsInv'
  <2>1. ~OnItsWay(c) /\ call[c] = "idle" /\ UNCHANGED <<client, toComp, fromComp>>
    BY <1>1 DEF CallsInv, Ask
  <2>2. CASE client = "running"
    <3> DEFINE m == [type |-> type, call |-> c]
    <3>1. /\ reqs' = Append(reqs, m)
          /\ call' = [call EXCEPT ![c] = "waiting"]
      BY <1>1, <2>2 DEF Ask
    <3>2. m \in Request /\ (\A d \in Call : m \in AskFor(d) <=> d = c)
      BY TypesTellCalls DEF Request
    <3> HIDE DEF m
    <3>3. ASSUME NEW d \in Call
          PROVE  /\ In(reqs', AskFor(d)) <=> In(reqs, AskFor(d)) \/ d = c
                 /\ Once(reqs, AskFor(d)) /\ ~(In(reqs, AskFor(d)) /\ d = c) => Once(reqs', AskFor(d))
      BY <1>t, <3>1, <3>2, Appended
    <3>4. ASSUME NEW d \in Call
          PROVE  AtOnePlace(d)' /\ (OnItsWay(d)' <=> OnItsWay(d) \/ d = c)
      BY <2>1, <3>3 DEF CallsInv, AtOnePlace, OnItsWay
    <3> QED BY <1>t, <2>1, <2>2, <3>1, <3>4 DEF CallsInv, OnlyLateRepliesPanic
  <2>3. CASE client # "running"
    <3>1. /\ reqs' = reqs
          /\ call' = [call EXCEPT ![c] = "panicked"]
      BY <1>1, <2>3 DEF Ask
    <3>2. \A d \in Call : AtOnePlace(d)' /\ (OnItsWay(d)' <=> OnItsWay(d))
      BY <2>1, <3>1 DEF CallsInv, AtOnePlace, OnItsWay
    <3> QED BY <1>t, <2>1, <2>3, <3>1, <3>2 DEF CallsInv, OnlyLateRepliesPanic
  <2> QED BY <1>t, <2>2, <2>3
<1>2. ASSUME NEW c \in Call, TimeOut(c) PROVE CallsInv'
  <2>1. /\ call[c] = "waiting" /\ call' = [call EXCEPT ![c] = "timedout"]
        /\ UNCHANGED <<reqs, client, toComp, fromComp>>
    BY <1>2 DEF TimeOut, clientVars
  <2>2. \A d \in Call : AtOnePlace(d)' /\ (OnItsWay(d)' <=> OnItsWay(d))
    BY <2>1 DEF CallsInv, AtOnePlace, OnItsWay
  <2> QED BY <1>t, <2>1, <2>2 DEF CallsInv, OnlyLateRepliesPanic
<1>3. CASE HandleAbsCursorPos
  <2> DEFINE c == Head(reqs).call
             m == [type |-> "capture", call |-> c]
  <2>1. /\ reqs # <<>> /\ reqs' = Tail(reqs) /\ toComp' = Append(toComp, m)
        /\ UNCHANGED <<call, client, fromComp>> /\ Head(reqs) \in Request /\ c \in Call
    BY <1>3, <1>r DEF HandleAbsCursorPos, NextRequest
  <2>2. m \in ToComp /\ (\A d \in Call : m \in AskFor(d) <=> d = c)
    BY <2>1, TypesTellCalls, Sent
  <2>3. \A d \in Call : Head(reqs) \in AskFor(d) <=> d = c
    BY <2>1, RequestsAsk
  <2> HIDE DEF m, c
  <2>4. ASSUME NEW d \in Call
        PROVE  /\ In(reqs, AskFor(d)) <=> d = c \/ In(reqs', AskFor(d))
               /\ Once(reqs, AskFor(d)) => Once(reqs', AskFor(d)) /\ ~(d = c /\ In(reqs', AskFor(d)))
    BY <1>t, <2>1, <2>3, Taken
  <2>5. ASSUME NEW d \in Call
        PROVE  /\ In(toComp', AskFor(d)) <=> In(toComp, AskFor(d)) \/ d = c
               /\ Once(toComp, AskFor(d)) /\ ~(In(toComp, AskFor(d)) /\ d = c) => Once(toComp', AskFor(d))
    BY <1>t, <2>1, <2>2, Appended
  <2>6. ASSUME NEW d \in Call
        PROVE  AtOnePlace(d)' /\ (OnItsWay(d)' <=> OnItsWay(d))
    BY <2>1, <2>4, <2>5 DEF CallsInv, AtOnePlace, OnItsWay
  <2> QED BY <2>1, <2>6 DEF CallsInv, OnlyLateRepliesPanic
<1>4. CASE HandleScreenInfo
  <2> DEFINE c == Head(reqs).call
  <2>1. /\ reqs # <<>> /\ reqs' = Tail(reqs)
        /\ call' = [call EXCEPT ![c] = IF @ = "waiting" THEN "answered" ELSE @]
        /\ UNCHANGED <<toComp, client, fromComp>> /\ Head(reqs) \in Request /\ c \in Call
    BY <1>4, <1>r DEF HandleScreenInfo, NextRequest
  <2>2. \A d \in Call : Head(reqs) \in AskFor(d) <=> d = c
    BY <2>1, RequestsAsk
  <2> HIDE DEF c
  <2>3. ASSUME NEW d \in Call
        PROVE  /\ In(reqs, AskFor(d)) <=> d = c \/ In(reqs', AskFor(d))
               /\ Once(reqs, AskFor(d)) => Once(reqs', AskFor(d)) /\ ~(d = c /\ In(reqs', AskFor(d)))
    BY <1>t, <2>1, <2>2, Taken
  <2>4. ASSUME NEW d \in Call
        PROVE  AtOnePlace(d)' /\ (OnItsWay(d)' <=> OnItsWay(d) /\ d # c)
    BY <2>1, <2>3 DEF CallsInv, AtOnePlace, OnItsWay
  <2> QED BY <1>t, <2>1, <2>4 DEF CallsInv, OnlyLateRepliesPanic
<1>5. CASE HandleSyncAbsMousePos
  <2> DEFINE c == Head(fromComp).call
  <2>1. /\ client = "running" /\ fromComp # <<>> /\ fromComp' = Tail(fromComp) /\ reqs' = reqs
        /\ Head(fromComp) \in Event /\ Head(fromComp).type = "done"
    BY <1>5, <1>e DEF HandleSyncAbsMousePos, NextEvent
  <2>2. /\ c \in Call
        /\ \A d \in Call : Head(fromComp) \in AskFor(d) <=> d = c
    <3>1. c \in Call /\ Head(fromComp) = [type |-> "done", call |-> c]
      BY <2>1, ReadEvent
    <3> HIDE DEF c
    <3>2. \A d \in Call : [type |-> "done", call |-> c] \in AskFor(d) <=> d = c
      BY <3>1, TypesTellCalls
    <3> QED BY <3>1, <3>2
  <2>3. SameCalls(toComp, toComp')
    <3>1. OfNoCall([type |-> "release"])
      BY TypesTellCalls
    <3>2. SameCalls(toComp, Append(toComp, [type |-> "release"]))
      BY <1>t, <3>1, Sent, SameAppended
    <3>3. toComp' \in {toComp, Append(toComp, [type |-> "release"])}
      BY <1>5 DEF HandleSyncAbsMousePos
    <3> QED BY <1>o, <3>2, <3>3
  <2>4. \/ /\ call[c] = "waiting" /\ client' = client
           /\ \E reply \in {"answered", "failed"} : call' = [call EXCEPT ![c] = reply]
        \/ call[c] # "waiting" /\ client' = "panicked" /\ call' = call
    BY <1>5 DEF HandleSyncAbsMousePos, Reply
  <2> HIDE DEF c
  <2>5. ASSUME NEW d \in Call
        PROVE  /\ In(fromComp, AskFor(d)) <=> d = c \/ In(fromComp', AskFor(d))
               /\ Once(fromComp, AskFor(d)) =>
                    Once(fromComp', AskFor(d)) /\ ~(d = c /\ In(fromComp', AskFor(d)))
    BY <1>t, <2>1, <2>2, Taken
  <2>6. ASSUME NEW d \in Call
        PROVE  AtOnePlace(d)' /\ (OnItsWay(d)' <=> OnItsWay(d) /\ d # c)
    BY <2>1, <2>3, <2>5 DEF CallsInv, AtOnePlace, OnItsWay, SameCalls
  <2>7. call[c] \in {"waiting", "timedout"}
    BY <2>2, <2>5 DEF CallsInv, OnItsWay
  <2>8. CASE call[c] = "waiting"
    BY <1>t, <2>1, <2>2, <2>4, <2>6, <2>8 DEF CallsInv, OnlyLateRepliesPanic
  <2>9. CASE call[c] # "waiting"
    BY <2>2, <2>4, <2>6, <2>7, <2>9 DEF CallsInv, OnlyLateRepliesPanic
  <2> QED BY <2>8, <2>9
<1>6. CASE PointerCaptured
  <2> DEFINE c == Head(toComp).call
             m == [type |-> "done", call |-> c]
  <2>1. /\ toComp # <<>> /\ toComp' = Tail(toComp) /\ UNCHANGED <<call, client, reqs>>
        /\ Head(toComp) \in ToComp /\ Head(toComp).type = "capture"
    BY <1>6, <1>h DEF PointerCaptured, NextFromClient, clientVars
  <2>2. /\ c \in Call
        /\ \A d \in Call : Head(toComp) \in AskFor(d) <=> d = c
    <3>1. c \in Call /\ Head(toComp) = [type |-> "capture", call |-> c]
      BY <2>1, ReadToComp
    <3> HIDE DEF c
    <3>2. \A d \in Call : [type |-> "capture", call |-> c] \in AskFor(d) <=> d = c
      BY <3>1, TypesTellCalls
    <3> QED BY <3>1, <3>2
  <2>3. m \in Event /\ (\A d \in Call : m \in AskFor(d) <=> d = c)
    BY <2>2, TypesTellCalls, Told
  <2> HIDE DEF m, c
  <2>4. fromComp' = fromComp \o Entered(focus') \o <<m>> /\ focus' \in mapped \cup {NoLayer, focus}
    BY <1>6, Refocused DEF PointerCaptured, m, c
  <2> DEFINE s == fromComp \o Entered(focus')
  <2>5. s \in Seq(Event) /\ SameCalls(fromComp, s)
    <3>1. focus' \in Layer \cup {NoLayer}
      BY <2>4 DEF CompTyped, CompTypeOK
    <3>2. Entered(focus') \in Seq(Event)
      BY <3>1, EnteredTyped
    <3> QED BY <1>t, <3>2, EnteredIsOfNoCall, SameJoined, ConcatProperties
  <2>6. fromComp' = Append(s, m)
    <3> HIDE DEF s
    <3>1. s \o <<m>> = Append(s, m)
      BY <2>3, <2>5
    <3> QED BY <2>4, <3>1 DEF s
  <2> HIDE DEF s
  <2>7. ASSUME NEW d \in Call
        PROVE  /\ In(fromComp', AskFor(d)) <=> In(s, AskFor(d)) \/ d = c
               /\ Once(s, AskFor(d)) /\ ~(In(s, AskFor(d)) /\ d = c) => Once(fromComp', AskFor(d))
    BY <2>3, <2>5, <2>6, Appended
  <2>8. ASSUME NEW d \in Call
        PROVE  /\ In(toComp, AskFor(d)) <=> d = c \/ In(toComp', AskFor(d))
               /\ Once(toComp, AskFor(d)) =>
                    Once(toComp', AskFor(d)) /\ ~(d = c /\ In(toComp', AskFor(d)))
    BY <1>t, <2>1, <2>2, Taken
  <2>9. ASSUME NEW d \in Call
        PROVE  AtOnePlace(d)' /\ (OnItsWay(d)' <=> OnItsWay(d))
    BY <2>1, <2>5, <2>7, <2>8 DEF CallsInv, AtOnePlace, OnItsWay, SameCalls
  <2> QED BY <2>1, <2>9 DEF CallsInv, OnlyLateRepliesPanic
<1> DEFINE Quiet == /\ UNCHANGED <<call, client, reqs>>
                    /\ SameCalls(toComp, toComp') /\ SameCalls(fromComp, fromComp')
<1>q. Quiet => CallsInv'
  BY <1>o, CallsUntouched
<1>s. ASSUME NEW m \in ToComp, m.type # "capture"
      PROVE  SameCalls(toComp, Append(toComp, m))
  <2>1. OfNoCall(m)
    BY <1>s, TypesTellCalls DEF ToComp
  <2> QED BY <1>t, <2>1, SameAppended
<1>n. ASSUME NEW m \in Event, m.type # "done"
      PROVE  SameCalls(fromComp, Append(fromComp, m))
  <2>1. OfNoCall(m)
    BY <1>n, TypesTellCalls DEF Event
  <2> QED BY <1>t, <2>1, SameAppended
<1>a. ASSUME fromComp # <<>>, Head(fromComp).type # "done"
      PROVE  SameCalls(fromComp, Tail(fromComp))
  <2>1. OfNoCall(Head(fromComp))
    BY <1>a, <1>e, TypesTellCalls DEF Event
  <2> QED BY <1>t, <1>a, <2>1, SameTaken
<1>b. ASSUME toComp # <<>>, Head(toComp).type # "capture"
      PROVE  SameCalls(toComp, Tail(toComp))
  <2>1. OfNoCall(Head(toComp))
    BY <1>b, <1>h, TypesTellCalls DEF ToComp
  <2> QED BY <1>t, <1>b, <2>1, SameTaken
<1>f. ASSUME NEW act, NEW pos, NEW on \in SUBSET Layer, Refocus(act, on, pos, <<>>)
      PROVE  SameCalls(fromComp, fromComp')
  <2>1. focus' \in Layer \cup {NoLayer} /\ fromComp' = fromComp \o Entered(focus') \o <<>>
    BY <1>f, Refocused DEF CompTyped, CompTypeOK
  <2>2. Entered(focus') \in Seq(Event)
    BY <2>1, EnteredTyped
  <2>3. fromComp' = fromComp \o Entered(focus')
    BY <1>t, <2>1, <2>2
  <2> QED BY <1>t, <2>2, <2>3, EnteredIsOfNoCall, SameJoined
<1>m. mapped \in SUBSET Layer /\ mapped' \in SUBSET Layer
  BY DEF CompTyped, CompTypeOK
<1>7. CASE HandleEnter
  <2>1. SameCalls(toComp, toComp')
    <3>1. toComp' \in {toComp, Append(toComp, [type |-> "release"])}
      BY <1>7 DEF HandleEnter
    <3>2. SameCalls(toComp, Append(toComp, [type |-> "release"]))
      BY <1>s, Sent
    <3> QED BY <1>o, <3>1, <3>2
  <2> QED BY <1>7, <1>a, <1>q, <2>1 DEF HandleEnter, NextEvent
<1>8. CASE HandleLayersConfigured
  BY <1>8, <1>a, <1>o, <1>q DEF HandleLayersConfigured, NextEvent
<1>9. CASE HandleConfigure
  <2> DEFINE draw == [type |-> "draw", layer |-> Head(fromComp).layer]
             sync == [type |-> "syncLayers"]
  <2>1. draw \in ToComp /\ sync \in ToComp
    <3>1. Head(fromComp).layer \in Layer
      BY <1>9, <1>e, ReadEvent DEF HandleConfigure, NextEvent
    <3> QED BY <3>1, Sent
  <2>2. OfNoCall(draw) /\ OfNoCall(sync)
    BY TypesTellCalls
  <2>3. toComp' \in {toComp, Append(toComp, draw), toComp \o <<draw, sync>>}
    BY <1>9 DEF HandleConfigure
  <2> HIDE DEF draw, sync
  <2>4. SameCalls(toComp, toComp')
    <3>1. <<draw, sync>> \in Seq(ToComp) /\ (\A c \in Call : ~In(<<draw, sync>>, AskFor(c)))
      BY <2>1, <2>2 DEF In, OfNoCall
    <3>2. SameCalls(toComp, toComp \o <<draw, sync>>)
      BY <1>t, <3>1, SameJoined
    <3>3. SameCalls(toComp, Append(toComp, draw))
      BY <1>t, <2>1, <2>2, SameAppended
    <3> QED BY <1>o, <2>3, <3>2, <3>3
  <2> QED BY <1>9, <1>a, <1>q, <2>4 DEF HandleConfigure, NextEvent
<1>10. CASE HandleOutputs
  <2>1. shell_layers' \in SUBSET Layer
    BY DEF CompTyped, CompTypeOK
  <2>2. SameCalls(toComp, toComp')
    <3>1. SameCalls(toComp, Append(toComp, [type |-> "Layers", layers |-> shell_layers']))
      BY <1>s, <2>1, Sent
    <3> QED BY <1>10, <3>1 DEF HandleOutputs
  <2> QED BY <1>10, <1>a, <1>q, <2>2 DEF HandleOutputs, NextEvent
<1>11. CASE LayersReplaced
  <2>1. PICK order \in SetToSeqs(surfaces') :
          fromComp' = fromComp \o [i \in DOMAIN order |-> Configure(order[i], FALSE)]
    BY <1>11 DEF LayersReplaced
  <2> DEFINE n == Cardinality(surfaces')
             told == [i \in DOMAIN order |-> Configure(order[i], FALSE)]
  <2>2. order \in [1..n -> surfaces'] /\ n \in Nat /\ surfaces' \in SUBSET Layer
    BY LayersAreFinite DEF SetToSeqs, CompTyped, CompTypeOK
  <2>3. \A i \in 1..n : Configure(order[i], FALSE) \in Event
    BY <2>2, Told
  <2>4. told \in [1..n -> Event]
    BY <2>2, <2>3
  <2>5. \A c \in Call : ~In(told, AskFor(c))
    <3>1. \A l : OfNoCall(Configure(l, FALSE))
      BY TypesTellCalls DEF Configure
    <3> QED BY <2>2, <3>1 DEF In, OfNoCall
  <2>6. SameCalls(fromComp, fromComp')
    <3> HIDE DEF told, n
    <3>1. told \in Seq(Event)
      BY <2>2, <2>4
    <3>2. fromComp' = fromComp \o told
      BY <2>1 DEF told
    <3> QED BY <1>t, <2>5, <3>1, <3>2, SameJoined
  <2> QED BY <1>11, <1>b, <1>q, <2>6 DEF LayersReplaced, NextFromClient, clientVars
<1>12. CASE LayerDrawn
  <2>1. SameCalls(fromComp, fromComp')
    <3>1. CASE Refocus(active, mapped', at, <<>>)
      BY <1>f, <1>m, <3>1
    <3>2. CASE UNCHANGED <<fromComp, focus>>
      BY <1>o, <3>2
    <3> QED BY <1>12, <3>1, <3>2 DEF LayerDrawn
  <2> QED BY <1>12, <1>b, <1>q, <2>1 DEF LayerDrawn, NextFromClient, clientVars
<1>13. CASE LayersSynced
  <2>1. SameCalls(fromComp, fromComp')
    BY <1>13, <1>n, Told DEF LayersSynced
  <2> QED BY <1>13, <1>b, <1>q, <2>1 DEF LayersSynced, NextFromClient, clientVars
<1>14. CASE PointerReleased
  <2>1. SameCalls(fromComp, fromComp')
    BY <1>14, <1>f, <1>m DEF PointerReleased
  <2> QED BY <1>14, <1>b, <1>q, <2>1 DEF PointerReleased, NextFromClient, clientVars
<1>15. CASE PointerMoves
  <2>1. SameCalls(fromComp, fromComp')
    BY <1>15, <1>f, <1>m DEF PointerMoves
  <2> QED BY <1>15, <1>o, <1>q, <2>1 DEF PointerMoves, clientVars
<1>16. CASE ButtonChanges
  <2>1. SameCalls(fromComp, fromComp')
    <3>1. CASE Refocus(active, mapped, at, <<>>)
      BY <1>f, <1>m, <3>1
    <3>2. CASE UNCHANGED <<fromComp, focus>>
      BY <1>o, <3>2
    <3> QED BY <1>16, <3>1, <3>2 DEF ButtonChanges
  <2> QED BY <1>16, <1>o, <1>q, <2>1 DEF ButtonChanges, clientVars
<1>17. CASE OutputsChange
  <2> DEFINE m == [type |-> "outputs", change |-> changes', outputs |-> outputs']
  <2>1. m \in Event /\ m.type # "done"
    BY Told DEF CompTyped, QueuesTyped
  <2>2. SameCalls(fromComp, fromComp')
    BY <1>17, <1>n, <2>1 DEF OutputsChange
  <2> QED BY <1>17, <1>o, <1>q, <2>2 DEF OutputsChange, clientVars
<1>18. CASE LayerResized
  <2>1. PICK layer \in mapped : fromComp' = Append(fromComp, Configure(layer, TRUE))
    BY <1>18 DEF LayerResized
  <2>2. Configure(layer, TRUE) \in Event /\ Configure(layer, TRUE).type # "done"
    BY <1>m, Told DEF Configure
  <2>3. SameCalls(fromComp, fromComp')
    BY <1>n, <2>1, <2>2
  <2> QED BY <1>18, <1>o, <1>q, <2>3 DEF LayerResized, clientVars
<1>19. CASE UNCHANGED compVars
  BY <1>19, <1>o, <1>q DEF compVars, clientVars
<1>20. CASE DispatchFails \/ DrawFails \/ PoolFails
  <2>1. client' = "failed" /\ UNCHANGED <<call, reqs, toComp, fromComp>>
    BY <1>20, FailureEnds
  <2>2. \A c \in Call : AtOnePlace(c)' /\ (OnItsWay(c)' <=> OnItsWay(c))
    BY <2>1 DEF CallsInv, AtOnePlace, OnItsWay
  <2> QED BY <2>1, <2>2 DEF CallsInv, OnlyLateRepliesPanic
<1> QED
  BY <1>1, <1>2, <1>3, <1>4, <1>5, <1>6, <1>7, <1>8, <1>9, <1>10, <1>11, <1>12, <1>13, <1>14,
     <1>15, <1>16, <1>17, <1>18, <1>19, <1>20
  DEF CompNext, ClientThread, Environment

(* A call is on its way at one place, from its request to its answer: none is *)
(* left waiting by a thread with nothing to do, whatever the pointer and the  *)
(* outputs do.                                                                *)
THEOREM CallsAreNotForgotten == CompSpec => []NoCallForgotten
<1>1. CompInit => CompTyped /\ CallsInv
  BY TypesBegin, CallsBegin
<1>2. CompTyped /\ CallsInv /\ [CompNext]_compVars => (CompTyped /\ CallsInv)'
  BY TypesKept, CallsKept
<1>3. CallsInv => NoCallForgotten
  BY Empty DEF CallsInv, NoCallForgotten, Settled, OnItsWay
<1> QED BY <1>1, <1>2, <1>3, PTL DEF CompSpec

(* A call is never sent two replies, and of the replies that are sent none but *)
(* a late one panics the thread, however many calls overlap.  What else ends  *)
(* the thread, a connection or memory that fails, has nothing to do with a    *)
(* reply: `Fails`.                                                            *)
THEOREM LateRepliesAlonePanic == CompSpec => []OnlyLateRepliesPanic
<1>1. CompInit => CompTyped /\ CallsInv
  BY TypesBegin, CallsBegin
<1>2. CompTyped /\ CallsInv /\ [CompNext]_compVars => (CompTyped /\ CallsInv)'
  BY TypesKept, CallsKept
<1>3. CallsInv => OnlyLateRepliesPanic
  BY DEF CallsInv
<1> QED BY <1>1, <1>2, <1>3, PTL DEF CompSpec

-----------------------------------------------------------------------------
(* The layers and the pointer. *)

Replacing   == [type : {"Layers"}, layers : SUBSET Layer]
Releasing   == {[type |-> "release"]}
Entering(l) == [type : {"enter"}, layer : {l}]

(* Who holds the pointer lets go when what is under way is handled: the enter *)
(* is answered with a release, or the layer is not one of the client's, and   *)
(* then all layers are about to be replaced.                                  *)
PointerIsFreed ==
  active /\ focus # NoLayer /\ ~pinned =>
    In(toComp, Releasing) \/ In(toComp, Replacing) \/ In(fromComp, Entering(focus))

FocusInv ==
  /\ held \/ ~active => pinned \/ focus = NoLayer
  /\ surfaces \subseteq shell_layers \/ In(toComp, Replacing)
  /\ LastIs(toComp, Replacing, [type |-> "Layers", layers |-> shell_layers])
  /\ PointerIsFreed

KeepsRequests(s, t) ==
  /\ In(s, Releasing) => In(t, Releasing)
  /\ In(s, Replacing) => In(t, Replacing)
  /\ \A m : LastIs(s, Replacing, m) => LastIs(t, Replacing, m)

KeepsEnters(s, t) == \A l : In(s, Entering(l)) => In(t, Entering(l))

LEMMA KeepsAll == \A s : KeepsRequests(s, s) /\ KeepsEnters(s, s)
BY DEF KeepsRequests, KeepsEnters

LEMMA RequestAdded ==
  ASSUME NEW s \in Seq(ToComp), NEW m \in ToComp, m.type # "Layers"
  PROVE  KeepsRequests(s, Append(s, m))
<1>1. m \notin Replacing
  BY DEF Replacing
<1> QED BY <1>1, Appended DEF KeepsRequests

LEMMA RequestTaken ==
  ASSUME NEW s \in Seq(ToComp), s # <<>>, Head(s).type \notin {"Layers", "release"}
  PROVE  KeepsRequests(s, Tail(s))
<1>1. Head(s) \notin Replacing /\ Head(s) \notin Releasing
  BY DEF Replacing, Releasing
<1> QED BY <1>1, Taken DEF KeepsRequests

LEMMA EnterKept ==
  ASSUME NEW s \in Seq(Event), s # <<>>, Head(s).type # "enter"
  PROVE  KeepsEnters(s, Tail(s))
<1>1. \A l : Head(s) \notin Entering(l)
  BY DEF Entering
<1> QED BY <1>1, Taken DEF KeepsEnters

LEMMA EnterAdded ==
  ASSUME NEW s \in Seq(Event), NEW m \in Event
  PROVE  KeepsEnters(s, Append(s, m))
BY Appended DEF KeepsEnters

LEMMA EntersFollow ==
  ASSUME CompTyped, NEW act, NEW on \in SUBSET Layer, NEW pos, NEW then \in Seq(Event),
         Refocus(act, on, pos, then)
  PROVE  /\ KeepsEnters(fromComp, fromComp')
         /\ focus' \notin {NoLayer, focus} => In(fromComp', Entering(focus'))
<1>1. /\ focus' \in Layer \cup {NoLayer}
      /\ fromComp' = fromComp \o Entered(focus') \o then
  BY Refocused DEF CompTyped, CompTypeOK
<1>2. Entered(focus') \in Seq(Event) /\ fromComp \in Seq(Event)
  BY <1>1, EnteredTyped DEF CompTyped, QueuesTyped
<1> DEFINE s == fromComp \o Entered(focus')
<1>3. s \in Seq(Event)
  BY <1>2, ConcatProperties
<1>4. \A l : In(fromComp', Entering(l)) <=> In(s, Entering(l)) \/ In(then, Entering(l))
  <2> HIDE DEF s
  <2>1. \A l : In(s \o then, Entering(l)) <=> In(s, Entering(l)) \/ In(then, Entering(l))
    BY <1>3, Joined
  <2> QED BY <1>1, <2>1 DEF s
<1>5. \A l : In(s, Entering(l)) <=> In(fromComp, Entering(l)) \/ In(Entered(focus'), Entering(l))
  BY <1>2, Joined
<1>6. focus' \notin {NoLayer, focus} => In(Entered(focus'), Entering(focus'))
  BY DEF Entered, Entering, In
<1> QED BY <1>4, <1>5, <1>6 DEF KeepsEnters

(* A step that leaves the pointer where it is. *)
LEMMA FocusUntouched ==
  ASSUME FocusInv, UNCHANGED <<held, active, focus, pinned, shell_layers>>,
         surfaces' \subseteq surfaces,
         KeepsRequests(toComp, toComp'), KeepsEnters(fromComp, fromComp')
  PROVE  FocusInv'
BY DEF FocusInv, PointerIsFreed, KeepsRequests, KeepsEnters

(* A step that may move it.                                                   *)
LEMMA FocusMoved ==
  ASSUME CompTyped, CompTyped', FocusInv, Refocus(active', mapped', at', <<>>),
         UNCHANGED <<shell_layers, surfaces>>, pinned => pinned',
         held' => pinned' \/ focus = NoLayer, active' = active,
         KeepsRequests(toComp, toComp')
  PROVE  FocusInv'
<1>1. <<>> \in Seq(Event) /\ mapped' \in SUBSET Layer
  BY EmptySeq DEF CompTyped, CompTypeOK
<1>2. /\ KeepsEnters(fromComp, fromComp')
      /\ focus' \notin {NoLayer, focus} => In(fromComp', Entering(focus'))
  BY <1>1, EntersFollow
<1>3. focus' = IF held' THEN focus ELSE Target(active', mapped', at')
  BY Refocused
<1>4. ~active' => focus' \in {NoLayer, focus}
  BY <1>3, TargetIsDrawn
<1>5. held' \/ ~active' => pinned' \/ focus' = NoLayer
  BY <1>3, <1>4 DEF FocusInv
<1>6. PointerIsFreed'
  BY <1>2, <1>5 DEF FocusInv, PointerIsFreed, KeepsRequests, KeepsEnters
<1> QED BY <1>5, <1>6 DEF FocusInv, KeepsRequests

LEMMA FocusBegins == CompInit => FocusInv
<1> SUFFICES ASSUME CompInit PROVE FocusInv
  OBVIOUS
<1>1. LastIs(toComp, Replacing, [type |-> "Layers", layers |-> shell_layers])
  BY DEF CompInit, LastIs
<1> QED BY <1>1 DEF CompInit, FocusInv, PointerIsFreed

LEMMA FocusKept ==
  ASSUME CompTyped, CompTyped', FocusInv, [CompNext]_compVars
  PROVE  FocusInv'
<1>t. /\ toComp \in Seq(ToComp) /\ fromComp \in Seq(Event)
      /\ mapped \in SUBSET Layer /\ focus \in surfaces \cup {NoLayer}
      /\ active \in BOOLEAN /\ held \in BOOLEAN /\ pinned \in BOOLEAN
  BY DEF CompTyped, QueuesTyped, CompTypeOK
<1>h. ASSUME toComp # <<>> PROVE Head(toComp) \in ToComp
  BY <1>h, <1>t, HeadTailProperties
<1>e. ASSUME fromComp # <<>> PROVE Head(fromComp) \in Event
  BY <1>e, <1>t, HeadTailProperties
<1> DEFINE release == [type |-> "release"]
           StillPointing == UNCHANGED <<held, active, focus, pinned, shell_layers, surfaces>>
<1>r. KeepsRequests(toComp, Append(toComp, release))
  BY <1>t, Sent, RequestAdded
<1>k. KeepsRequests(toComp, toComp) /\ KeepsEnters(fromComp, fromComp)
  BY KeepsAll
<1>1. ASSUME NEW c \in Call, NEW type \in {"AbsCursorPos", "ScreenInfo"}, Ask(c, type)
      PROVE  FocusInv'
  BY <1>1, <1>k, FocusUntouched DEF Ask, layering, screens, pointing
<1>2. ASSUME NEW c \in Call, TimeOut(c) PROVE FocusInv'
  BY <1>2, <1>k, FocusUntouched DEF TimeOut, clientVars, layering, screens, pointing
<1>3. CASE HandleAbsCursorPos
  <2>1. Head(reqs).call \in Call
    <3>1. Head(reqs) \in Request
      BY <1>3, HeadTailProperties DEF HandleAbsCursorPos, NextRequest, CompTyped, QueuesTyped
    <3> QED BY <3>1 DEF Request
  <2>2. KeepsRequests(toComp, toComp')
    <3>1. KeepsRequests(toComp, Append(toComp, [type |-> "capture", call |-> Head(reqs).call]))
      BY <1>t, <2>1, Sent, RequestAdded
    <3> QED BY <1>3, <3>1 DEF HandleAbsCursorPos
  <2> QED BY <1>3, <1>k, <2>2, FocusUntouched
          DEF HandleAbsCursorPos, layering, screens, pointing, user, history
<1>4. CASE HandleScreenInfo
  BY <1>4, <1>k, FocusUntouched DEF HandleScreenInfo, layering, screens, pointing
<1>5. CASE HandleEnter
  <2> DEFINE l == Head(fromComp).layer
  <2>1. /\ fromComp # <<>> /\ fromComp' = Tail(fromComp) /\ Head(fromComp).type = "enter"
        /\ StillPointing
    BY <1>5 DEF HandleEnter, NextEvent, layering, screens, pointing, user, history
  <2>2. Head(fromComp) = [type |-> "enter", layer |-> l]
    BY <1>e, <2>1, ReadEvent
  <2>3. \A k : In(fromComp, Entering(k)) => k = l \/ In(fromComp', Entering(k))
    <3>1. \A k : Head(fromComp) \in Entering(k) => k = l
      BY DEF Entering
    <3> QED BY <1>t, <2>1, <3>1, Taken
  <2>4. CASE l \in shell_layers
    <3>1. toComp' = Append(toComp, release)
      BY <1>5, <2>4 DEF HandleEnter
    <3>2. KeepsRequests(toComp, toComp')
      BY <1>r, <3>1
    <3>3. In(toComp', Releasing)
      <4>1. release \in ToComp /\ release \in Releasing
        BY Sent DEF Releasing
      <4> QED BY <1>t, <3>1, <4>1, Appended
    <3> QED BY <2>1, <3>2, <3>3 DEF FocusInv, PointerIsFreed, KeepsRequests
  <2>5. CASE l \notin shell_layers
    <3>1. toComp' = toComp
      BY <1>5, <2>5 DEF HandleEnter
    <3>2. focus = l => focus = NoLayer \/ In(toComp, Replacing)
      BY <1>t, <2>5 DEF FocusInv
    <3> QED BY <2>1, <2>3, <3>1, <3>2 DEF FocusInv, PointerIsFreed
  <2> QED BY <2>4, <2>5
<1>6. CASE HandleSyncAbsMousePos
  <2>1. KeepsEnters(fromComp, fromComp')
    BY <1>6, <1>t, EnterKept DEF HandleSyncAbsMousePos, NextEvent
  <2>2. KeepsRequests(toComp, toComp')
    <3>1. toComp' \in {toComp, Append(toComp, release)}
      BY <1>6 DEF HandleSyncAbsMousePos
    <3> QED BY <1>k, <1>r, <3>1
  <2> QED BY <1>6, <2>1, <2>2, FocusUntouched
          DEF HandleSyncAbsMousePos, layering, screens, pointing
<1>7. CASE HandleLayersConfigured
  <2>1. KeepsEnters(fromComp, fromComp')
    BY <1>7, <1>t, EnterKept DEF HandleLayersConfigured, NextEvent
  <2> QED BY <1>7, <1>k, <2>1, FocusUntouched
          DEF HandleLayersConfigured, screens, pointing, user, history
<1>8. CASE HandleConfigure
  <2>1. KeepsEnters(fromComp, fromComp')
    BY <1>8, <1>t, EnterKept DEF HandleConfigure, NextEvent
  <2> DEFINE draw == [type |-> "draw", layer |-> Head(fromComp).layer]
             sync == [type |-> "syncLayers"]
  <2>2. draw \in ToComp /\ sync \in ToComp
    <3>1. Head(fromComp).layer \in Layer
      BY <1>8, <1>e, ReadEvent DEF HandleConfigure, NextEvent
    <3> QED BY <3>1, Sent
  <2>3. toComp' \in {toComp, Append(toComp, draw), toComp \o <<draw, sync>>}
    BY <1>8 DEF HandleConfigure
  <2>4. KeepsRequests(toComp, toComp')
    <3> DEFINE s == Append(toComp, draw)
    <3>1. draw.type # "Layers" /\ sync.type # "Layers"
      OBVIOUS
    <3> HIDE DEF draw, sync
    <3>2. s \in Seq(ToComp) /\ KeepsRequests(toComp, s)
      BY <1>t, <2>2, <3>1, RequestAdded, AppendProperties
    <3>3. toComp \o <<draw, sync>> = Append(s, sync)
      BY <1>t, <2>2
    <3>4. KeepsRequests(s, Append(s, sync))
      <4> HIDE DEF s
      <4> QED BY <2>2, <3>1, <3>2, RequestAdded
    <3>5. KeepsRequests(toComp, toComp \o <<draw, sync>>)
      <4> HIDE DEF s
      <4> QED BY <3>2, <3>3, <3>4 DEF KeepsRequests
    <3> QED BY <1>k, <2>3, <3>2, <3>5
  <2> QED BY <1>8, <2>1, <2>4, FocusUntouched
          DEF HandleConfigure, screens, pointing, user, history
<1>9. CASE HandleOutputs
  <2> DEFINE m == [type |-> "Layers", layers |-> shell_layers']
  <2>1. KeepsEnters(fromComp, fromComp')
    BY <1>9, <1>t, EnterKept DEF HandleOutputs, NextEvent
  <2>2. m \in ToComp /\ m \in Replacing
    <3>1. shell_layers' \in SUBSET Layer
      BY DEF CompTyped, CompTypeOK
    <3> QED BY <3>1, Sent DEF Replacing
  <2>3. toComp' = Append(toComp, m)
    BY <1>9 DEF HandleOutputs
  <2>4. In(toComp', Replacing) /\ LastIs(toComp', Replacing, m)
    <3> HIDE DEF m
    <3> QED BY <1>t, <2>2, <2>3, Appended
  <2>5. UNCHANGED <<held, active, focus, pinned>>
    BY <1>9 DEF HandleOutputs, pointing, user, history
  <2> QED BY <2>4, <2>5 DEF FocusInv, PointerIsFreed
<1>10. CASE LayersReplaced
  <2> DEFINE L == Head(toComp).layers
  <2>1. /\ toComp # <<>> /\ toComp' = Tail(toComp) /\ Head(toComp).type = "Layers"
        /\ surfaces' \subseteq L /\ focus' = NoLayer /\ shell_layers' = shell_layers
    BY <1>10 DEF LayersReplaced, NextFromClient, clientVars, layering
  <2>2. L \in SUBSET Layer /\ Head(toComp) = [type |-> "Layers", layers |-> L]
    BY <1>h, <2>1, ReadToComp
  <2>3. Head(toComp) \in Replacing
    BY <2>2 DEF Replacing
  <2>4. /\ LastIs(toComp', Replacing, [type |-> "Layers", layers |-> shell_layers])
        /\ In(toComp', Replacing) \/ Head(toComp) = [type |-> "Layers", layers |-> shell_layers]
    BY <1>t, <2>1, <2>3, Taken DEF FocusInv
  <2>5. In(toComp', Replacing) \/ surfaces' \subseteq shell_layers
    BY <2>1, <2>4
  <2> QED BY <2>1, <2>4, <2>5 DEF FocusInv, PointerIsFreed
<1>11. CASE LayerDrawn
  <2>1. /\ KeepsRequests(toComp, toComp')
        /\ UNCHANGED <<held, at, pinned, shell_layers, surfaces, active>>
    BY <1>11, <1>t, RequestTaken DEF LayerDrawn, NextFromClient, clientVars, layering, user, history
  <2>2. CASE Refocus(active, mapped', at, <<>>)
    <3>1. Refocus(active', mapped', at', <<>>)
      BY <2>1, <2>2
    <3> QED BY <2>1, <3>1, FocusMoved DEF FocusInv
  <2>3. CASE UNCHANGED <<fromComp, focus>>
    BY <1>k, <2>1, <2>3, FocusUntouched
  <2> QED BY <1>11, <2>2, <2>3 DEF LayerDrawn
<1>12. CASE LayersSynced
  <2>1. KeepsRequests(toComp, toComp')
    BY <1>12, <1>t, RequestTaken DEF LayersSynced, NextFromClient
  <2>2. KeepsEnters(fromComp, fromComp')
    BY <1>12, <1>t, EnterAdded, Told DEF LayersSynced
  <2> QED BY <1>12, <2>1, <2>2, FocusUntouched
          DEF LayersSynced, NextFromClient, clientVars, layering, pointing, user, history
<1>13. CASE PointerCaptured
  <2>1. /\ KeepsRequests(toComp, toComp') /\ active' = TRUE
        /\ UNCHANGED <<held, pinned, shell_layers, surfaces>>
        /\ Head(toComp).type = "capture" /\ toComp # <<>>
    BY <1>13, <1>t, RequestTaken DEF PointerCaptured, NextFromClient, clientVars, layering, user, history
  <2> DEFINE then == <<[type |-> "done", call |-> Head(toComp).call]>>
  <2>2. then \in Seq(Event)
    BY <1>h, <2>1, ReadToComp, Told, OneSent
  <2>3. Refocus(TRUE, mapped, at, then)
    BY <1>13 DEF PointerCaptured
  <2> HIDE DEF then
  <2>4. /\ KeepsEnters(fromComp, fromComp')
        /\ focus' \notin {NoLayer, focus} => In(fromComp', Entering(focus'))
        /\ held' => focus' = focus
    BY <1>t, <2>2, <2>3, EntersFollow, Refocused
  <2>5. held' => pinned' \/ focus' = NoLayer
    BY <2>1, <2>4 DEF FocusInv
  <2>6. PointerIsFreed'
    BY <2>1, <2>4 DEF FocusInv, PointerIsFreed, KeepsRequests, KeepsEnters
  <2> QED BY <2>1, <2>5, <2>6 DEF FocusInv, KeepsRequests
<1>14. CASE PointerReleased
  <2>1. /\ toComp # <<>> /\ toComp' = Tail(toComp) /\ Head(toComp).type = "release"
        /\ active' = FALSE /\ UNCHANGED <<held, pinned, shell_layers, surfaces>>
        /\ Refocus(FALSE, mapped, at, <<>>)
    BY <1>14 DEF PointerReleased, NextFromClient, clientVars, layering, user, history
  <2>2. focus' = IF held THEN focus ELSE NoLayer
    <3>1. focus' = IF held' THEN focus ELSE Target(FALSE, mapped, at)
      BY <2>1, Refocused
    <3>2. Target(FALSE, mapped, at) = NoLayer
      BY TargetIsDrawn
    <3> QED BY <2>1, <3>1, <3>2
  <2>3. pinned' \/ focus' = NoLayer
    BY <2>1, <2>2 DEF FocusInv
  <2>4. /\ In(toComp, Replacing) => In(toComp', Replacing)
        /\ \A m : LastIs(toComp, Replacing, m) => LastIs(toComp', Replacing, m)
    <3>1. Head(toComp) \notin Replacing
      BY <2>1 DEF Replacing
    <3> QED BY <1>t, <2>1, <3>1, Taken
  <2> QED BY <2>1, <2>3, <2>4 DEF FocusInv, PointerIsFreed
<1>15. CASE PointerMoves
  <2>1. /\ Refocus(active', mapped', at', <<>>)
        /\ UNCHANGED <<shell_layers, surfaces, pinned, active, held, toComp>>
    BY <1>15 DEF PointerMoves, clientVars, layering, screens
  <2> QED BY <1>k, <2>1, FocusMoved DEF FocusInv
<1>16. CASE ButtonChanges
  <2>1. /\ UNCHANGED <<shell_layers, surfaces, mapped, active, at, toComp>> /\ held' = ~held
        /\ pinned' = (pinned \/ (held' /\ focus # NoLayer))
    BY <1>16 DEF ButtonChanges, clientVars, layering, screens
  <2>2. CASE Refocus(active, mapped, at, <<>>)
    <3>1. Refocus(active', mapped', at', <<>>)
      BY <2>1, <2>2
    <3> QED BY <1>k, <2>1, <3>1, FocusMoved
  <2>3. CASE UNCHANGED <<fromComp, focus>>
    BY <1>t, <2>1, <2>3 DEF FocusInv, PointerIsFreed
  <2> QED BY <1>16, <2>2, <2>3 DEF ButtonChanges
<1>17. CASE OutputsChange
  <2> DEFINE m == [type |-> "outputs", change |-> changes', outputs |-> outputs']
  <2>1. m \in Event /\ fromComp' = Append(fromComp, m)
    BY <1>17, Told DEF OutputsChange, CompTyped, QueuesTyped
  <2>2. /\ UNCHANGED <<shell_layers, active, held, pinned, toComp>>
        /\ surfaces' \subseteq surfaces /\ focus' \in {focus, NoLayer}
    BY <1>17 DEF OutputsChange, clientVars, layering
  <2>3. KeepsEnters(fromComp, fromComp')
    <3> HIDE DEF m
    <3> QED BY <1>t, <2>1, EnterAdded
  <2> QED BY <2>2, <2>3 DEF FocusInv, PointerIsFreed, KeepsEnters
<1>18. CASE LayerResized
  <2>1. PICK layer \in mapped : fromComp' = Append(fromComp, Configure(layer, TRUE))
    BY <1>18 DEF LayerResized
  <2>2. Configure(layer, TRUE) \in Event
    BY <1>t, Told
  <2>3. KeepsEnters(fromComp, fromComp')
    BY <1>t, <2>1, <2>2, EnterAdded
  <2> QED BY <1>18, <1>k, <2>3, FocusUntouched
          DEF LayerResized, clientVars, layering, pointing, user, history
<1>19. CASE UNCHANGED compVars
  BY <1>19, <1>k, FocusUntouched DEF compVars, clientVars, layering, screens, pointing, user, history
<1>20. CASE DispatchFails \/ DrawFails \/ PoolFails
  BY <1>20, <1>k, FailureEnds, FocusUntouched DEF layering, screens, pointing, user, history
<1> QED
  BY <1>1, <1>2, <1>3, <1>4, <1>5, <1>6, <1>7, <1>8, <1>9, <1>10, <1>11, <1>12, <1>13, <1>14,
     <1>15, <1>16, <1>17, <1>18, <1>19, <1>20
  DEF CompNext, ClientThread, Environment

(* Once nothing is under way no layer keeps the pointer, however calls,       *)
(* movements, clicks outside of the layers and changes of the outputs were    *)
(* mixed.                                                                     *)
THEOREM PointerIsLetGo == CompSpec => []LayersLetGo
<1>1. CompInit => CompTyped /\ FocusInv
  BY TypesBegin, FocusBegins
<1>2. CompTyped /\ FocusInv /\ [CompNext]_compVars => (CompTyped /\ FocusInv)'
  BY TypesKept, FocusKept
<1>3. FocusInv => LayersLetGo
  BY Empty DEF FocusInv, PointerIsFreed, LayersLetGo, Settled
<1> QED BY <1>1, <1>2, <1>3, PTL DEF CompSpec

-----------------------------------------------------------------------------
(* Calls that nothing hinders. *)

Changing     == [type : {"outputs"}, change : 0..MaxChanges, outputs : SUBSET Output]
EnteringOf(L) == [type : {"enter"}, layer : L]

(* It is the only call, and finds the pointer: there is an answer or, before  *)
(* the sync of the call, an enter of one of the client's layers.  No release  *)
(* comes after its capture unless there is an answer.                         *)
FindsPointer(c) ==
  answer = NoPoint =>
    /\ ~Before(toComp, AskFor(c), Releasing)
    /\ In(fromComp, AskFor(c)) => Before(fromComp, EnteringOf(shell_layers), AskFor(c))

Smooth(c) ==
  /\ Waiting = {c} /\ ~held /\ ~pinned
  /\ outputs = {l.output : l \in mapped}
  /\ ~In(toComp, Replacing) /\ ~In(fromComp, Changing)
  /\ FindsPointer(c)

HinderInv ==
  /\ FailuresAreExplained
  /\ \A l \in surfaces : l.output \in outputs
  /\ client = "running" => \A c \in Waiting \ hindered : Smooth(c)

NoNewRequests(s, t) ==
  /\ In(t, Replacing) => In(s, Replacing)
  /\ \A c \in Call : Before(t, AskFor(c), Releasing) => Before(s, AskFor(c), Releasing)

NoNewEvents(s, t) ==
  /\ In(t, Changing) => In(s, Changing)
  /\ \A c \in Call :
       /\ In(t, AskFor(c)) => In(s, AskFor(c))
       /\ \A L : Before(s, EnteringOf(L), AskFor(c)) => Before(t, EnteringOf(L), AskFor(c))

LEMMA NothingNew == \A s : NoNewRequests(s, s) /\ NoNewEvents(s, s)
BY DEF NoNewRequests, NoNewEvents

LEMMA OldRequestAdded ==
  ASSUME NEW s \in Seq(ToComp), NEW m \in ToComp, m.type \notin {"Layers", "release"}
  PROVE  NoNewRequests(s, Append(s, m))
<1>1. m \notin Replacing /\ m \notin Releasing
  BY DEF Replacing, Releasing
<1> QED BY <1>1, Appended DEF NoNewRequests

LEMMA RequestGone ==
  ASSUME NEW s \in Seq(ToComp), s # <<>>
  PROVE  NoNewRequests(s, Tail(s))
BY Taken DEF NoNewRequests

LEMMA OldEventAdded ==
  ASSUME NEW s \in Seq(Event), NEW m \in Event, m.type \notin {"outputs", "done"}
  PROVE  NoNewEvents(s, Append(s, m))
<1>1. m \notin Changing /\ OfNoCall(m)
  BY TypesTellCalls DEF Changing, Event
<1> QED BY <1>1, Appended DEF NoNewEvents, OfNoCall

LEMMA EventGone ==
  ASSUME NEW s \in Seq(Event), s # <<>>, Head(s).type # "enter"
  PROVE  NoNewEvents(s, Tail(s))
<1>1. \A L : Head(s) \notin EnteringOf(L)
  BY DEF EnteringOf
<1> QED BY <1>1, Taken DEF NoNewEvents

LEMMA OldEventsJoined ==
  ASSUME NEW s \in Seq(Event), NEW t \in Seq(Event), ~In(t, Changing),
         \A c \in Call : ~In(t, AskFor(c))
  PROVE  NoNewEvents(s, s \o t)
BY Joined DEF NoNewEvents

LEMMA NothingNewEntered ==
  ASSUME CompTyped, NEW act, NEW on \in SUBSET Layer, NEW pos, Refocus(act, on, pos, <<>>)
  PROVE  NoNewEvents(fromComp, fromComp')
<1>1. focus' \in Layer \cup {NoLayer} /\ fromComp' = fromComp \o Entered(focus') \o <<>>
  BY Refocused DEF CompTyped, CompTypeOK
<1>2. Entered(focus') \in Seq(Event) /\ fromComp \in Seq(Event)
  BY <1>1, EnteredTyped DEF CompTyped, QueuesTyped
<1>3. fromComp' = fromComp \o Entered(focus')
  BY <1>1, <1>2
<1>4. ~In(Entered(focus'), Changing)
  BY DEF In, Entered, Changing
<1> QED BY <1>2, <1>3, <1>4, EnteredIsOfNoCall, OldEventsJoined

(* A step that changes nothing for the calls that wait. *)
LEMMA CallsUnhindered ==
  ASSUME HinderInv,
         UNCHANGED <<call, client, held, pinned, answer, shell_layers, unexplained, outputs, surfaces>>,
         hindered' = hindered, {l.output : l \in mapped'} = {l.output : l \in mapped},
         NoNewRequests(toComp, toComp'), NoNewEvents(fromComp, fromComp')
  PROVE  HinderInv'
<1>1. Waiting' = Waiting /\ Waiting \subseteq Call
  BY DEF Waiting
<1>2. ASSUME NEW c \in Call, Smooth(c) PROVE Smooth(c)'
  <2>1. FindsPointer(c)'
    BY <1>2 DEF Smooth, FindsPointer, NoNewRequests, NoNewEvents
  <2> QED BY <1>1, <1>2, <2>1 DEF Smooth, NoNewRequests, NoNewEvents
<1> QED BY <1>1, <1>2 DEF HinderInv, FailuresAreExplained

LEMMA HindersBegin == CompInit => HinderInv
BY DEF CompInit, HinderInv, FailuresAreExplained, Waiting

LEMMA HindersKept ==
  ASSUME CompTyped, CompTyped', CallsInv, FocusInv, HinderInv, [CompNext]_compVars
  PROVE  HinderInv'
<1>t. /\ toComp \in Seq(ToComp) /\ fromComp \in Seq(Event)
      /\ mapped \in SUBSET Layer /\ mapped' \in SUBSET Layer /\ mapped \subseteq surfaces
      /\ call \in [Call -> {"idle", "waiting", "answered", "failed", "timedout", "panicked"}]
      /\ client \in {"running", "panicked", "failed"} /\ Waiting \subseteq Call
      /\ at \in outputs /\ held \in BOOLEAN
  BY DEF CompTyped, QueuesTyped, CompTypeOK, Waiting
<1>h. ASSUME toComp # <<>> PROVE Head(toComp) \in ToComp
  BY <1>h, <1>t, HeadTailProperties
<1>e. ASSUME fromComp # <<>> PROVE Head(fromComp) \in Event
  BY <1>e, <1>t, HeadTailProperties
<1>k. NoNewRequests(toComp, toComp) /\ NoNewEvents(fromComp, fromComp)
  BY NothingNew
<1> DEFINE Waits == UNCHANGED <<call, client, held, pinned, answer, shell_layers, unexplained,
                                outputs, surfaces, mapped, hindered>>
<1>1. ASSUME NEW c \in Call, NEW type \in {"AbsCursorPos", "ScreenInfo"}, Ask(c, type)
      PROVE  HinderInv'
  <2>1. /\ call[c] = "idle"
        /\ UNCHANGED <<client, layering, answer, toComp, fromComp, screens, held, pinned, unexplained>>
    BY <1>1 DEF Ask
  <2>2. CASE client # "running"
    BY <2>1, <2>2 DEF HinderInv, FailuresAreExplained, screens
  <2>3. CASE client = "running" /\ ~Unhindered
    <3>1. Waiting' \subseteq hindered'
      BY <1>1, <2>3 DEF Ask
    <3> QED BY <2>1, <3>1 DEF HinderInv, FailuresAreExplained, screens
  <2>4. CASE client = "running" /\ Unhindered
    <3>1. /\ ~held /\ ~pinned /\ outputs = {l.output : l \in mapped} /\ Waiting = {}
          /\ \A i \in DOMAIN fromComp : fromComp[i].type # "outputs"
          /\ \A i \in DOMAIN toComp : toComp[i].type # "Layers"
      BY <2>4 DEF Unhindered
    <3>2. call' = [call EXCEPT ![c] = "waiting"]
      BY <1>1, <2>4 DEF Ask
    <3>3. Waiting' = {c}
      BY <1>t, <3>1, <3>2 DEF Waiting
    <3>4. ~In(toComp, Replacing) /\ ~In(fromComp, Changing)
      BY <3>1 DEF In, Replacing, Changing
    <3>5. ~In(toComp, AskFor(c)) /\ ~In(fromComp, AskFor(c))
      BY <2>1 DEF CallsInv, OnItsWay
    <3>6. FindsPointer(c)'
      BY <2>1, <3>5 DEF FindsPointer, Before, In
    <3>7. Smooth(c)'
      BY <2>1, <3>1, <3>3, <3>4, <3>6 DEF Smooth, screens
    <3> QED BY <2>1, <3>3, <3>7 DEF HinderInv, FailuresAreExplained, screens
  <2> QED BY <1>t, <2>2, <2>3, <2>4
(* Once a call that waits no longer does, no other waits unhindered. *)
<1>w. ASSUME NEW c \in Waiting, client = "running", Waiting' \subseteq Waiting \ {c},
             hindered' = hindered, surfaces' = surfaces, outputs' = outputs, ~unexplained'
      PROVE  HinderInv'
  <2>1. Waiting' \ hindered' = {}
    <3>1. ASSUME NEW d \in Waiting' \ hindered' PROVE FALSE
      <4>1. Waiting = {d}
        BY <1>w, <3>1 DEF HinderInv, Smooth
      <4> QED BY <1>w, <3>1, <4>1
    <3> QED BY <3>1
  <2> QED BY <1>w, <2>1 DEF HinderInv, FailuresAreExplained
<1>2. ASSUME NEW c \in Call, TimeOut(c) PROVE HinderInv'
  <2>1. /\ call[c] = "waiting" /\ call' = [call EXCEPT ![c] = "timedout"]
        /\ UNCHANGED <<client, surfaces, outputs, hindered, unexplained>>
    BY <1>2 DEF TimeOut, clientVars, screens, failing
  <2>2. CASE client # "running"
    BY <2>1, <2>2 DEF HinderInv, FailuresAreExplained
  <2>3. CASE client = "running"
    <3>1. c \in Waiting /\ Waiting' \subseteq Waiting \ {c}
      BY <1>t, <2>1 DEF Waiting
    <3>2. ~unexplained'
      BY <2>1 DEF HinderInv, FailuresAreExplained
    <3> QED BY <1>w, <2>1, <2>3, <3>1, <3>2
  <2> QED BY <1>t, <2>2, <2>3
<1>3. CASE HandleAbsCursorPos
  <2> DEFINE m == [type |-> "capture", call |-> Head(reqs).call]
  <2>1. m \in ToComp
    <3>1. Head(reqs) \in Request
      BY <1>3, HeadTailProperties DEF HandleAbsCursorPos, NextRequest, CompTyped, QueuesTyped
    <3> QED BY <3>1, Sent DEF Request
  <2>2. NoNewRequests(toComp, toComp')
    BY <1>3, <1>t, <2>1, OldRequestAdded DEF HandleAbsCursorPos
  <2> QED BY <1>3, <1>k, <2>2, CallsUnhindered
          DEF HandleAbsCursorPos, layering, screens, user, history, failing
<1>4. CASE HandleScreenInfo
  <2> DEFINE c == Head(reqs).call
  <2>1. c \in Call
    <3>1. Head(reqs) \in Request
      BY <1>4, HeadTailProperties DEF HandleScreenInfo, NextRequest, CompTyped, QueuesTyped
    <3> QED BY <3>1 DEF Request
  <2>2. /\ call' = [call EXCEPT ![c] = IF @ = "waiting" THEN "answered" ELSE @]
        /\ UNCHANGED <<client, held, pinned, answer, shell_layers, unexplained, outputs, surfaces,
                       mapped, hindered, toComp, fromComp>> /\ client = "running"
    BY <1>4 DEF HandleScreenInfo, NextRequest, layering, screens, failing
  <2> HIDE DEF c
  <2>3. CASE call[c] = "waiting"
    <3>1. c \in Waiting /\ Waiting' \subseteq Waiting \ {c}
      BY <1>t, <2>1, <2>2, <2>3 DEF Waiting
    <3>2. ~unexplained'
      BY <2>2 DEF HinderInv, FailuresAreExplained
    <3> QED BY <1>w, <2>2, <3>1, <3>2
  <2>4. CASE call[c] # "waiting"
    <3>1. call' = call
      BY <1>t, <2>1, <2>2, <2>4
    <3> QED BY <1>k, <2>2, <3>1, CallsUnhindered
  <2> QED BY <2>3, <2>4
<1>5. CASE HandleEnter
  <2> DEFINE l == Head(fromComp).layer
  <2>1. /\ fromComp # <<>> /\ fromComp' = Tail(fromComp) /\ Head(fromComp).type = "enter"
        /\ UNCHANGED <<call, client, held, pinned, shell_layers, unexplained, outputs, surfaces,
                       mapped, hindered>>
        /\ client = "running"
    BY <1>5 DEF HandleEnter, NextEvent, layering, screens, user, history, failing
  <2>2. Head(fromComp) = [type |-> "enter", layer |-> l] /\ l \in Layer
    BY <1>e, <2>1, ReadEvent
  <2>3. \A c \in Call : Head(fromComp) \notin AskFor(c)
    BY <2>1 DEF AskFor
  <2>4. In(fromComp', Changing) => In(fromComp, Changing)
    BY <1>t, <2>1, Taken
  <2>5. CASE l \in shell_layers
    <3>1. answer' # NoPoint /\ toComp' = Append(toComp, [type |-> "release"])
      BY <1>5, <2>2, <2>5, CompositorAssumption DEF HandleEnter, Layer
    <3>2. In(toComp', Replacing) => In(toComp, Replacing)
      <4> DEFINE m == [type |-> "release"]
      <4>1. m \in ToComp /\ m \notin Replacing /\ toComp' = Append(toComp, m)
        BY <3>1, Sent DEF Replacing
      <4> HIDE DEF m
      <4> QED BY <1>t, <4>1, Appended
    <3>3. Waiting' = Waiting
      BY <2>1 DEF Waiting
    <3>4. ASSUME NEW c \in Waiting \ hindered PROVE Smooth(c)'
      <4>1. Smooth(c)
        BY <2>1 DEF HinderInv
      <4> QED BY <2>1, <2>4, <3>1, <3>2, <3>3, <4>1 DEF Smooth, FindsPointer
    <3> QED BY <2>1, <3>3, <3>4 DEF HinderInv, FailuresAreExplained
  <2>6. CASE l \notin shell_layers
    <3>1. UNCHANGED <<answer, toComp>>
      BY <1>5, <2>6 DEF HandleEnter
    <3>2. Waiting' = Waiting
      BY <2>1 DEF Waiting
    <3>3. ASSUME NEW c \in Waiting \ hindered PROVE Smooth(c)'
      <4>1. Smooth(c) /\ c \in Call
        BY <1>t, <2>1 DEF HinderInv
      <4>2. Head(fromComp) \notin EnteringOf(shell_layers)
        BY <2>6 DEF EnteringOf
      <4>3. /\ In(fromComp', AskFor(c)) => In(fromComp, AskFor(c))
            /\ Before(fromComp, EnteringOf(shell_layers), AskFor(c)) =>
                 Before(fromComp', EnteringOf(shell_layers), AskFor(c))
        BY <1>t, <2>1, <4>2, Taken
      <4> QED BY <2>1, <2>4, <3>1, <3>2, <4>1, <4>3 DEF Smooth, FindsPointer
    <3> QED BY <2>1, <3>2, <3>3 DEF HinderInv, FailuresAreExplained
  <2> QED BY <2>5, <2>6
<1>6. CASE HandleSyncAbsMousePos
  <2> DEFINE c == Head(fromComp).call
  <2>1. /\ client = "running" /\ fromComp # <<>> /\ fromComp' = Tail(fromComp)
        /\ Head(fromComp).type = "done"
        /\ UNCHANGED <<outputs, surfaces, hindered>>
    BY <1>6 DEF HandleSyncAbsMousePos, NextEvent, screens
  <2>2. c \in Call /\ Head(fromComp) = [type |-> "done", call |-> c]
    BY <1>e, <2>1, ReadEvent
  <2>3. CASE call[c] # "waiting"
    <3>1. client' = "panicked" /\ unexplained' = unexplained
      BY <1>6, <2>3 DEF HandleSyncAbsMousePos, Reply
    <3> QED BY <2>1, <3>1 DEF HinderInv, FailuresAreExplained
  <2>4. CASE call[c] = "waiting"
    <3>1. c \in Waiting
      BY <2>2, <2>4 DEF Waiting
    <3>2. Waiting' \subseteq Waiting \ {c}
      <4>1. \E reply \in {"answered", "failed"} : call' = [call EXCEPT ![c] = reply]
        BY <1>6, <2>4 DEF HandleSyncAbsMousePos, Reply
      <4> HIDE DEF c
      <4> QED BY <1>t, <2>2, <4>1 DEF Waiting
    <3>3. c \notin hindered => answer # NoPoint
      <4>1. SUFFICES ASSUME c \notin hindered, answer = NoPoint PROVE FALSE
        OBVIOUS
      <4>2. Smooth(c)
        BY <2>1, <3>1, <4>1 DEF HinderInv
      <4>3. Head(fromComp) \in AskFor(c) /\ Head(fromComp) \notin EnteringOf(shell_layers)
        <5>1. [type |-> "done", call |-> c] \in AskFor(c)
          BY DEF AskFor
        <5> QED BY <2>1, <2>2, <5>1 DEF EnteringOf
      <4> HIDE DEF c
      <4>4. In(fromComp, AskFor(c)) /\ ~In(Tail(fromComp), AskFor(c))
        <5>1. Once(fromComp, AskFor(c))
          BY <2>2 DEF CallsInv, AtOnePlace
        <5> QED BY <1>t, <2>1, <4>3, <5>1, Taken
      <4>5. Before(fromComp, EnteringOf(shell_layers), AskFor(c))
        BY <4>1, <4>2, <4>4 DEF Smooth, FindsPointer
      <4>6. Before(Tail(fromComp), EnteringOf(shell_layers), AskFor(c))
        BY <1>t, <2>1, <4>3, <4>5, Taken
      <4> QED BY <4>4, <4>6 DEF Before, In
    <3>4. ~unexplained'
      BY <1>6, <2>4, <3>3 DEF HandleSyncAbsMousePos, Reply, HinderInv, FailuresAreExplained
    <3> QED BY <1>w, <2>1, <3>1, <3>2, <3>4
  <2> QED BY <2>3, <2>4
<1>7. CASE HandleLayersConfigured
  <2>1. NoNewEvents(fromComp, fromComp')
    BY <1>7, <1>t, EventGone DEF HandleLayersConfigured, NextEvent
  <2> QED BY <1>7, <1>k, <2>1, CallsUnhindered
          DEF HandleLayersConfigured, NextEvent, screens, user, history, failing
<1>8. CASE HandleConfigure
  <2>1. NoNewEvents(fromComp, fromComp')
    BY <1>8, <1>t, EventGone DEF HandleConfigure, NextEvent
  <2> DEFINE draw == [type |-> "draw", layer |-> Head(fromComp).layer]
             sync == [type |-> "syncLayers"]
  <2>2. draw \in ToComp /\ sync \in ToComp
    <3>1. Head(fromComp).layer \in Layer
      BY <1>8, <1>e, ReadEvent DEF HandleConfigure, NextEvent
    <3> QED BY <3>1, Sent
  <2>3. toComp' \in {toComp, Append(toComp, draw), toComp \o <<draw, sync>>}
    BY <1>8 DEF HandleConfigure
  <2>4. NoNewRequests(toComp, toComp')
    <3> DEFINE s == Append(toComp, draw)
    <3>1. draw.type \notin {"Layers", "release"} /\ sync.type \notin {"Layers", "release"}
      OBVIOUS
    <3> HIDE DEF draw, sync
    <3>2. s \in Seq(ToComp) /\ NoNewRequests(toComp, s)
      BY <1>t, <2>2, <3>1, OldRequestAdded, AppendProperties
    <3>3. toComp \o <<draw, sync>> = Append(s, sync)
      BY <1>t, <2>2
    <3>4. NoNewRequests(s, Append(s, sync))
      <4> HIDE DEF s
      <4> QED BY <2>2, <3>1, <3>2, OldRequestAdded
    <3>5. NoNewRequests(toComp, toComp \o <<draw, sync>>)
      <4> HIDE DEF s
      <4> QED BY <3>2, <3>3, <3>4 DEF NoNewRequests
    <3> QED BY <1>k, <2>3, <3>2, <3>5
  <2> QED BY <1>8, <2>1, <2>4, CallsUnhindered
          DEF HandleConfigure, NextEvent, screens, user, history, failing
(* The outputs have changed, or the layers are about to be: no call is        *)
(* unhindered.                                                                *)
<1>9. CASE HandleOutputs
  <2>1. Head(fromComp) \in Changing
    <3>1. fromComp # <<>> /\ Head(fromComp).type = "outputs"
      BY <1>9 DEF HandleOutputs, NextEvent
    <3> QED BY <1>e, <3>1 DEF Event, Changing
  <2>2. In(fromComp, Changing)
    BY <1>9, <1>t, <2>1, Taken DEF HandleOutputs, NextEvent
  <2>3. Waiting \ hindered = {}
    BY <1>9, <2>2 DEF HinderInv, Smooth, HandleOutputs, NextEvent
  <2>4. UNCHANGED <<call, client, hindered, unexplained, surfaces, outputs>>
    BY <1>9 DEF HandleOutputs, screens, user, history, failing
  <2>5. Waiting' = Waiting
    BY <2>4 DEF Waiting
  <2> QED BY <2>3, <2>4, <2>5 DEF HinderInv, FailuresAreExplained
<1>10. CASE LayersReplaced
  <2>1. /\ toComp # <<>> /\ Head(toComp).type = "Layers" /\ client = "running"
        /\ UNCHANGED <<call, client, hindered, unexplained, outputs>>
        /\ \A l \in surfaces' : l.output \in outputs
    BY <1>10 DEF LayersReplaced, NextFromClient, Serving, clientVars, user, history, failing
  <2>2. Head(toComp) \in Replacing
    BY <1>h, <2>1 DEF ToComp, Replacing
  <2>3. In(toComp, Replacing)
    BY <1>t, <2>1, <2>2, Taken
  <2>4. Waiting \ hindered = {}
    BY <2>1, <2>3 DEF HinderInv, Smooth
  <2>5. Waiting' = Waiting
    BY <2>1 DEF Waiting
  <2> QED BY <2>1, <2>4, <2>5 DEF HinderInv, FailuresAreExplained
<1> DEFINE Served == /\ toComp # <<>> /\ toComp' = Tail(toComp)
                     /\ UNCHANGED <<call, client, held, pinned, answer, shell_layers, unexplained,
                                    outputs, hindered>>
<1>s. ASSUME NEW type, NextFromClient(type) PROVE Served /\ NoNewRequests(toComp, toComp')
  <2>1. Served
    BY <1>s DEF NextFromClient, clientVars, layering, user, history, failing
  <2> QED BY <1>t, <2>1, RequestGone
<1>11. CASE LayerDrawn
  <2>1. Served /\ NoNewRequests(toComp, toComp') /\ surfaces' = surfaces
    BY <1>11, <1>s DEF LayerDrawn
  <2>2. NoNewEvents(fromComp, fromComp')
    <3>1. CASE Refocus(active, mapped', at, <<>>)
      BY <1>t, <3>1, NothingNewEntered
    <3>2. CASE UNCHANGED <<fromComp, focus>>
      BY <1>k, <3>2
    <3> QED BY <1>11, <3>1, <3>2 DEF LayerDrawn
  <2>3. mapped \subseteq mapped' /\ \A l \in mapped' : l \in mapped \/ l.output \in outputs
    BY <1>11 DEF LayerDrawn, HinderInv
  <2>4. ASSUME NEW c \in Waiting \ hindered, client = "running"
        PROVE  {l.output : l \in mapped'} = {l.output : l \in mapped}
    <3>1. outputs = {l.output : l \in mapped}
      BY <2>4 DEF HinderInv, Smooth
    <3> QED BY <2>3, <3>1
  <2>5. Waiting' = Waiting
    BY <2>1 DEF Waiting
  <2>6. CASE client = "running" /\ Waiting \ hindered # {}
    BY <2>1, <2>2, <2>4, <2>6, CallsUnhindered
  <2>7. CASE ~(client = "running" /\ Waiting \ hindered # {})
    BY <2>1, <2>5, <2>7 DEF HinderInv, FailuresAreExplained
  <2> QED BY <2>6, <2>7
<1>12. CASE LayersSynced
  <2>1. Served /\ NoNewRequests(toComp, toComp') /\ UNCHANGED <<surfaces, mapped>>
    BY <1>12, <1>s DEF LayersSynced
  <2>2. NoNewEvents(fromComp, fromComp')
    BY <1>12, <1>t, OldEventAdded, Told DEF LayersSynced
  <2> QED BY <2>1, <2>2, CallsUnhindered
<1>13. CASE PointerCaptured
  <2> DEFINE c == Head(toComp).call
             m == [type |-> "done", call |-> c]
  <2>1. /\ Served /\ NoNewRequests(toComp, toComp') /\ UNCHANGED <<surfaces, mapped>>
        /\ Head(toComp).type = "capture"
    <3>1. NextFromClient("capture")
      BY <1>13 DEF PointerCaptured
    <3> QED BY <1>13, <1>s, <3>1 DEF PointerCaptured, NextFromClient
  <2>2. c \in Call /\ Head(toComp) = [type |-> "capture", call |-> c]
    BY <1>h, <2>1, ReadToComp
  <2>3. m \in Event /\ (\A d \in Call : m \in AskFor(d) <=> d = c) /\ m \notin Changing
    <3> HIDE DEF c
    <3> QED BY <2>2, Told, TypesTellCalls DEF Changing
  <2>4. \A d \in Call : Head(toComp) \in AskFor(d) <=> d = c
    <3> HIDE DEF c
    <3>1. \A d \in Call : [type |-> "capture", call |-> c] \in AskFor(d) <=> d = c
      BY <2>2, TypesTellCalls
    <3> QED BY <2>2, <3>1
  <2>5. /\ fromComp' = fromComp \o Entered(focus') \o <<m>>
        /\ focus' = IF held' THEN focus ELSE Target(TRUE, mapped, at)
        /\ focus' \in Layer \cup {NoLayer}
    <3>1. Refocus(TRUE, mapped, at, <<m>>)
      BY <1>13 DEF PointerCaptured
    <3> HIDE DEF m
    <3> QED BY <3>1, Refocused DEF CompTyped, CompTypeOK
  <2> HIDE DEF m, c
  <2> DEFINE s == fromComp \o Entered(focus')
  <2>6. Entered(focus') \in Seq(Event)
    BY <2>5, EnteredTyped
  <2>7. s \in Seq(Event) /\ NoNewEvents(fromComp, s)
    <3>1. ~In(Entered(focus'), Changing)
      BY DEF In, Entered, Changing
    <3> QED BY <1>t, <2>6, <3>1, EnteredIsOfNoCall, OldEventsJoined, ConcatProperties
  <2>8. fromComp' = Append(s, m)
    <3> HIDE DEF s
    <3>1. s \o <<m>> = Append(s, m)
      BY <2>3, <2>7
    <3> QED BY <2>5, <3>1 DEF s
  <2>9. \A d \in Call : \A M :
          /\ In(fromComp', AskFor(d)) <=> In(s, AskFor(d)) \/ d = c
          /\ Before(fromComp', M, AskFor(d)) <=> Before(s, M, AskFor(d)) \/ (In(s, M) /\ d = c)
          /\ In(fromComp', Changing) <=> In(s, Changing)
    <3> HIDE DEF s
    <3>1. ASSUME NEW d \in Call, NEW M
          PROVE  /\ In(fromComp', AskFor(d)) <=> In(s, AskFor(d)) \/ m \in AskFor(d)
                 /\ Before(fromComp', M, AskFor(d)) <=> Before(s, M, AskFor(d)) \/ (In(s, M) /\ m \in AskFor(d))
      BY <2>3, <2>7, <2>8, Appended
    <3>2. In(fromComp', Changing) <=> In(s, Changing)
      BY <2>3, <2>7, <2>8, Appended
    <3> QED BY <2>3, <3>1, <3>2
  <2>10. Waiting' = Waiting
    BY <2>1 DEF Waiting
  <2>11. ASSUME NEW d \in Waiting \ hindered, client = "running" PROVE Smooth(d)'
    <3>1. Smooth(d) /\ d \in Call
      BY <1>t, <2>11 DEF HinderInv
    <3>2. FindsPointer(d)'
      <4>1. SUFFICES ASSUME answer = NoPoint
                     PROVE  /\ ~Before(toComp', AskFor(d), Releasing)
                            /\ In(fromComp', AskFor(d)) =>
                                 Before(fromComp', EnteringOf(shell_layers), AskFor(d))
        BY <2>1 DEF FindsPointer
      <4>2. /\ ~Before(toComp, AskFor(d), Releasing)
            /\ In(fromComp, AskFor(d)) => Before(fromComp, EnteringOf(shell_layers), AskFor(d))
        BY <3>1, <4>1 DEF Smooth, FindsPointer
      <4>3. ~Before(toComp', AskFor(d), Releasing)
        BY <2>1, <3>1, <4>2 DEF NoNewRequests
      <4>4. CASE d # c
        BY <2>7, <2>9, <3>1, <4>2, <4>3, <4>4 DEF NoNewEvents
      <4>5. CASE d = c
        <5>1. focus' = Target(TRUE, mapped, at) /\ ~pinned
          BY <2>1, <2>5, <3>1 DEF Smooth
        <5>2. focus' \in mapped
          <6>1. \E l \in mapped : l.output = at
            BY <1>t, <3>1 DEF Smooth
          <6> QED BY <5>1, <6>1, TargetIsDrawn
        <5>3. focus' \in shell_layers
          BY <1>t, <3>1, <5>2 DEF FocusInv, Smooth
        <5>4. focus' # NoLayer
          BY <1>t, <5>2, NoLayerAssumption
        <5>5. In(s, EnteringOf(shell_layers))
          <6>1. \A M : In(s, M) <=> In(fromComp, M) \/ In(Entered(focus'), M)
            BY <1>t, <2>6, Joined
          <6>2. CASE focus' # focus
            <7>1. In(Entered(focus'), EnteringOf(shell_layers))
              BY <5>3, <5>4, <6>2 DEF Entered, In, EnteringOf
            <7> QED BY <6>1, <7>1
          <6>3. CASE focus' = focus
            <7>1. active
              BY <5>1, <5>4, <6>3 DEF FocusInv
            <7>2. ~In(toComp, Replacing)
              BY <3>1 DEF Smooth
            <7>3. ~In(toComp, Releasing)
              <8>1. ~In(toComp', Releasing)
                BY <1>t, <2>1, <2>4, <3>1, <4>2, <4>5, Taken
              <8>2. Head(toComp) \notin Releasing
                BY <2>1 DEF Releasing
              <8> QED BY <1>t, <2>1, <8>1, <8>2, Taken
            <7>4. In(fromComp, Entering(focus))
              BY <5>1, <5>4, <6>3, <7>1, <7>2, <7>3 DEF FocusInv, PointerIsFreed
            <7>5. In(fromComp, EnteringOf(shell_layers))
              BY <5>3, <6>3, <7>4 DEF In, Entering, EnteringOf
            <7> QED BY <6>1, <7>5
          <6> QED BY <6>2, <6>3
        <5> QED BY <2>9, <3>1, <4>3, <4>5, <5>5
      <4> QED BY <4>4, <4>5
    <3> QED BY <2>1, <2>7, <2>9, <2>10, <3>1, <3>2 DEF Smooth, NoNewRequests, NoNewEvents
  <2> QED BY <2>1, <2>10, <2>11 DEF HinderInv, FailuresAreExplained
<1>14. CASE PointerReleased
  <2>1. Served /\ NoNewRequests(toComp, toComp') /\ UNCHANGED <<surfaces, mapped>>
    BY <1>14, <1>s DEF PointerReleased
  <2>2. NoNewEvents(fromComp, fromComp')
    BY <1>14, <1>t, NothingNewEntered DEF PointerReleased
  <2> QED BY <2>1, <2>2, CallsUnhindered
<1>15. CASE PointerMoves
  <2>1. NoNewEvents(fromComp, fromComp')
    BY <1>15, <1>t, NothingNewEntered DEF PointerMoves
  <2>2. Waits /\ toComp' = toComp
    BY <1>15 DEF PointerMoves, clientVars, layering, screens, failing
  <2> QED BY <1>k, <2>1, <2>2, CallsUnhindered
<1>16. CASE ButtonChanges
  <2>1. /\ UNCHANGED <<call, client, surfaces, outputs, unexplained>> /\ held' = ~held
        /\ hindered' = IF held' THEN hindered \cup Waiting ELSE hindered
    BY <1>16 DEF ButtonChanges, clientVars, layering, screens
  <2>2. Waiting' = Waiting
    BY <2>1 DEF Waiting
  <2>3. client = "running" => Waiting \ hindered' = {}
    <3>1. CASE held'
      BY <2>1, <3>1
    <3>2. CASE ~held'
      BY <1>t, <2>1, <3>2 DEF HinderInv, Smooth
    <3> QED BY <3>1, <3>2
  <2> QED BY <2>1, <2>2, <2>3 DEF HinderInv, FailuresAreExplained
<1>17. CASE OutputsChange
  <2>1. /\ UNCHANGED <<call, client, unexplained>> /\ hindered' = hindered \cup Waiting
        /\ \A l \in surfaces' : l.output \in outputs'
    BY <1>17 DEF OutputsChange, clientVars
  <2>2. Waiting' = Waiting
    BY <2>1 DEF Waiting
  <2> QED BY <2>1, <2>2 DEF HinderInv, FailuresAreExplained
<1>18. CASE LayerResized
  <2>1. PICK layer \in mapped : fromComp' = Append(fromComp, Configure(layer, TRUE))
    BY <1>18 DEF LayerResized
  <2>2. Configure(layer, TRUE) \in Event /\ Configure(layer, TRUE).type = "configure"
    BY <1>t, Told DEF Configure
  <2>3. NoNewEvents(fromComp, fromComp')
    BY <1>t, <2>1, <2>2, OldEventAdded
  <2>4. Waits /\ toComp' = toComp
    BY <1>18 DEF LayerResized, clientVars, layering, user, history, failing
  <2> QED BY <1>k, <2>3, <2>4, CallsUnhindered
<1>19. CASE UNCHANGED compVars
  <2>1. Waits /\ UNCHANGED <<toComp, fromComp>>
    BY <1>19 DEF compVars, clientVars, layering, screens, user, history, failing
  <2> QED BY <1>k, <2>1, CallsUnhindered
<1>20. CASE DispatchFails \/ DrawFails \/ PoolFails
  <2>1. client' = "failed" /\ UNCHANGED <<surfaces, outputs, unexplained>>
    BY <1>20, FailureEnds DEF screens, user, history, failing
  <2> QED BY <2>1 DEF HinderInv, FailuresAreExplained
<1> QED
  BY <1>1, <1>2, <1>3, <1>4, <1>5, <1>6, <1>7, <1>8, <1>9, <1>10, <1>11, <1>12, <1>13, <1>14,
     <1>15, <1>16, <1>17, <1>18, <1>19, <1>20
  DEF CompNext, ClientThread, Environment

(* No call fails without a reason: with nothing in its way it finds the       *)
(* pointer, whatever earlier calls left under way.                            *)
THEOREM FailuresHaveReasons == CompSpec => []FailuresAreExplained
<1> DEFINE Inv == CompTyped /\ CallsInv /\ FocusInv /\ HinderInv
<1>1. CompInit => Inv
  BY TypesBegin, CallsBegin, FocusBegins, HindersBegin
<1>2. Inv /\ [CompNext]_compVars => Inv'
  BY TypesKept, CallsKept, FocusKept, HindersKept
<1>3. Inv => FailuresAreExplained
  BY DEF HinderInv
<1> QED BY <1>1, <1>2, <1>3, PTL DEF CompSpec
=============================================================================
