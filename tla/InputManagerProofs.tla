------------------------- MODULE InputManagerProofs -------------------------
(***************************************************************************)
(* What the input thread keeps true for every set of devices, keys and     *)
(* modifiers, whatever the core sends.                                     *)
(***************************************************************************)
EXTENDS InputManager, FoldTheorems

(* An event that puts k down or up. *)
Decisive(e, k) == e.type = "KEY" /\ e.code = k /\ e.value \in {0, 1}

(* Whether k is down after the events s if it was `held` before: its last     *)
(* press or release decides. *)
DownAfter(s, k, held) ==
  \/ \E i \in DOMAIN s :
       /\ Decisive(s[i], k) /\ s[i].value = 1
       /\ \A j \in DOMAIN s : j > i => ~Decisive(s[j], k)
  \/ held /\ \A i \in DOMAIN s : ~Decisive(s[i], k)

(* The events of a device that are being handled. *)
BatchOf(d) == IF cur = d THEN batch ELSE <<>>

EventsTyped ==
  /\ devs \subseteq Device /\ gone \subseteq Device /\ cur \in Device
  /\ opening \in SUBSET Device /\ \A d, e \in opening : d = e
  /\ phys \in [Device -> SUBSET Key]
  /\ evq \in [Device -> Seq(Event)] /\ batch \in Seq(Event)
  /\ d_modifiers \in [Device -> Modifiers]

(* Devices that are not open, or were unplugged, have no events, and while    *)
(* devices are opened no event is being handled; a device is opened once.     *)
NoStrayEvents ==
  /\ \A d \in Device : d \notin devs \cup opening \/ d \in gone => evq[d] = <<>>
  /\ pc = "fetch" => batch = <<>>
  /\ pc = "loop" => opening = {}
  /\ todo \cap devs = {} /\ todo \cap opening = {} /\ devs \cap opening = {}

(* What a device held, the events being handled and those in its buffer,      *)
(* taken together, tell what is down on it. *)
ModifiersAgree ==
  \A d \in devs \ gone, k \in ModKey :
    k \in phys[d]
      <=> DownAfter(evq[d], k, DownAfter(BatchOf(d), k, k \in d_modifiers[d]))

ModifiersInv == EventsTyped /\ NoStrayEvents /\ ModifiersAgree

-----------------------------------------------------------------------------
(* The events of a buffer without those of keys.                           *)

NoKey == {e \in Event : e.type # "KEY"}

Dropped(kept, e) ==
  e.type = "KEY" \/ (e.type = "SYN" /\ kept # <<>> /\ Last(kept).type = "SYN")

DropKey ==
  [p \in Seq(NoKey) \X Event |-> IF Dropped(p[1], p[2]) THEN p[1] ELSE Append(p[1], p[2])]

LEMMA DropKeyType ==
  /\ DropKey \in [Seq(NoKey) \X Event -> Seq(NoKey)]
  /\ \A a \in Seq(NoKey), x \in Event :
       DropKey[<<a, x>>] = IF Dropped(a, x) THEN a ELSE Append(a, x)
<1>1. ASSUME NEW a \in Seq(NoKey), NEW x \in Event
      PROVE  (IF Dropped(a, x) THEN a ELSE Append(a, x)) \in Seq(NoKey)
  <2>1. ~Dropped(a, x) => x \in NoKey
    BY DEF Dropped, NoKey
  <2>2. x \in NoKey => Append(a, x) \in Seq(NoKey)
    BY AppendProperties
  <2> HIDE DEF Dropped
  <2> QED BY <2>1, <2>2
<1> QED BY <1>1 DEF DropKey

LEMMA WithoutKeysIterates ==
  ASSUME NEW s \in Seq(Event)
  PROVE  \E g : IterationTo(WithoutKeys(s), g, s, Seq(NoKey), <<>>, DropKey)
<1> DEFINE D == DOMAIN s
           Is(f) == f = [T \in SUBSET D |->
                          IF T = {} THEN <<>>
                          ELSE IF s[Max(T)].type = "KEY"
                                    \/ (s[Max(T)].type = "SYN" /\ f[T \ {Max(T)}] # <<>>
                                          /\ Last(f[T \ {Max(T)}]).type = "SYN")
                               THEN f[T \ {Max(T)}]
                               ELSE Append(f[T \ {Max(T)}], s[Max(T)])]
           h == CHOOSE f : Is(f)
<1>0. <<>> \in Seq(NoKey)
  OBVIOUS
<1>1. DropKey \in [Seq(NoKey) \X Event -> Seq(NoKey)]
  BY DropKeyType
<1>2. Len(s) \in Nat /\ D = 1..Len(s) /\ \A i \in D : s[i] \in Event
  BY LenProperties, ElementOfSeq
<1>3. \A a \in Seq(NoKey), i \in D :
        DropKey[<<a, s[i]>>] = IF s[i].type = "KEY"
                                    \/ (s[i].type = "SYN" /\ a # <<>> /\ Last(a).type = "SYN")
                               THEN a ELSE Append(a, s[i])
  BY <1>2, DropKeyType DEF Dropped
<1>4. PICK f \in [SUBSET D -> Seq(NoKey)] : LeftFolds(f, s, <<>>, DropKey)
  <2>1. \E f \in [SUBSET DOMAIN s -> Seq(NoKey)] : LeftFolds(f, s, <<>>, DropKey)
    BY <1>0, <1>1, SequenceFoldExists
  <2> QED BY <2>1
<1>5. Is(f)
  <2>1. \A T \in SUBSET D : T # {} => Max(T) \in T
    BY <1>2, MaxOfSome
  <2>2. ASSUME NEW T \in SUBSET D
        PROVE  f[T] = IF T = {} THEN <<>>
                      ELSE IF s[Max(T)].type = "KEY"
                                \/ (s[Max(T)].type = "SYN" /\ f[T \ {Max(T)}] # <<>>
                                      /\ Last(f[T \ {Max(T)}]).type = "SYN")
                           THEN f[T \ {Max(T)}]
                           ELSE Append(f[T \ {Max(T)}], s[Max(T)])
    BY <1>3, <1>4, <2>1 DEF LeftFolds
  <2> QED BY <2>2
<1>6. Is(h)
  BY <1>5
<1>7. WithoutKeys(s) = h[D]
  BY DEF WithoutKeys, FoldLeft, MapThenFoldSet
<1> HIDE DEF h
<1>8. \A T \in SUBSET D :
        h[T] = IF T = {} THEN <<>>
               ELSE IF s[Max(T)].type = "KEY"
                         \/ (s[Max(T)].type = "SYN" /\ h[T \ {Max(T)}] # <<>>
                               /\ Last(h[T \ {Max(T)}]).type = "SYN")
                    THEN h[T \ {Max(T)}]
                    ELSE Append(h[T \ {Max(T)}], s[Max(T)])
  BY <1>6
<1>9. ASSUME NEW i \in 1..Len(s), h[1..(i - 1)] \in Seq(NoKey)
      PROVE  h[1..i] = DropKey[<<h[1..(i - 1)], s[i]>>]
  <2>1. i \in D /\ i \in 1..i /\ 1..i \in SUBSET D /\ i \in Nat \ {0}
    BY <1>2
  <2>2. 1..i # {} /\ Max(1..i) = i /\ (1..i) \ {i} = 1..(i - 1)
    BY <2>1, MaxUpTo
  <2>3. h[1..i] = IF s[i].type = "KEY"
                       \/ (s[i].type = "SYN" /\ h[1..(i - 1)] # <<>>
                             /\ Last(h[1..(i - 1)]).type = "SYN")
                  THEN h[1..(i - 1)] ELSE Append(h[1..(i - 1)], s[i])
    BY <1>8, <2>1, <2>2
  <2> QED BY <1>3, <1>9, <2>1, <2>3
<1>10. h[{}] = <<>>
  <2>1. {} \in SUBSET D
    OBVIOUS
  <2> QED BY <1>8, <2>1
<1>11. StepsAlong(h, s, Seq(NoKey), <<>>, DropKey)
  BY <1>9, <1>10 DEF StepsAlong
<1>12. \E g : IterationTo(h[DOMAIN s], g, s, Seq(NoKey), <<>>, DropKey)
  <2> HIDE DEF D
  <2> QED BY <1>0, <1>1, <1>11, BeginningsFold
<1> QED BY <1>7, <1>12

LEMMA WithoutKeysType == \A s \in Seq(Event) : WithoutKeys(s) \in Seq(NoKey)
BY WithoutKeysIterates, LenProperties DEF IterationTo

LEMMA WithoutKeysOfNone == WithoutKeys(<<>>) = <<>>
<1>1. <<>> \in Seq(Event) /\ Len(<<>>) = 0
  OBVIOUS
<1>2. \E g : IterationTo(WithoutKeys(<<>>), g, <<>>, Seq(NoKey), <<>>, DropKey)
  BY <1>1, WithoutKeysIterates
<1> QED BY <1>2 DEF IterationTo, Iterates

LEMMA WithoutKeysAppended ==
  ASSUME NEW s \in Seq(Event), NEW x \in Event
  PROVE  WithoutKeys(Append(s, x))
           = IF Dropped(WithoutKeys(s), x) THEN WithoutKeys(s) ELSE Append(WithoutKeys(s), x)
<1>1. Append(s, x) \in Seq(Event)
  BY AppendProperties
<1>2. PICK f : IterationTo(WithoutKeys(s), f, s, Seq(NoKey), <<>>, DropKey)
  BY WithoutKeysIterates
<1>3. PICK g : IterationTo(WithoutKeys(Append(s, x)), g, Append(s, x), Seq(NoKey), <<>>, DropKey)
  BY <1>1, WithoutKeysIterates
<1> DEFINE v == WithoutKeys(s)
           w == WithoutKeys(Append(s, x))
<1>4. IterationTo(v, f, s, Seq(NoKey), <<>>, DropKey)
      /\ IterationTo(w, g, Append(s, x), Seq(NoKey), <<>>, DropKey)
  BY <1>2, <1>3
<1> HIDE DEF v, w
<1>5. v \in Seq(NoKey) /\ w = DropKey[<<v, x>>]
  BY <1>4, IterationAppended
<1>6. w = IF Dropped(v, x) THEN v ELSE Append(v, x)
  BY <1>5, DropKeyType
<1> QED BY <1>6 DEF v, w

(* What is left puts no key down or up. *)
LEMMA WithoutKeysDecides ==
  ASSUME NEW s \in Seq(Event)
  PROVE  /\ WithoutKeys(s) \in Seq(Event)
         /\ \A i \in DOMAIN WithoutKeys(s) : \A k : ~Decisive(WithoutKeys(s)[i], k)
         /\ \A k, h : DownAfter(WithoutKeys(s), k, h) <=> h
<1> DEFINE t == WithoutKeys(s)
<1>1. t \in Seq(NoKey)
  BY WithoutKeysType
<1> HIDE DEF t
<1>2. \A i \in DOMAIN t : t[i] \in NoKey
  BY <1>1, LenProperties, ElementOfSeq
<1>3. t \in Seq(Event)
  <2>1. NoKey \subseteq Event
    BY DEF NoKey
  <2> HIDE DEF NoKey
  <2> QED BY <1>1, <2>1
<1>4. \A i \in DOMAIN t : \A k : ~Decisive(t[i], k)
  BY <1>2 DEF NoKey, Decisive
<1>5. \A k, h : DownAfter(t, k, h) <=> h
  BY <1>4 DEF DownAfter
<1> QED BY <1>3, <1>4, <1>5 DEF t

-----------------------------------------------------------------------------
(* Events and the keys they leave down. *)

(* A report at the end of the events decides if it is of the key. *)
LEMMA Reported ==
  ASSUME NEW s \in Seq(Event), NEW e \in Event, NEW k, NEW held
  PROVE  /\ s \o <<e, SynEvent>> \in Seq(Event)
         /\ DownAfter(s \o <<e, SynEvent>>, k, held)
              <=> IF Decisive(e, k) THEN e.value = 1 ELSE DownAfter(s, k, held)
<1> DEFINE t == s \o <<e, SynEvent>>
<1>0. SynEvent \in Event /\ ~Decisive(SynEvent, k)
  BY DEF SynEvent, Event, Decisive
<1>1. /\ t \in Seq(Event) /\ Len(s) \in Nat /\ DOMAIN s = 1..Len(s)
      /\ DOMAIN t = 1..(Len(s) + 2)
      /\ \A i \in 1..Len(s) : t[i] = s[i]
      /\ t[Len(s) + 1] = e /\ t[Len(s) + 2] = SynEvent
  <2> DEFINE r == <<e, SynEvent>>
  <2>1. r \in Seq(Event) /\ Len(r) = 2 /\ r[1] = e /\ r[2] = SynEvent
    BY <1>0
  <2> HIDE DEF r
  <2>2. /\ t \in Seq(Event) /\ Len(t) = Len(s) + 2
        /\ \A i \in 1..(Len(s) + 2) :
             t[i] = IF i <= Len(s) THEN s[i] ELSE r[i - Len(s)]
    BY <2>1, ConcatProperties DEF r
  <2> HIDE DEF t
  <2>3. Len(s) \in Nat /\ DOMAIN s = 1..Len(s) /\ DOMAIN t = 1..Len(t)
    BY <2>2, LenProperties
  <2> QED BY <2>1, <2>2, <2>3
<1> HIDE DEF t
<1>2. ASSUME Decisive(e, k) PROVE DownAfter(t, k, held) <=> e.value = 1
  BY <1>0, <1>1, <1>2 DEF DownAfter
<1>3. ASSUME ~Decisive(e, k) PROVE DownAfter(t, k, held) <=> DownAfter(s, k, held)
  <2>1. \A j \in DOMAIN t : Decisive(t[j], k) => j \in DOMAIN s
    BY <1>0, <1>1, <1>3
  <2>2. DOMAIN s \subseteq DOMAIN t /\ \A j \in DOMAIN s : t[j] = s[j]
    BY <1>1
  <2>3. ASSUME NEW i \in DOMAIN s, Decisive(s[i], k), s[i].value = 1
        PROVE  (\A j \in DOMAIN s : j > i => ~Decisive(s[j], k))
                 <=> (\A j \in DOMAIN t : j > i => ~Decisive(t[j], k))
    BY <2>1, <2>2
  <2>4. (\A i \in DOMAIN s : ~Decisive(s[i], k)) <=> (\A i \in DOMAIN t : ~Decisive(t[i], k))
    BY <2>1, <2>2
  <2>5. DownAfter(s, k, held) => DownAfter(t, k, held)
    BY <2>2, <2>3, <2>4 DEF DownAfter
  <2>6. DownAfter(t, k, held) => DownAfter(s, k, held)
    BY <2>1, <2>2, <2>3, <2>4 DEF DownAfter
  <2> QED BY <2>5, <2>6
<1> QED BY <1>1, <1>2, <1>3 DEF t

(* Handling the first event moves its effect from the events to what is held. *)
LEMMA FirstHandled ==
  ASSUME NEW s \in Seq(Event), s # <<>>, NEW k, NEW held
  PROVE  DownAfter(s, k, held)
           <=> DownAfter(Tail(s), k,
                         IF Decisive(Head(s), k) THEN Head(s).value = 1 ELSE held)
<1> DEFINE t == Tail(s)
           now == IF Decisive(Head(s), k) THEN Head(s).value = 1 ELSE held
<1>1. /\ DOMAIN s = 1..Len(s) /\ Len(s) \in Nat \ {0} /\ Head(s) = s[1]
      /\ DOMAIN t = 1..(Len(s) - 1)
      /\ \A i \in 1..(Len(s) - 1) : t[i] = s[i + 1]
  BY HeadTailProperties
<1>2. /\ \A i \in DOMAIN t : i + 1 \in DOMAIN s /\ t[i] = s[i + 1]
      /\ \A i \in DOMAIN s : i = 1 \/ (i - 1 \in DOMAIN t /\ t[i - 1] = s[i])
      /\ 1 \in DOMAIN s
  BY <1>1
<1> HIDE DEF t
<1>3. ASSUME DownAfter(s, k, held) PROVE DownAfter(t, k, now)
  <2>1. CASE held /\ \A i \in DOMAIN s : ~Decisive(s[i], k)
    BY <1>1, <1>2, <2>1 DEF DownAfter
  <2>2. ASSUME NEW i \in DOMAIN s, Decisive(s[i], k), s[i].value = 1,
               \A j \in DOMAIN s : j > i => ~Decisive(s[j], k)
        PROVE  DownAfter(t, k, now)
    <3>1. CASE i = 1
      <4>1. now /\ \A j \in DOMAIN t : ~Decisive(t[j], k)
        BY <1>1, <1>2, <2>2, <3>1
      <4> QED BY <4>1 DEF DownAfter
    <3>2. CASE i # 1
      <4>1. /\ i - 1 \in DOMAIN t /\ t[i - 1] = s[i]
            /\ \A j \in DOMAIN t : j > i - 1 => ~Decisive(t[j], k)
        BY <1>1, <1>2, <2>2, <3>2
      <4> QED BY <2>2, <4>1 DEF DownAfter
    <3> QED BY <3>1, <3>2
  <2> QED BY <1>3, <2>1, <2>2 DEF DownAfter
<1>4. ASSUME DownAfter(t, k, now) PROVE DownAfter(s, k, held)
  <2>1. CASE now /\ \A i \in DOMAIN t : ~Decisive(t[i], k)
    <3>1. \A j \in DOMAIN s : j > 1 => ~Decisive(s[j], k)
      BY <1>2, <2>1
    <3>2. CASE Decisive(Head(s), k)
      BY <1>1, <1>2, <2>1, <3>1, <3>2 DEF DownAfter
    <3>3. CASE ~Decisive(Head(s), k)
      <4>1. held /\ \A j \in DOMAIN s : ~Decisive(s[j], k)
        BY <1>1, <1>2, <2>1, <3>3
      <4> QED BY <4>1 DEF DownAfter
    <3> QED BY <3>2, <3>3
  <2>2. ASSUME NEW i \in DOMAIN t, Decisive(t[i], k), t[i].value = 1,
               \A j \in DOMAIN t : j > i => ~Decisive(t[j], k)
        PROVE  DownAfter(s, k, held)
    <3>1. /\ i + 1 \in DOMAIN s /\ s[i + 1] = t[i]
          /\ \A j \in DOMAIN s : j > i + 1 => ~Decisive(s[j], k)
      BY <1>1, <1>2, <2>2
    <3> QED BY <2>2, <3>1 DEF DownAfter
  <2> QED BY <1>4, <2>1, <2>2 DEF DownAfter
<1> QED BY <1>3, <1>4 DEF t

(* Only whether the key was held matters, not how that is said. *)
LEMMA SameHeld ==
  ASSUME NEW s, NEW k, NEW a, NEW b, a <=> b
  PROVE  DownAfter(s, k, a) <=> DownAfter(s, k, b)
BY DEF DownAfter

(* What a key event does to the modifiers of its device. *)
LEMMA EventModifiers ==
  ASSUME NEW mods \in Modifiers, NEW e \in Event, e.type = "KEY"
  PROVE  /\ ModifiersAfter(mods, e.code, StateOfValue(e.value)) \in Modifiers
         /\ \A k \in ModKey :
              k \in ModifiersAfter(mods, e.code, StateOfValue(e.value))
                <=> IF Decisive(e, k) THEN e.value = 1 ELSE k \in mods
<1>1. CASE e.value = 0
  BY <1>1 DEF StateOfValue, ModifiersAfter, Decisive, modifier_from_keycode, Modifiers
<1>2. CASE e.value = 1
  BY <1>2 DEF StateOfValue, ModifiersAfter, Decisive, modifier_from_keycode, Modifiers
<1>3. CASE e.value \notin {0, 1}
  BY <1>3 DEF StateOfValue, ModifiersAfter, Decisive, modifier_from_keycode, Modifiers
<1> QED BY <1>1, <1>2, <1>3

(* The modifiers among the keys down. *)
LEMMA ModifiersDown ==
  ASSUME NEW keys \in SUBSET Key PROVE modifiers_from_key_codes(keys) = keys \cap ModKey
BY DEF modifiers_from_key_codes, modifier_from_keycode

-----------------------------------------------------------------------------
(* The steps.                                                              *)

(* A report of a device, which changes what is down on it as the event tells. *)
LEMMA DeviceReports ==
  ASSUME ModifiersInv, NEW d \in Device, NEW e \in Event, Report(d, e),
         phys' \in [Device -> SUBSET Key],
         \A other \in Device \ {d} : phys'[other] = phys[other],
         \A k \in ModKey :
           k \in phys'[d] <=> IF Decisive(e, k) THEN e.value = 1 ELSE k \in phys[d],
         UNCHANGED <<devs, opening, todo, gone, cur, batch, d_modifiers, pc>>
  PROVE  ModifiersInv'
<1>0. EventsTyped /\ NoStrayEvents /\ ModifiersAgree
  BY DEF ModifiersInv
<1>1. CASE Open(d)
  <2>1. evq' = [evq EXCEPT ![d] = @ \o <<e, SynEvent>>]
    BY <1>1 DEF Report
  <2>2. evq[d] \in Seq(Event)
    BY <1>0 DEF EventsTyped
  <2>3. evq[d] \o <<e, SynEvent>> \in Seq(Event)
    BY <2>2, Reported
  <2>4. /\ evq' \in [Device -> Seq(Event)] /\ evq'[d] = evq[d] \o <<e, SynEvent>>
        /\ \A other \in Device \ {d} : evq'[other] = evq[other]
    BY <1>0, <2>1, <2>3 DEF EventsTyped
  <2>5. EventsTyped' /\ NoStrayEvents'
    BY <1>0, <1>1, <2>4 DEF EventsTyped, NoStrayEvents, Open
  <2>6. ASSUME NEW f \in devs' \ gone', NEW k \in ModKey
        PROVE  k \in phys'[f]
                 <=> DownAfter(evq'[f], k, DownAfter(BatchOf(f)', k, k \in d_modifiers'[f]))
    <3>1. BatchOf(f)' = BatchOf(f) /\ f \in devs \ gone /\ f \in Device
      BY <1>0, <2>6 DEF BatchOf, EventsTyped
    <3>2. CASE f = d
      <4> DEFINE held == DownAfter(BatchOf(d), k, k \in d_modifiers[d])
      <4>1. k \in phys[d] <=> DownAfter(evq[d], k, held)
        BY <1>0, <3>1, <3>2 DEF ModifiersAgree
      <4>2. DownAfter(evq[d] \o <<e, SynEvent>>, k, held)
              <=> IF Decisive(e, k) THEN e.value = 1 ELSE DownAfter(evq[d], k, held)
        BY <2>2, Reported
      <4>3. DownAfter(evq'[d], k, held) <=> k \in phys'[d]
        BY <2>4, <4>1, <4>2
      <4>4. d_modifiers' = d_modifiers
        OBVIOUS
      <4> QED BY <3>1, <3>2, <4>3, <4>4
    <3>3. CASE f # d
      BY <1>0, <2>4, <2>6, <3>1, <3>3 DEF ModifiersAgree
    <3> QED BY <3>2, <3>3
  <2> QED BY <2>5, <2>6 DEF ModifiersInv, ModifiersAgree
<1>2. CASE ~Open(d)
  <2>1. evq' = evq
    BY <1>2 DEF Report
  <2>2. EventsTyped' /\ NoStrayEvents'
    BY <1>0, <2>1 DEF EventsTyped, NoStrayEvents
  <2>3. \A f \in devs \ gone : f # d /\ f \in Device
    BY <1>0, <1>2 DEF Open, EventsTyped
  <2>4. ModifiersAgree'
    BY <1>0, <2>1, <2>3 DEF ModifiersAgree, BatchOf
  <2> QED BY <2>2, <2>4 DEF ModifiersInv
<1> QED BY <1>1, <1>2

(* The first event of the batch has been handled. *)
LEMMA EventHandled ==
  ASSUME ModifiersInv, pc = "loop", batch # <<>>, batch' = Tail(batch),
         d_modifiers' \in [Device -> Modifiers],
         \A d \in Device \ {cur} : d_modifiers'[d] = d_modifiers[d],
         \A k \in ModKey :
           k \in d_modifiers'[cur]
             <=> IF Decisive(Head(batch), k) THEN Head(batch).value = 1
                                            ELSE k \in d_modifiers[cur],
         UNCHANGED <<devs, opening, todo, gone, cur, phys, evq, pc>>
  PROVE  ModifiersInv'
<1>0. EventsTyped /\ NoStrayEvents /\ ModifiersAgree
  BY DEF ModifiersInv
<1>1. batch \in Seq(Event) /\ batch' \in Seq(Event)
  BY <1>0, HeadTailProperties DEF EventsTyped
<1>2. EventsTyped' /\ NoStrayEvents'
  BY <1>0, <1>1 DEF EventsTyped, NoStrayEvents
<1>3. ASSUME NEW d \in devs \ gone, NEW k \in ModKey
      PROVE  k \in phys[d]
               <=> DownAfter(evq[d], k, DownAfter(BatchOf(d)', k, k \in d_modifiers'[d]))
  <2>1. k \in phys[d]
          <=> DownAfter(evq[d], k, DownAfter(BatchOf(d), k, k \in d_modifiers[d]))
    BY <1>0 DEF ModifiersAgree
  <2>2. CASE d = cur
    <3>1. BatchOf(d) = batch /\ BatchOf(d)' = Tail(batch)
      BY <2>2 DEF BatchOf
    <3>2. DownAfter(batch, k, k \in d_modifiers[cur])
            <=> DownAfter(Tail(batch), k,
                  IF Decisive(Head(batch), k) THEN Head(batch).value = 1
                                              ELSE k \in d_modifiers[cur])
      BY <1>1, FirstHandled
    <3>3. DownAfter(batch, k, k \in d_modifiers[cur])
            <=> DownAfter(Tail(batch), k, k \in d_modifiers'[cur])
      BY <3>2, SameHeld
    <3> QED BY <2>1, <2>2, <3>1, <3>3, SameHeld
  <2>3. CASE d # cur
    <3>1. BatchOf(d) = <<>> /\ BatchOf(d)' = <<>> /\ d_modifiers'[d] = d_modifiers[d]
      BY <1>0, <2>3 DEF BatchOf, EventsTyped
    <3> QED BY <2>1, <3>1
  <2> QED BY <2>2, <2>3
<1> QED BY <1>2, <1>3 DEF ModifiersInv, ModifiersAgree

(* The user and the plugs. *)
LEMMA HardwareReports ==
  ASSUME ModifiersInv, Typing \/ Hotplug
  PROVE  ModifiersInv'
<1>0. EventsTyped /\ NoStrayEvents /\ ModifiersAgree
  BY DEF ModifiersInv
<1>1. UNCHANGED <<devs, opening, todo, cur, batch, d_modifiers, pc>>
  BY DEF Typing, Hotplug, fetching, round
<1>2. ASSUME NEW d \in Device, NEW k \in Key, KeyChanges(d, k) PROVE ModifiersInv'
  <2>1. phys[d] \in SUBSET Key /\ UNCHANGED gone
    BY <1>0, <1>2 DEF EventsTyped, KeyChanges
  <2>2. CASE k \in phys[d]
    <3>1. phys' = [phys EXCEPT ![d] = @ \ {k}] /\ Report(d, KeyEvent(k, 0))
      BY <1>2, <2>2 DEF KeyChanges
    <3>2. KeyEvent(k, 0) \in Event /\ \A l : Decisive(KeyEvent(k, 0), l) <=> l = k
      BY DEF KeyEvent, Event, Decisive
    <3>3. KeyEvent(k, 0).value = 0
      BY DEF KeyEvent
    <3>4. /\ phys' \in [Device -> SUBSET Key] /\ phys'[d] = phys[d] \ {k}
          /\ \A other \in Device \ {d} : phys'[other] = phys[other]
      BY <1>0, <2>1, <3>1 DEF EventsTyped
    <3> QED BY <1>1, <2>1, <3>1, <3>2, <3>3, <3>4, DeviceReports
  <2>3. CASE k \notin phys[d]
    <3>1. phys' = [phys EXCEPT ![d] = @ \cup {k}] /\ Report(d, KeyEvent(k, 1))
      BY <1>2, <2>3 DEF KeyChanges
    <3>2. KeyEvent(k, 1) \in Event /\ \A l : Decisive(KeyEvent(k, 1), l) <=> l = k
      BY DEF KeyEvent, Event, Decisive
    <3>3. KeyEvent(k, 1).value = 1
      BY DEF KeyEvent
    <3>4. /\ phys' \in [Device -> SUBSET Key] /\ phys'[d] = phys[d] \cup {k}
          /\ \A other \in Device \ {d} : phys'[other] = phys[other]
      BY <1>0, <2>1, <3>1 DEF EventsTyped
    <3> QED BY <1>1, <2>1, <3>1, <3>2, <3>3, <3>4, DeviceReports
  <2> QED BY <2>2, <2>3
<1>3. ASSUME NEW d \in Device, NEW e \in Event, Report(d, e), UNCHANGED <<phys, gone>>,
             \A k : ~Decisive(e, k)
      PROVE  ModifiersInv'
  BY <1>0, <1>1, <1>3, DeviceReports DEF EventsTyped
<1>4. ASSUME NEW d \in Device, NEW k \in Key, KeyRepeats(d, k) PROVE ModifiersInv'
  <2>1. KeyEvent(k, 2) \in Event /\ \A l : ~Decisive(KeyEvent(k, 2), l)
    BY DEF KeyEvent, Event, Decisive
  <2> QED BY <1>3, <1>4, <2>1 DEF KeyRepeats
<1>5. ASSUME NEW d \in Mouse, NEW ax \in Axis, NEW v \in Position, MouseMoves(d, ax, v)
      PROVE  ModifiersInv'
  <2>1. RelEvent(ax, v) \in Event /\ \A l : ~Decisive(RelEvent(ax, v), l)
    BY ChannelsAssumption DEF RelEvent, Event, Decisive
  <2> QED BY <1>3, <1>5, <2>1 DEF MouseMoves, Device
<1>6. ASSUME NEW d \in Device, Unplugged(d) PROVE ModifiersInv'
  <2>1. /\ gone' = gone \cup ({d} \cap (devs \cup opening))
        /\ phys' = [phys EXCEPT ![d] = {}] /\ evq' = [evq EXCEPT ![d] = <<>>]
    BY <1>6 DEF Unplugged
  <2>2. EventsTyped' /\ NoStrayEvents'
    BY <1>0, <1>1, <2>1 DEF EventsTyped, NoStrayEvents
  <2>3. \A f \in devs' \ gone' : f \in devs \ gone /\ phys'[f] = phys[f] /\ evq'[f] = evq[f]
    BY <1>0, <1>1, <2>1 DEF EventsTyped
  <2>4. ModifiersAgree'
    BY <1>0, <1>1, <2>3 DEF ModifiersAgree, BatchOf
  <2> QED BY <2>2, <2>4 DEF ModifiersInv
<1>7. ASSUME NEW d \in Device, Plugged(d) PROVE ModifiersInv'
  BY <1>0, <1>1, <1>7
     DEF Plugged, ModifiersInv, EventsTyped, NoStrayEvents, ModifiersAgree, BatchOf
<1> QED BY <1>2, <1>4, <1>5, <1>6, <1>7 DEF Typing, Hotplug

(* Asking a device for its keys leaves no key event in its buffer. *)
AsksKeys(d) == Check(d) \/ Recheck(d) \/ ReadModifiers(d)

LEMMA Asked ==
  ASSUME NEW d, AsksKeys(d)
  PROVE  /\ pc = "fetch" /\ d \in opening \ gone
         /\ evq' = [evq EXCEPT ![d] = WithoutKeys(@)]
         /\ UNCHANGED <<present, phys, gone, timer, pc, update_devices, first_fetch, todo, round,
                        pending, accumulated, bindings, owed, channels>>
         /\ \/ /\ UNCHANGED <<devs, opening, d_modifiers>>
               /\ at' \in {"check", "recheck", "read"}
            \/ /\ devs' = devs \cup {d} /\ opening' = {} /\ at' = "check"
               /\ d_modifiers' = [d_modifiers EXCEPT ![d] = modifiers_from_key_codes(phys[d])]
BY DEF AsksKeys, Check, Recheck, ReadModifiers, ReadsKeys, List

LEMMA OpenStep ==
  ASSUME ModifiersInv, NEW d \in Device, OpenDevice(d)
  PROVE  ModifiersInv'
BY DEF ModifiersInv, EventsTyped, NoStrayEvents, ModifiersAgree, BatchOf, OpenDevice, hardware, round

(* Listing a device notes the modifiers that are down on it. *)
LEMMA AskStep ==
  ASSUME ModifiersInv, NEW d \in Device, AsksKeys(d)
  PROVE  ModifiersInv'
<1>0. EventsTyped /\ NoStrayEvents /\ ModifiersAgree
  BY DEF ModifiersInv
<1>1. /\ d \in opening \ gone /\ pc = "fetch" /\ batch = <<>>
      /\ evq' = [evq EXCEPT ![d] = WithoutKeys(@)]
      /\ UNCHANGED <<phys, gone, todo, pc, cur, batch>>
  BY <1>0, Asked DEF NoStrayEvents, round
<1>2. phys[d] \in SUBSET Key /\ modifiers_from_key_codes(phys[d]) = phys[d] \cap ModKey
  BY <1>0, ModifiersDown DEF EventsTyped
<1>3. /\ WithoutKeys(evq[d]) \in Seq(Event)
      /\ \A k, h : DownAfter(WithoutKeys(evq[d]), k, h) <=> h
  BY <1>0, WithoutKeysDecides DEF EventsTyped
<1>4. /\ evq' \in [Device -> Seq(Event)] /\ evq'[d] = WithoutKeys(evq[d])
      /\ \A f \in Device \ {d} : evq'[f] = evq[f]
  BY <1>0, <1>1, <1>3 DEF EventsTyped
<1>5. ASSUME UNCHANGED <<devs, opening, d_modifiers>> PROVE ModifiersInv'
  <2>1. EventsTyped' /\ NoStrayEvents'
    BY <1>0, <1>1, <1>4, <1>5 DEF EventsTyped, NoStrayEvents
  <2>2. \A f \in devs \ gone : f \in Device \ {d}
    BY <1>0, <1>1 DEF EventsTyped, NoStrayEvents
  <2>3. ModifiersAgree'
    BY <1>0, <1>1, <1>4, <1>5, <2>2 DEF ModifiersAgree, BatchOf
  <2> QED BY <2>1, <2>3 DEF ModifiersInv
<1>6. ASSUME devs' = devs \cup {d}, opening' = {},
             d_modifiers' = [d_modifiers EXCEPT ![d] = modifiers_from_key_codes(phys[d])]
      PROVE  ModifiersInv'
  <2>1. /\ d_modifiers' \in [Device -> Modifiers] /\ d_modifiers'[d] = phys[d] \cap ModKey
        /\ \A f \in Device \ {d} : d_modifiers'[f] = d_modifiers[f]
    BY <1>0, <1>2, <1>6 DEF EventsTyped, Modifiers
  <2>2. opening = {d}
    BY <1>0, <1>1 DEF EventsTyped
  <2>3. EventsTyped' /\ NoStrayEvents'
    BY <1>0, <1>1, <1>4, <1>6, <2>1, <2>2 DEF EventsTyped, NoStrayEvents
  <2>4. ASSUME NEW f \in devs' \ gone', NEW k \in ModKey
        PROVE  k \in phys'[f]
                 <=> DownAfter(evq'[f], k, DownAfter(BatchOf(f)', k, k \in d_modifiers'[f]))
    <3>1. BatchOf(f) = <<>> /\ BatchOf(f)' = <<>> /\ phys' = phys
      BY <1>1 DEF BatchOf
    <3>2. CASE f # d
      <4>1. d_modifiers'[f] = d_modifiers[f] /\ evq'[f] = evq[f] /\ f \in devs \ gone
        BY <1>0, <1>1, <1>4, <1>6, <2>1, <2>4, <3>2 DEF EventsTyped
      <4> QED BY <1>0, <3>1, <4>1 DEF ModifiersAgree
    <3>3. CASE f = d
      <4> DEFINE none == DownAfter(<<>>, k, k \in d_modifiers'[d])
      <4>1. DownAfter(evq'[d], k, none) <=> none
        BY <1>3, <1>4
      <4>2. none <=> k \in d_modifiers'[d]
        BY DEF DownAfter
      <4> HIDE DEF none
      <4>3. k \in phys[d] <=> k \in d_modifiers'[d]
        BY <2>1
      <4>4. k \in phys[d] <=> DownAfter(evq'[d], k, none)
        BY <4>1, <4>2, <4>3
      <4> QED BY <3>1, <3>3, <4>4 DEF none
    <3> QED BY <3>2, <3>3
  <2> QED BY <2>3, <2>4 DEF ModifiersInv, ModifiersAgree
<1> QED BY <1>5, <1>6, Asked

(* The thread. *)
LEMMA ThreadStep ==
  ASSUME ModifiersInv, InputThread
  PROVE  ModifiersInv'
<1>0. EventsTyped /\ NoStrayEvents /\ ModifiersAgree
  BY DEF ModifiersInv
<1>1. CASE StartFetch
  <2>1. /\ evq' = [d \in Device |-> <<>>] /\ devs' = {} /\ gone' = {} /\ batch = <<>>
        /\ opening = {} /\ pc' = "fetch" /\ UNCHANGED <<phys, opening, d_modifiers, cur, batch>>
    BY <1>0, <1>1 DEF StartFetch, AtLoopTop, NoStrayEvents, round
  <2> QED BY <1>0, <2>1 DEF ModifiersInv, EventsTyped, NoStrayEvents, ModifiersAgree
<1>2. CASE DeviceError \/ FetchDone \/ Poll \/ ReceiveFromCore \/ DrainAccumulated
  <2>1. /\ UNCHANGED <<phys, evq, gone, devs, opening, todo, d_modifiers, cur, batch>>
        /\ pc' # "fetch" /\ (pc' = "loop" => opening = {})
    BY <1>0, <1>2 DEF NoStrayEvents, DeviceError, FetchDone, Poll, AtLoopTop, ReceiveFromCore, DrainAccumulated,
                DevicesHandled, hardware, fetching, round
  <2> QED BY <1>0, <2>1
          DEF ModifiersInv, EventsTyped, NoStrayEvents, ModifiersAgree, BatchOf
<1>3. ASSUME NEW d \in Device, FetchEvents(d) PROVE ModifiersInv'
  <2>1. /\ pc = "loop" /\ batch = <<>> /\ cur' = d /\ batch' = evq[d]
        /\ evq' = [evq EXCEPT ![d] = <<>>]
        /\ UNCHANGED <<phys, gone, pc, devs, opening, todo, d_modifiers>>
    BY <1>3 DEF FetchEvents, fetching
  <2>2. EventsTyped' /\ NoStrayEvents'
    BY <1>0, <2>1 DEF EventsTyped, NoStrayEvents
  <2>3. ASSUME NEW f \in devs \ gone, NEW k \in ModKey
        PROVE  k \in phys[f]
                 <=> DownAfter(evq'[f], k, DownAfter(BatchOf(f)', k, k \in d_modifiers[f]))
    <3>1. k \in phys[f] <=> DownAfter(evq[f], k, DownAfter(BatchOf(f), k, k \in d_modifiers[f]))
      BY <1>0 DEF ModifiersAgree
    <3>2. BatchOf(f) = <<>> /\ f \in Device
      BY <1>0, <2>1 DEF BatchOf, EventsTyped
    <3>3. CASE f = d
      <4>1. evq'[f] = <<>> /\ BatchOf(f)' = evq[f]
        BY <1>0, <2>1, <3>3 DEF BatchOf, EventsTyped
      <4> DEFINE held == k \in d_modifiers[f]
                 same == DownAfter(<<>>, k, held)
      <4>2. same <=> held
        BY DEF DownAfter
      <4>3. DownAfter(<<>>, k, DownAfter(evq[f], k, held)) <=> DownAfter(evq[f], k, held)
        BY DEF DownAfter
      <4>4. k \in phys[f] <=> DownAfter(evq[f], k, same)
        BY <3>1, <3>2
      <4> HIDE DEF same
      <4>5. DownAfter(evq[f], k, same) <=> DownAfter(evq[f], k, held)
        BY <4>2 DEF DownAfter
      <4> QED BY <4>1, <4>3, <4>4, <4>5
    <3>4. CASE f # d
      <4>1. evq'[f] = evq[f] /\ BatchOf(f)' = <<>>
        BY <1>0, <2>1, <3>2, <3>4 DEF BatchOf, EventsTyped
      <4> QED BY <3>1, <3>2, <4>1
    <3> QED BY <3>3, <3>4
  <2> QED BY <2>1, <2>2, <2>3 DEF ModifiersInv, ModifiersAgree
<1>4. CASE KeyFromKbd \/ KeyFromMouse
  <2> DEFINE e    == Head(batch)
             mods == ModifiersAfter(d_modifiers[cur], e.code, StateOfValue(e.value))
  <2>1. /\ pc = "loop" /\ batch # <<>> /\ batch' = Tail(batch) /\ e.type = "KEY"
        /\ d_modifiers' = [d_modifiers EXCEPT ![cur] = mods]
        /\ UNCHANGED <<devs, opening, todo, gone, cur, phys, evq, pc>>
    BY <1>4 DEF KeyFromKbd, KeyFromMouse, HandleKey, NextEvent, hardware, fetching
  <2>2. e \in Event /\ d_modifiers[cur] \in Modifiers
    BY <1>0, <2>1, HeadTailProperties DEF EventsTyped
  <2>3. /\ mods \in Modifiers
        /\ \A k \in ModKey :
             k \in mods <=> IF Decisive(e, k) THEN e.value = 1 ELSE k \in d_modifiers[cur]
    BY <2>1, <2>2, EventModifiers
  <2> HIDE DEF mods, e
  <2>4. /\ d_modifiers' \in [Device -> Modifiers] /\ d_modifiers'[cur] = mods
        /\ \A d \in Device \ {cur} : d_modifiers'[d] = d_modifiers[d]
    BY <1>0, <2>1, <2>3 DEF EventsTyped
  <2> QED BY <2>1, <2>3, <2>4, EventHandled DEF e
<1>5. CASE KbdSyn \/ MouseRel \/ MouseSyn
  <2>1. /\ pc = "loop" /\ batch # <<>> /\ batch' = Tail(batch) /\ Head(batch).type # "KEY"
        /\ UNCHANGED <<devs, opening, todo, gone, cur, phys, evq, pc, d_modifiers>>
    BY <1>5 DEF KbdSyn, MouseRel, MouseSyn, NextEvent, hardware, fetching
  <2>2. \A k : ~Decisive(Head(batch), k)
    BY <2>1 DEF Decisive
  <2> QED BY <1>0, <2>1, <2>2, EventHandled DEF EventsTyped
<1> QED BY <1>1, <1>2, <1>3, <1>4, <1>5, OpenStep, AskStep DEF InputThread, AsksKeys

LEMMA ModifiersUntouched ==
  ASSUME ModifiersInv, UNCHANGED inputVars PROVE ModifiersInv'
BY DEF inputVars, hardware, fetching, round, ModifiersInv, EventsTyped, NoStrayEvents,
       ModifiersAgree, BatchOf

LEMMA ModifiersStep ==
  ASSUME ModifiersInv, InputNext PROVE ModifiersInv'
<1>1. CASE TimerExpires
  BY <1>1 DEF TimerExpires, hardware, fetching, round, ModifiersInv, EventsTyped, NoStrayEvents,
              ModifiersAgree, BatchOf
<1> QED BY <1>1, ThreadStep, HardwareReports DEF InputNext

LEMMA ModifiersAtFirst ==
  ASSUME InputInit PROVE ModifiersInv
BY DEF InputInit, ModifiersInv, EventsTyped, NoStrayEvents, ModifiersAgree, Modifiers

LEMMA ModifiersInvariant == OpenSpec => []ModifiersInv
<1>1. OpenInit => ModifiersInv
  BY ModifiersAtFirst DEF OpenInit
<1>2. ModifiersInv /\ [OpenNext]_OpenVars => ModifiersInv'
  BY ModifiersStep, ModifiersUntouched
     DEF OpenNext, FromCore, TakenByCore, TakenByUInput, OpenVars
<1> QED BY <1>1, <1>2, PTL DEF OpenSpec

-----------------------------------------------------------------------------
LEMMA AgreedIsPhysical == ModifiersInv => ModifiersArePhysical
<1> SUFFICES ASSUME ModifiersInv, NEW d \in devs \ gone, Handled(d)
             PROVE  d_modifiers[d] = modifiers_from_key_codes(phys[d])
  BY DEF ModifiersArePhysical
<1>1. EventsTyped /\ ModifiersAgree
  BY DEF ModifiersInv
<1>2. /\ d \in Device /\ d_modifiers[d] \subseteq ModKey
      /\ modifiers_from_key_codes(phys[d]) = phys[d] \cap ModKey
  BY <1>1, ModifiersDown DEF EventsTyped, Modifiers
<1>3. evq[d] = <<>> /\ BatchOf(d) = <<>>
  BY DEF Handled, BatchOf
<1>4. ASSUME NEW k \in ModKey PROVE k \in phys[d] <=> k \in d_modifiers[d]
  <2>1. k \in phys[d] <=> DownAfter(<<>>, k, DownAfter(<<>>, k, k \in d_modifiers[d]))
    BY <1>1, <1>3 DEF ModifiersAgree
  <2>2. DownAfter(<<>>, k, DownAfter(<<>>, k, k \in d_modifiers[d]))
          <=> DownAfter(<<>>, k, k \in d_modifiers[d])
    BY DEF DownAfter
  <2>3. DownAfter(<<>>, k, k \in d_modifiers[d]) <=> k \in d_modifiers[d]
    BY DEF DownAfter
  <2> QED BY <2>1, <2>2, <2>3
<1> QED BY <1>2, <1>4

(* A key event is matched under the modifiers the user holds: for any number  *)
(* of keyboards and mice, plugged in and out, opened and reopened at any      *)
(* time, once a device's events are handled the thread knows what is down on  *)
(* it. *)
THEOREM ModifiersAreThoseHeld == OpenSpec => []ModifiersArePhysical
BY ModifiersInvariant, AgreedIsPhysical, PTL

LEMMA AsideTimedStep ==
  ASSUME AccumulatedWillBeSent, InputNext \/ UNCHANGED <<accumulated, timer>>
  PROVE  AccumulatedWillBeSent'
<1>1. CASE UNCHANGED <<accumulated, timer>>
  BY <1>1 DEF AccumulatedWillBeSent
<1>2. CASE TimerExpires
  BY <1>2 DEF TimerExpires, AccumulatedWillBeSent
<1>3. CASE DrainAccumulated
  BY <1>3 DEF DrainAccumulated, AccumulatedWillBeSent
<1>4. CASE MouseSyn
  <2>1. timer' = "armed" \/ UNCHANGED <<accumulated, timer>>
    BY <1>4 DEF MouseSyn
  <2> QED BY <1>1, <2>1 DEF AccumulatedWillBeSent
<1>5. CASE Typing \/ Hotplug
  BY <1>1, <1>5 DEF Typing, Hotplug
<1>6. CASE InputThread
  <2>1. CASE StartFetch \/ FetchDone \/ DeviceError \/ Poll
    BY <1>1, <2>1 DEF StartFetch, FetchDone, DeviceError, Poll
  <2>2. ASSUME NEW d \in Device, OpenDevice(d) \/ AsksKeys(d) \/ FetchEvents(d)
        PROVE  UNCHANGED <<accumulated, timer>>
    BY <2>2, Asked DEF OpenDevice, FetchEvents
  <2>3. CASE KeyFromKbd \/ KeyFromMouse \/ KbdSyn \/ MouseRel \/ ReceiveFromCore
    BY <1>1, <2>3 DEF KeyFromKbd, KeyFromMouse, HandleKey, KbdSyn, MouseRel, ReceiveFromCore
  <2> QED BY <1>1, <1>3, <1>4, <1>6, <2>1, <2>2, <2>3 DEF InputThread, AsksKeys
<1> QED BY <1>1, <1>2, <1>5, <1>6 DEF InputNext

(* Motion put aside is never forgotten: whenever some is, the timer runs or   *)
(* has run out and waits to be read. *)
THEOREM MotionAsideIsTimed == OpenSpec => []AccumulatedWillBeSent
<1>1. OpenInit => AccumulatedWillBeSent
  BY DEF OpenInit, InputInit, AccumulatedWillBeSent
<1>2. AccumulatedWillBeSent /\ [OpenNext]_OpenVars => AccumulatedWillBeSent'
  BY AsideTimedStep DEF OpenNext, FromCore, TakenByCore, TakenByUInput, OpenVars, inputVars
<1> QED BY <1>1, <1>2, PTL DEF OpenSpec

-----------------------------------------------------------------------------
(* Motion.                                                                 *)

(* What one action or event adds to the motion, where it is a number. *)
Moves(a, relType, ax) == a.type = relType /\ a.axis = ax
Part(a, relType, ax)  == IF Moves(a, relType, ax) THEN a.value ELSE 0

Moving(S, relType, ax) == \A a \in S : Moves(a, relType, ax) => a.value \in Int

AddPart(S, relType, ax) == [p \in Int \X S |-> p[1] + Part(p[2], relType, ax)]

LEMMA AddPartType ==
  ASSUME NEW S, NEW r, NEW ax, Moving(S, r, ax)
  PROVE  /\ AddPart(S, r, ax) \in [Int \X S -> Int]
         /\ \A x \in S : Part(x, r, ax) \in Int
<1>1. \A x \in S : Part(x, r, ax) \in Int
  BY DEF Part, Moving
<1> QED BY <1>1 DEF AddPart

LEMMA AddPartValue ==
  ASSUME NEW S, NEW r, NEW ax, NEW a \in Int, NEW x \in S
  PROVE  AddPart(S, r, ax)[<<a, x>>] = a + Part(x, r, ax)
BY DEF AddPart

(* Motion follows its recursion. *)
LEMMA MotionIterates ==
  ASSUME NEW S, NEW r, NEW ax, Moving(S, r, ax), NEW s \in Seq(S)
  PROVE  \E g : IterationTo(Motion(s, r, ax), g, s, Int, 0, AddPart(S, r, ax))
<1> DEFINE step == AddPart(S, r, ax)
           D == DOMAIN s
           Is(f) == f = [T \in SUBSET D |->
                          IF T = {} THEN 0
                          ELSE IF s[Max(T)].type = r /\ s[Max(T)].axis = ax
                               THEN f[T \ {Max(T)}] + s[Max(T)].value
                               ELSE f[T \ {Max(T)}]]
           h == CHOOSE f : Is(f)
<1>1. step \in [Int \X S -> Int]
  BY AddPartType
<1>2. Len(s) \in Nat /\ D = 1..Len(s) /\ \A i \in D : s[i] \in S
  BY LenProperties, ElementOfSeq
<1>3. \A a \in Int, i \in D :
        step[<<a, s[i]>>] = IF s[i].type = r /\ s[i].axis = ax THEN a + s[i].value ELSE a
  <2> SUFFICES ASSUME NEW a \in Int, NEW i \in D
               PROVE  step[<<a, s[i]>>]
                        = IF s[i].type = r /\ s[i].axis = ax THEN a + s[i].value ELSE a
    OBVIOUS
  <2>1. s[i] \in S
    BY <1>2
  <2>2. step[<<a, s[i]>>] = a + Part(s[i], r, ax)
    BY <2>1, AddPartValue
  <2> HIDE DEF step
  <2> QED BY <2>2 DEF Part, Moves
<1> HIDE DEF step
<1>4. PICK f \in [SUBSET D -> Int] : LeftFolds(f, s, 0, step)
  <2>1. 0 \in Int
    OBVIOUS
  <2>2. \E f \in [SUBSET DOMAIN s -> Int] : LeftFolds(f, s, 0, step)
    BY <1>1, <2>1, SequenceFoldExists
  <2> QED BY <2>2
<1>5. Is(f)
  <2>1. \A T \in SUBSET D : T # {} => Max(T) \in T
    BY <1>2, MaxOfSome
  <2>2. ASSUME NEW T \in SUBSET D
        PROVE  f[T] = IF T = {} THEN 0
                      ELSE IF s[Max(T)].type = r /\ s[Max(T)].axis = ax
                           THEN f[T \ {Max(T)}] + s[Max(T)].value ELSE f[T \ {Max(T)}]
    BY <1>3, <1>4, <2>1 DEF LeftFolds
  <2> QED BY <2>2
<1>6. Is(h)
  BY <1>5
<1>7. Motion(s, r, ax) = h[D]
  BY DEF Motion, FoldLeft, MapThenFoldSet
<1> HIDE DEF h
<1>8. \A T \in SUBSET D :
        h[T] = IF T = {} THEN 0
               ELSE IF s[Max(T)].type = r /\ s[Max(T)].axis = ax
                    THEN h[T \ {Max(T)}] + s[Max(T)].value ELSE h[T \ {Max(T)}]
  BY <1>6
<1>9. ASSUME NEW i \in 1..Len(s), h[1..(i - 1)] \in Int
      PROVE  h[1..i] = step[<<h[1..(i - 1)], s[i]>>]
  <2>1. i \in D /\ i \in 1..i /\ 1..i \in SUBSET D /\ i \in Nat \ {0}
    BY <1>2
  <2>2. 1..i # {} /\ Max(1..i) = i /\ (1..i) \ {i} = 1..(i - 1)
    BY <2>1, MaxUpTo
  <2>3. h[1..i] = IF s[i].type = r /\ s[i].axis = ax
                  THEN h[1..(i - 1)] + s[i].value ELSE h[1..(i - 1)]
    BY <1>8, <2>1, <2>2
  <2> QED BY <1>3, <1>9, <2>1, <2>3
<1>10. h[{}] = 0
  <2>1. {} \in SUBSET D
    OBVIOUS
  <2> QED BY <1>8, <2>1
<1>11. StepsAlong(h, s, Int, 0, step)
  BY <1>9, <1>10 DEF StepsAlong
<1>12. \E g : IterationTo(h[DOMAIN s], g, s, Int, 0, step)
  <2>1. 0 \in Int
    OBVIOUS
  <2> HIDE DEF D
  <2> QED BY <1>1, <1>11, <2>1, BeginningsFold
<1> QED BY <1>7, <1>12 DEF step

LEMMA MotionOfNone == \A r, ax : Motion(<<>>, r, ax) = 0
<1> SUFFICES ASSUME NEW r, NEW ax PROVE Motion(<<>>, r, ax) = 0
  OBVIOUS
<1>1. Moving({}, r, ax) /\ <<>> \in Seq({}) /\ Len(<<>>) = 0
  BY DEF Moving
<1>2. \E g : IterationTo(Motion(<<>>, r, ax), g, <<>>, Int, 0, AddPart({}, r, ax))
  BY <1>1, MotionIterates
<1> QED BY <1>1, <1>2 DEF IterationTo, Iterates

LEMMA MotionType ==
  ASSUME NEW S, NEW r, NEW ax, Moving(S, r, ax), NEW s \in Seq(S)
  PROVE  Motion(s, r, ax) \in Int
BY MotionIterates, LenProperties DEF IterationTo

LEMMA MotionAppended ==
  ASSUME NEW S, NEW r, NEW ax, Moving(S, r, ax), NEW s \in Seq(S), NEW x \in S
  PROVE  Motion(Append(s, x), r, ax) = Motion(s, r, ax) + Part(x, r, ax)
<1>1. Append(s, x) \in Seq(S)
  BY AppendProperties
<1>2. PICK f : IterationTo(Motion(s, r, ax), f, s, Int, 0, AddPart(S, r, ax))
  BY MotionIterates
<1>3. PICK g : IterationTo(Motion(Append(s, x), r, ax), g, Append(s, x), Int, 0, AddPart(S, r, ax))
  BY <1>1, MotionIterates
<1> DEFINE m == Motion(s, r, ax)
<1>4. m \in Int /\ Motion(Append(s, x), r, ax) = AddPart(S, r, ax)[<<m, x>>]
  BY <1>2, <1>3, IterationAppended
<1> HIDE DEF m
<1>5. AddPart(S, r, ax)[<<m, x>>] = m + Part(x, r, ax)
  BY <1>4, AddPartValue
<1> QED BY <1>4, <1>5 DEF m

(* A report of a device, and the first event of a batch. *)
LEMMA MotionReported ==
  ASSUME NEW S, NEW r, NEW ax, Moving(S, r, ax), NEW s \in Seq(S), NEW x \in S, NEW y \in S
  PROVE  Motion(s \o <<x, y>>, r, ax) = Motion(s, r, ax) + Part(x, r, ax) + Part(y, r, ax)
<1> DEFINE t == Append(s, x)
<1>1. t \in Seq(S) /\ s \o <<x, y>> = Append(t, y)
  <2>1. t \in Seq(S)
    BY AppendProperties
  <2>2. s \o <<x, y>> = Append(t, y)
    OBVIOUS
  <2> QED BY <2>1, <2>2
<1> HIDE DEF t
<1>2. Motion(Append(t, y), r, ax) = Motion(t, r, ax) + Part(y, r, ax)
  BY <1>1, MotionAppended
<1>3. Motion(t, r, ax) = Motion(s, r, ax) + Part(x, r, ax)
  BY MotionAppended DEF t
<1> QED BY <1>1, <1>2, <1>3

LEMMA MotionOfHead ==
  ASSUME NEW S, NEW r, NEW ax, Moving(S, r, ax), NEW s \in Seq(S), s # <<>>
  PROVE  Motion(s, r, ax) = Part(Head(s), r, ax) + Motion(Tail(s), r, ax)
<1> DEFINE Holds(u) == u # <<>> => Motion(u, r, ax) = Part(Head(u), r, ax) + Motion(Tail(u), r, ax)
           T == {u \in Seq(S) : Holds(u)}
<1>1. <<>> \in T
  BY EmptySeq
<1>2. ASSUME NEW u \in Seq(S), NEW x \in S, Holds(u) PROVE Holds(Append(u, x))
  <2>1. CASE u = <<>>
    <3>1. Append(u, x) = <<x>> /\ Head(<<x>>) = x /\ Tail(<<x>>) = <<>>
      BY <2>1
    <3>a. Motion(Append(u, x), r, ax) = Motion(u, r, ax) + Part(x, r, ax)
      BY MotionAppended
    <3>2. Motion(Append(u, x), r, ax) = 0 + Part(x, r, ax)
      BY <2>1, <3>a, MotionOfNone
    <3>3. Part(x, r, ax) \in Int
      BY AddPartType
    <3> QED BY <3>1, <3>2, <3>3, MotionOfNone
  <2>2. CASE u # <<>>
    <3>1. Head(Append(u, x)) = Head(u) /\ Tail(Append(u, x)) = Append(Tail(u), x)
          /\ Tail(u) \in Seq(S) /\ Head(u) \in S
      <4>1. Tail(u) \in Seq(S) /\ Head(u) \in S
        BY <2>2, HeadTailProperties
      <4>2. Head(Append(u, x)) = Head(u) /\ Tail(Append(u, x)) = Append(Tail(u), x)
        BY <2>2
      <4> QED BY <4>1, <4>2
    <3>2. Motion(Append(u, x), r, ax) = Motion(u, r, ax) + Part(x, r, ax)
      BY MotionAppended
    <3>3. Motion(Append(Tail(u), x), r, ax) = Motion(Tail(u), r, ax) + Part(x, r, ax)
      <4> DEFINE v == Tail(u)
      <4>1. v \in Seq(S)
        BY <3>1
      <4> HIDE DEF v
      <4>2. Motion(Append(v, x), r, ax) = Motion(v, r, ax) + Part(x, r, ax)
        BY <4>1, MotionAppended
      <4> QED BY <4>2 DEF v
    <3>4. Motion(Tail(u), r, ax) \in Int /\ Part(x, r, ax) \in Int /\ Part(Head(u), r, ax) \in Int
      BY <3>1, MotionType, AddPartType
    <3>5. Motion(u, r, ax) = Part(Head(u), r, ax) + Motion(Tail(u), r, ax)
      BY <1>2, <2>2
    <3>6. Motion(u, r, ax) + Part(x, r, ax)
            = Part(Head(u), r, ax) + (Motion(Tail(u), r, ax) + Part(x, r, ax))
      BY <3>4, <3>5
    <3>7. Motion(Append(u, x), r, ax)
            = Part(Head(Append(u, x)), r, ax) + Motion(Tail(Append(u, x)), r, ax)
      BY <3>1, <3>2, <3>3, <3>6
    <3> QED BY <3>7
  <2> QED BY <2>1, <2>2
<1>3. Seq(S) \subseteq T
  <2>1. \A u \in Seq(S), x \in S : u \in T => Append(u, x) \in T
    BY <1>2, AppendProperties
  <2> HIDE DEF T
  <2> QED BY <1>1, <2>1, SequenceInduction
<1> QED BY <1>3

(* Without motion along the axis there is none; where one action has it all,  *)
(* its value is the motion. *)
LEMMA NoMotion ==
  ASSUME NEW S, NEW r, NEW ax, NEW s \in Seq(S), \A i \in DOMAIN s : ~Moves(s[i], r, ax)
  PROVE  Motion(s, r, ax) = 0
<1> DEFINE Still == {x \in S : ~Moves(x, r, ax)}
           T == {u \in Seq(Still) : Motion(u, r, ax) = 0}
<1>1. s \in Seq(Still)
  BY LenProperties, ElementOfSeq
<1>2. Moving(Still, r, ax)
  BY DEF Moving
<1>3. <<>> \in T
  BY MotionOfNone
<1>4. ASSUME NEW u \in Seq(Still), NEW x \in Still, u \in T PROVE Append(u, x) \in T
  <2>1. Motion(Append(u, x), r, ax) = Motion(u, r, ax) + Part(x, r, ax)
    BY <1>2, MotionAppended
  <2>2. Part(x, r, ax) = 0
    BY DEF Part
  <2> QED BY <1>4, <2>1, <2>2, AppendProperties
<1> HIDE DEF T, Still
<1>5. Seq(Still) \subseteq T
  BY <1>3, <1>4, SequenceInduction
<1> QED BY <1>1, <1>5 DEF T

LEMMA MotionOnce ==
  ASSUME NEW S, NEW r, NEW ax, Moving(S, r, ax), NEW s \in Seq(S),
         NEW i \in DOMAIN s, Moves(s[i], r, ax),
         \A j \in DOMAIN s : j # i => ~Moves(s[j], r, ax)
  PROVE  Motion(s, r, ax) = s[i].value
<1> DEFINE Only(u, k) == k \in DOMAIN u /\ Moves(u[k], r, ax)
                         /\ \A j \in DOMAIN u : j # k => ~Moves(u[j], r, ax)
           T == {u \in Seq(S) : \A k \in DOMAIN u : Only(u, k) => Motion(u, r, ax) = u[k].value}
<1>1. <<>> \in T
  OBVIOUS
<1>2. ASSUME NEW u \in Seq(S), NEW x \in S, u \in T PROVE Append(u, x) \in T
  <2> DEFINE t == Append(u, x)
  <2>1. /\ t \in Seq(S) /\ Len(t) = Len(u) + 1 /\ Len(u) \in Nat /\ t[Len(u) + 1] = x
        /\ \A j \in 1..Len(u) : t[j] = u[j]
        /\ DOMAIN t = 1..(Len(u) + 1) /\ DOMAIN u = 1..Len(u)
    BY AppendProperties, LenProperties
  <2>2. Motion(t, r, ax) = Motion(u, r, ax) + Part(x, r, ax)
    BY MotionAppended
  <2> HIDE DEF t
  <2>3. ASSUME NEW k \in DOMAIN t, Only(t, k) PROVE Motion(t, r, ax) = t[k].value
    <3>1. CASE k = Len(u) + 1
      <4>1. \A j \in DOMAIN u : ~Moves(u[j], r, ax)
        BY <2>1, <2>3, <3>1
      <4>2. Motion(u, r, ax) = 0 /\ Moves(x, r, ax) /\ t[k] = x
        BY <2>1, <2>3, <3>1, <4>1, NoMotion
      <4>3. Part(x, r, ax) = x.value /\ x.value \in Int
        BY <4>2 DEF Part, Moving
      <4> QED BY <2>2, <4>2, <4>3
    <3>2. CASE k # Len(u) + 1
      <4>1. Only(u, k) /\ t[k] = u[k] /\ ~Moves(x, r, ax)
        BY <2>1, <2>3, <3>2
      <4>2. Motion(u, r, ax) = u[k].value /\ Part(x, r, ax) = 0 /\ Motion(u, r, ax) \in Int
        BY <1>2, <4>1, MotionType DEF Part
      <4> QED BY <2>2, <4>1, <4>2
    <3> QED BY <3>1, <3>2
  <2> QED BY <2>1, <2>3 DEF t
<1>3. Seq(S) \subseteq T
  <2> HIDE DEF T
  <2> QED BY <1>1, <1>2, SequenceInduction
<1> QED BY <1>3


-----------------------------------------------------------------------------
(* What is left of the mouse actions without motion. *)
Still == {a \in MouseAction : a.type # "Rel"}

KeepStill ==
  [p \in Seq(Still) \X MouseAction |-> IF p[2].type = "Rel" THEN p[1] ELSE Append(p[1], p[2])]

LEMMA NonRelIsStill ==
  ASSUME NEW s \in Seq(MouseAction) PROVE non_rel_mouse_actions(s) \in Seq(Still)
<1> DEFINE D == DOMAIN s
           Is(f) == f = [T \in SUBSET D |->
                          IF T = {} THEN <<>>
                          ELSE IF s[Max(T)].type = "Rel" THEN f[T \ {Max(T)}]
                               ELSE Append(f[T \ {Max(T)}], s[Max(T)])]
           h == CHOOSE f : Is(f)
<1>1. KeepStill \in [Seq(Still) \X MouseAction -> Seq(Still)]
  <2>1. ASSUME NEW a \in Seq(Still), NEW x \in MouseAction
        PROVE  (IF x.type = "Rel" THEN a ELSE Append(a, x)) \in Seq(Still)
    <3>1. CASE x.type = "Rel"
      BY <3>1
    <3>2. CASE x.type # "Rel"
      <4>1. x \in Still
        BY <3>2 DEF Still
      <4>2. Append(a, x) \in Seq(Still)
        BY <4>1, AppendProperties
      <4> QED BY <3>2, <4>2
    <3> QED BY <3>1, <3>2
  <2> QED BY <2>1 DEF KeepStill
<1>2. Len(s) \in Nat /\ D = 1..Len(s) /\ \A i \in D : s[i] \in MouseAction
  BY LenProperties, ElementOfSeq
<1>3. \A a \in Seq(Still), i \in D :
        KeepStill[<<a, s[i]>>] = IF s[i].type = "Rel" THEN a ELSE Append(a, s[i])
  BY <1>2 DEF KeepStill
<1>0. <<>> \in Seq(Still)
  OBVIOUS
<1>4. PICK f \in [SUBSET D -> Seq(Still)] : LeftFolds(f, s, <<>>, KeepStill)
  <2>2. \E f \in [SUBSET DOMAIN s -> Seq(Still)] : LeftFolds(f, s, <<>>, KeepStill)
    BY <1>0, <1>1, SequenceFoldExists
  <2> QED BY <2>2
<1>5. Is(f)
  <2>1. \A T \in SUBSET D : T # {} => Max(T) \in T
    BY <1>2, MaxOfSome
  <2>2. ASSUME NEW T \in SUBSET D
        PROVE  f[T] = IF T = {} THEN <<>>
                      ELSE IF s[Max(T)].type = "Rel" THEN f[T \ {Max(T)}]
                           ELSE Append(f[T \ {Max(T)}], s[Max(T)])
    BY <1>3, <1>4, <2>1 DEF LeftFolds
  <2> QED BY <2>2
<1>6. Is(h)
  BY <1>5
<1>7. non_rel_mouse_actions(s) = h[D]
  BY DEF non_rel_mouse_actions, FoldLeft, MapThenFoldSet
<1> HIDE DEF h
<1>8. \A T \in SUBSET D :
        h[T] = IF T = {} THEN <<>>
               ELSE IF s[Max(T)].type = "Rel" THEN h[T \ {Max(T)}]
                    ELSE Append(h[T \ {Max(T)}], s[Max(T)])
  BY <1>6
<1>9. ASSUME NEW i \in 1..Len(s), h[1..(i - 1)] \in Seq(Still)
      PROVE  h[1..i] = KeepStill[<<h[1..(i - 1)], s[i]>>]
  <2>1. i \in D /\ i \in 1..i /\ 1..i \in SUBSET D /\ i \in Nat \ {0}
    BY <1>2
  <2>2. 1..i # {} /\ Max(1..i) = i /\ (1..i) \ {i} = 1..(i - 1)
    BY <2>1, MaxUpTo
  <2>3. h[1..i] = IF s[i].type = "Rel" THEN h[1..(i - 1)] ELSE Append(h[1..(i - 1)], s[i])
    BY <1>8, <2>1, <2>2
  <2> QED BY <1>3, <1>9, <2>1, <2>3
<1>10. h[{}] = <<>>
  <2>1. {} \in SUBSET D
    OBVIOUS
  <2> QED BY <1>8, <2>1
<1>11. StepsAlong(h, s, Seq(Still), <<>>, KeepStill)
  BY <1>9, <1>10 DEF StepsAlong
<1>12. PICK g : IterationTo(h[DOMAIN s], g, s, Seq(Still), <<>>, KeepStill)
  <2> HIDE DEF D
  <2> QED BY <1>0, <1>1, <1>11, BeginningsFold
<1> QED BY <1>2, <1>7, <1>12 DEF IterationTo

-----------------------------------------------------------------------------
(* What the devices have buffered. *)

BufferedIn(q, ax) == MapThenSumSet(LAMBDA d : Motion(q[d], "RELATIVE", ax), Device)

Picked == [T \in SUBSET Device |-> CHOOSE d \in T : TRUE]
MotionOf(q, ax) == [d \in Device |-> Motion(q[d], "RELATIVE", ax)]

LEMMA EventsMove == \A ax : Moving(Event, "RELATIVE", ax)
BY DEF Moving, Moves, Event
LEMMA ActionsMove == \A ax : Moving(MouseAction, "Rel", ax)
BY DEF Moving, Moves, MouseAction

LEMMA BufferedSums ==
  ASSUME NEW q \in [Device -> Seq(Event)], NEW ax
  PROVE  /\ MotionOf(q, ax) \in [Device -> Int]
         /\ \E sum \in [SUBSET Device -> Int] :
              SumsSubsets(sum, Device, MotionOf(q, ax), Picked) /\ BufferedIn(q, ax) = sum[Device]
<1> DEFINE f == MotionOf(q, ax)
           Is(h) == h = [T \in SUBSET Device |->
                          IF T = {} THEN 0
                          ELSE Motion(q[CHOOSE d \in T : TRUE], "RELATIVE", ax)
                                 + h[T \ {CHOOSE d \in T : TRUE}]]
           h == CHOOSE h : Is(h)
<1>1. f \in [Device -> Int] /\ \A d \in Device : f[d] = Motion(q[d], "RELATIVE", ax)
  <2>1. \A d \in Device : Motion(q[d], "RELATIVE", ax) \in Int
    BY EventsMove, MotionType
  <2> QED BY <2>1 DEF MotionOf
<1> HIDE DEF f
<1>2. \A T \in SUBSET Device : T # {} => Picked[T] \in T /\ Picked[T] = CHOOSE d \in T : TRUE
  BY DEF Picked
<1>3. PICK sum \in [SUBSET Device -> Int] : SumsSubsets(sum, Device, f, Picked)
  BY <1>1, <1>2, SumExists, InputAssumption
<1>4. Is(sum)
  <2>1. \A T \in SUBSET Device :
          sum[T] = IF T = {} THEN 0 ELSE Motion(q[CHOOSE d \in T : TRUE], "RELATIVE", ax)
                                 + sum[T \ {CHOOSE d \in T : TRUE}]
    BY <1>1, <1>2, <1>3 DEF SumsSubsets
  <2> QED BY <2>1
<1>5. Is(h)
  BY <1>4
<1>6. BufferedIn(q, ax) = h[Device]
  BY DEF BufferedIn, MapThenSumSet, MapThenFoldSet
<1> HIDE DEF h
<1>7. SumsSubsets(h, Device, f, Picked)
  <2>1. \A T \in SUBSET Device :
          h[T] = IF T = {} THEN 0 ELSE Motion(q[CHOOSE d \in T : TRUE], "RELATIVE", ax)
                                 + h[T \ {CHOOSE d \in T : TRUE}]
    BY <1>5
  <2>2. ASSUME NEW T \in SUBSET Device, T # {}
        PROVE  h[T] = f[Picked[T]] + h[T \ {Picked[T]}]
    <3>1. Picked[T] \in Device /\ Picked[T] = CHOOSE d \in T : TRUE
      BY <1>2, <2>2
    <3>2. h[T] = Motion(q[Picked[T]], "RELATIVE", ax) + h[T \ {Picked[T]}]
      BY <2>1, <2>2, <3>1
    <3> QED BY <1>1, <3>1, <3>2
  <2>3. h[{}] = 0
    BY <2>1
  <2> QED BY <2>2, <2>3 DEF SumsSubsets
<1>8. h[Device] = sum[Device]
  BY <1>2, <1>3, <1>7, SumUnique, InputAssumption
<1> QED BY <1>1, <1>3, <1>6, <1>8 DEF f

(* One device whose events change changes it by as much. *)
LEMMA BufferedChanges ==
  ASSUME NEW q \in [Device -> Seq(Event)], NEW d \in Device, NEW s \in Seq(Event), NEW ax
  PROVE  BufferedIn([q EXCEPT ![d] = s], ax)
           = BufferedIn(q, ax) + Motion(s, "RELATIVE", ax) - Motion(q[d], "RELATIVE", ax)
<1> DEFINE p == [q EXCEPT ![d] = s]
           f == MotionOf(q, ax)
           g == MotionOf(p, ax)
<1>1. p \in [Device -> Seq(Event)] /\ p[d] = s /\ \A x \in Device \ {d} : p[x] = q[x]
  OBVIOUS
<1> HIDE DEF p
<1>2. PICK F \in [SUBSET Device -> Int] :
        SumsSubsets(F, Device, f, Picked) /\ BufferedIn(q, ax) = F[Device]
  BY BufferedSums
<1>3. PICK G \in [SUBSET Device -> Int] :
        SumsSubsets(G, Device, g, Picked) /\ BufferedIn(p, ax) = G[Device]
  BY <1>1, BufferedSums
<1>4. f \in [Device -> Int] /\ g \in [Device -> Int]
  BY <1>1, BufferedSums
<1>5. /\ f[d] = Motion(q[d], "RELATIVE", ax) /\ g[d] = Motion(s, "RELATIVE", ax)
      /\ \A x \in Device \ {d} : f[x] = g[x]
  BY <1>1 DEF MotionOf
<1>6. \A T \in SUBSET Device : T # {} => Picked[T] \in T
  BY DEF Picked
<1>a. \A x \in Device \ {d} : f[x] = g[x]
  BY <1>5
<1>b. SumsSubsets(F, Device, f, Picked) /\ SumsSubsets(G, Device, g, Picked)
  BY <1>2, <1>3
<1>d. F \in [SUBSET Device -> Int] /\ G \in [SUBSET Device -> Int]
  BY <1>2, <1>3
<1>c. IsFiniteSet(Device)
  BY InputAssumption
<1> HIDE DEF f, g
<1>7. Shifted(F[Device], G[Device], f[d], g[d])
  BY <1>4, <1>6, <1>a, <1>b, <1>c, <1>d, SumDiffers
<1> QED BY <1>2, <1>3, <1>5, <1>7 DEF p, Shifted

LEMMA BufferedType ==
  ASSUME NEW q \in [Device -> Seq(Event)], NEW ax PROVE BufferedIn(q, ax) \in Int
<1>1. Device \in SUBSET Device
  OBVIOUS
<1>2. PICK sum \in [SUBSET Device -> Int] : BufferedIn(q, ax) = sum[Device]
  BY BufferedSums
<1> QED BY <1>1, <1>2

LEMMA NoneBuffered == \A ax : BufferedIn([d \in Device |-> <<>>], ax) = 0
<1> SUFFICES ASSUME NEW ax PROVE BufferedIn([d \in Device |-> <<>>], ax) = 0
  OBVIOUS
<1> DEFINE q == [d \in Device |-> <<>>]
<1>1. q \in [Device -> Seq(Event)]
  OBVIOUS
<1>2. PICK sum \in [SUBSET Device -> Int] :
        SumsSubsets(sum, Device, MotionOf(q, ax), Picked) /\ BufferedIn(q, ax) = sum[Device]
  BY <1>1, BufferedSums
<1>3. \A d \in Device : MotionOf(q, ax)[d] = 0
  BY MotionOfNone DEF MotionOf
<1>4. \A T \in SUBSET Device : T # {} => Picked[T] \in T
  BY DEF Picked
<1> HIDE DEF q
<1>5. sum[Device] = 0
  BY <1>2, <1>3, <1>4, SumOfZeros, InputAssumption
<1> QED BY <1>2, <1>5 DEF q
-----------------------------------------------------------------------------
(* Types.                                                                  *)

LEMMA ReportTyped ==
  ASSUME InputTypeOK, NEW d \in Device, NEW e \in Event, Report(d, e)
  PROVE  evq' \in [Device -> Seq(Event)]
<1>1. evq \in [Device -> Seq(Event)] /\ evq[d] \in Seq(Event)
  BY DEF InputTypeOK
<1>2. evq[d] \o <<e, SynEvent>> \in Seq(Event)
  BY <1>1, Reported
<1> HIDE DEF Event
<1> QED BY <1>1, <1>2 DEF Report

LEMMA TypingTyped ==
  ASSUME InputTypeOK, Typing PROVE InputTypeOK'
<1>1. UNCHANGED <<timer, pc, fetching, d_modifiers, round, pending, accumulated, bindings, channels,
                  present, gone>>
  BY DEF Typing, KeyChanges, KeyRepeats, MouseMoves
<1>2. ASSUME evq' \in [Device -> Seq(Event)], phys' \in [Device -> SUBSET Key],
             owed' \in [Axis -> Int]
      PROVE  InputTypeOK'
  BY <1>1, <1>2 DEF InputTypeOK, ChannelsTypeOK, fetching, round, pending, channels
<1>3. phys \in [Device -> SUBSET Key] /\ owed \in [Axis -> Int] /\ evq \in [Device -> Seq(Event)]
  BY DEF InputTypeOK
<1>4. ASSUME NEW d \in Device, NEW k \in Key, KeyChanges(d, k) PROVE InputTypeOK'
  <2>1. KeyEvent(k, 0) \in Event /\ KeyEvent(k, 1) \in Event
    BY DEF KeyEvent, Event
  <2>2. evq' \in [Device -> Seq(Event)]
    BY <1>4, <2>1, ReportTyped DEF KeyChanges
  <2>3. phys' \in [Device -> SUBSET Key] /\ owed' = owed
    BY <1>3, <1>4 DEF KeyChanges
  <2> QED BY <1>2, <1>3, <2>2, <2>3
<1>5. ASSUME NEW d \in Device, NEW k \in Key, KeyRepeats(d, k) PROVE InputTypeOK'
  <2>1. KeyEvent(k, 2) \in Event
    BY DEF KeyEvent, Event
  <2>2. evq' \in [Device -> Seq(Event)] /\ UNCHANGED <<phys, owed>>
    BY <1>5, <2>1, ReportTyped DEF KeyRepeats
  <2> QED BY <1>2, <1>3, <2>2
<1>6. ASSUME NEW d \in Mouse, NEW ax \in Axis, NEW v \in Position, MouseMoves(d, ax, v)
      PROVE  InputTypeOK'
  <2>1. v \in Int /\ RelEvent(ax, v) \in Event /\ d \in Device
    BY ChannelsAssumption DEF RelEvent, Event, Device
  <2>2. evq' \in [Device -> Seq(Event)] /\ phys' = phys
    BY <1>6, <2>1, ReportTyped DEF MouseMoves
  <2>3. owed' \in [Axis -> Int]
    BY <1>3, <1>6, <2>1 DEF MouseMoves
  <2> QED BY <1>2, <1>3, <2>2, <2>3
<1> QED BY <1>4, <1>5, <1>6 DEF Typing

LEMMA HotplugTyped ==
  ASSUME InputTypeOK, Hotplug PROVE InputTypeOK'
<1>1. UNCHANGED <<timer, pc, fetching, d_modifiers, round, pending, accumulated, bindings, channels>>
  BY DEF Hotplug
<1>2. ASSUME NEW d \in Device, Unplugged(d) PROVE InputTypeOK'
  <2>1. owed' \in [Axis -> Int]
    <3>1. \A ax \in Axis : Motion(evq[d], "RELATIVE", ax) \in Int
      BY EventsMove, MotionType DEF InputTypeOK
    <3> QED BY <1>2, <3>1 DEF Unplugged, InputTypeOK
  <2>2. evq' \in [Device -> Seq(Event)] /\ phys' \in [Device -> SUBSET Key]
    BY <1>2 DEF Unplugged, InputTypeOK
  <2>3. present' \subseteq Device /\ gone' \subseteq devs' \cup opening'
    BY <1>1, <1>2 DEF Unplugged, InputTypeOK, fetching
  <2> QED BY <1>1, <2>1, <2>2, <2>3
          DEF InputTypeOK, ChannelsTypeOK, fetching, round, pending, channels
<1>3. ASSUME NEW d \in Device, Plugged(d) PROVE InputTypeOK'
  BY <1>1, <1>3 DEF Plugged, InputTypeOK, ChannelsTypeOK, fetching, round, pending, channels
<1> QED BY <1>2, <1>3 DEF Hotplug

(* What is sent to the uinput thread. *)
LEMMA PassedOnTyped ==
  ASSUME InputTypeOK, NEW actions \in Seq(MouseAction), PassOn(actions)
  PROVE  toUInput' \in Seq(MsgToUInput) /\ owed' \in [Axis -> Int]
<1>1. SendMouseActions(actions) \in MsgToUInput
  BY DEF SendMouseActions, MsgToUInput
<1>2. toUInput \in Seq(MsgToUInput) /\ owed \in [Axis -> Int]
  BY DEF InputTypeOK, ChannelsTypeOK
<1> DEFINE m == SendMouseActions(actions)
<1> HIDE DEF m
<1>3. Append(toUInput, m) \in Seq(MsgToUInput)
  BY <1>1, <1>2, AppendProperties DEF m
<1>4. \A ax \in Axis : Motion(actions, "Rel", ax) \in Int
  BY ActionsMove, MotionType
<1> QED BY <1>2, <1>3, <1>4 DEF PassOn, m

LEMMA BufferedIsIn == \A ax : Buffered(ax) = BufferedIn(evq, ax)
BY DEF Buffered, BufferedIn, MapThenSumSet, MapThenFoldSet

LEMMA FetchTyped ==
  ASSUME InputTypeOK,
         StartFetch \/ FetchDone \/ DeviceError \/ Poll
           \/ \E d \in Device : OpenDevice(d) \/ AsksKeys(d) \/ FetchEvents(d)
  PROVE  InputTypeOK'
<1>1. CASE StartFetch
  <2>1. owed' \in [Axis -> Int]
    <3>1. \A ax \in Axis : Buffered(ax) \in Int
      BY BufferedType, BufferedIsIn DEF InputTypeOK
    <3> QED BY <1>1, <3>1 DEF StartFetch, InputTypeOK
  <2>2. evq' \in [Device -> Seq(Event)]
    BY <1>1 DEF StartFetch
  <2> QED BY <1>1, <2>1, <2>2 DEF StartFetch, InputTypeOK, ChannelsTypeOK, round, pending, channels
<1>2. CASE FetchDone \/ DeviceError
  BY <1>2 DEF FetchDone, DeviceError, InputTypeOK, ChannelsTypeOK, hardware, fetching, round,
              pending, channels
<1>3. CASE Poll
  <2>1. ready' \subseteq Source
    BY <1>3 DEF Poll, Readable, InputTypeOK, Source
  <2> QED BY <1>3, <2>1 DEF Poll, InputTypeOK, ChannelsTypeOK, hardware, fetching, pending, channels
<1>4. ASSUME NEW d \in Device, OpenDevice(d) PROVE InputTypeOK'
  <2>1. gone' \subseteq devs' \cup opening' /\ opening' \subseteq Device /\ todo' \subseteq Device
    BY <1>4 DEF OpenDevice, InputTypeOK, hardware
  <2> QED BY <1>4, <2>1
          DEF OpenDevice, InputTypeOK, ChannelsTypeOK, hardware, round, pending, channels
<1>6. ASSUME NEW d \in Device, AsksKeys(d) PROVE InputTypeOK'
  <2>1. d_modifiers' \in [Device -> Modifiers]
    <3>1. phys[d] \in SUBSET Key
      BY DEF InputTypeOK
    <3>2. modifiers_from_key_codes(phys[d]) \in Modifiers
      BY <3>1, ModifiersDown DEF Modifiers
    <3>3. d_modifiers \in [Device -> Modifiers]
      BY DEF InputTypeOK
    <3> QED BY <1>6, <3>2, <3>3, Asked
  <2>2. evq' \in [Device -> Seq(Event)]
    <3>1. evq \in [Device -> Seq(Event)]
      BY DEF InputTypeOK
    <3>2. WithoutKeys(evq[d]) \in Seq(Event)
      BY <3>1, WithoutKeysDecides
    <3> QED BY <1>6, <3>1, <3>2, Asked
  <2>3. /\ devs' \subseteq Device /\ opening' \subseteq Device
        /\ at' \in {"check", "recheck", "read"}
    BY <1>6, Asked DEF InputTypeOK
  <2>4. gone' \subseteq devs' \cup opening'
    <3>1. opening = {d} /\ gone' = gone /\ gone \subseteq devs \cup opening
      BY <1>6, Asked DEF InputTypeOK
    <3> QED BY <1>6, <3>1, Asked
  <2> QED BY <1>6, <2>1, <2>2, <2>3, <2>4, Asked
          DEF InputTypeOK, ChannelsTypeOK, round, pending, channels
<1>5. ASSUME NEW d \in Device, FetchEvents(d) PROVE InputTypeOK'
  <2>1. evq' \in [Device -> Seq(Event)] /\ batch' \in Seq(Event) /\ cur' \in Device
        /\ ready' \subseteq Source
    BY <1>5 DEF FetchEvents, InputTypeOK
  <2> QED BY <1>5, <2>1
          DEF FetchEvents, InputTypeOK, ChannelsTypeOK, fetching, pending, channels
<1> QED BY <1>1, <1>2, <1>3, <1>4, <1>5, <1>6

LEMMA KeyTyped ==
  ASSUME InputTypeOK, KeyFromKbd \/ KeyFromMouse PROVE InputTypeOK'
<1> DEFINE e     == Head(batch)
           state == StateOfValue(e.value)
           mods  == ModifiersAfter(d_modifiers[cur], e.code, state)
           bind  == [code |-> e.code, state |-> state, modifiers |-> mods]
<1>1. /\ batch # <<>> /\ batch' = Tail(batch) /\ e.type = "KEY"
      /\ d_modifiers' = [d_modifiers EXCEPT ![cur] = mods]
      /\ toCore' = Append(toCore, bind) \/ UNCHANGED toCore
      /\ \/ UNCHANGED pending
         \/ PushKeyAction(e.code, state) \/ PushMouseKey(e.code, state)
      /\ UNCHANGED <<hardware, timer, pc, fetching, ready, cur, accumulated, bindings,
                     owed, toInput, toUInput>>
  BY DEF KeyFromKbd, KeyFromMouse, HandleKey, NextEvent
<1>2. e \in Event /\ Tail(batch) \in Seq(Event)
  BY <1>1, HeadTailProperties DEF InputTypeOK
<1>3. e.code \in Key /\ state \in KeyState
  <2>1. e.code \in Key
    BY <1>1, <1>2 DEF Event
  <2> QED BY <2>1 DEF StateOfValue, KeyState
<1>4. mods \in Modifiers
  BY <1>1, <1>2, EventModifiers DEF InputTypeOK
<1>5. bind \in Keybind
  BY <1>3, <1>4 DEF Keybind
<1> HIDE DEF e, state, mods, bind
<1>6. toCore' \in Seq(Keybind)
  <2>1. toCore \in Seq(Keybind)
    BY DEF InputTypeOK, ChannelsTypeOK
  <2>2. Append(toCore, bind) \in Seq(Keybind)
    BY <1>5, <2>1, AppendProperties
  <2> QED BY <1>1, <2>1, <2>2
<1>7. key_actions' \in Seq(KeyAction) /\ mouse_actions' \in Seq(MouseAction)
  <2> DEFINE a == [key |-> e.code, state |-> state]
             b == [type |-> "Key", key |-> e.code, state |-> state]
  <2>1. a \in KeyAction /\ b \in MouseAction
    BY <1>3 DEF KeyAction, MouseAction
  <2> HIDE DEF a, b
  <2>2. key_actions \in Seq(KeyAction) /\ mouse_actions \in Seq(MouseAction)
    BY DEF InputTypeOK
  <2>3. Append(key_actions, a) \in Seq(KeyAction) /\ Append(mouse_actions, b) \in Seq(MouseAction)
    BY <2>1, <2>2, AppendProperties
  <2>4. CASE UNCHANGED pending
    BY <2>2, <2>4 DEF pending
  <2>5. CASE PushKeyAction(e.code, state)
    BY <2>2, <2>3, <2>5 DEF PushKeyAction, a
  <2>6. CASE PushMouseKey(e.code, state)
    BY <2>2, <2>3, <2>6 DEF PushMouseKey, b
  <2> QED BY <1>1, <2>4, <2>5, <2>6
<1>8. d_modifiers' \in [Device -> Modifiers] /\ batch' \in Seq(Event)
  BY <1>1, <1>2, <1>4 DEF InputTypeOK
<1> QED BY <1>1, <1>6, <1>7, <1>8 DEF InputTypeOK, ChannelsTypeOK, hardware, fetching

LEMMA KbdSynTyped ==
  ASSUME InputTypeOK, KbdSyn PROVE InputTypeOK'
<1> DEFINE m == SendKeyActions(key_actions)
<1>1. m \in MsgToUInput
  BY DEF InputTypeOK, SendKeyActions, MsgToUInput
<1>2. toUInput \in Seq(MsgToUInput) /\ toUInput' = Append(toUInput, m)
  BY DEF KbdSyn, InputTypeOK, ChannelsTypeOK
<1> HIDE DEF m
<1>3. toUInput' \in Seq(MsgToUInput)
  BY <1>1, <1>2, AppendProperties
<1>4. batch' \in Seq(Event)
  BY HeadTailProperties DEF KbdSyn, NextEvent, InputTypeOK
<1>5. key_actions' \in Seq(KeyAction)
  BY DEF KbdSyn
<1> QED BY <1>3, <1>4, <1>5 DEF KbdSyn, InputTypeOK, ChannelsTypeOK, hardware, fetching

LEMMA MouseRelTyped ==
  ASSUME InputTypeOK, MouseRel PROVE InputTypeOK'
<1> DEFINE e == Head(batch)
           a == [type |-> "Rel", axis |-> e.axis, value |-> e.value]
<1>1. batch # <<>> /\ batch' = Tail(batch) /\ e.type = "RELATIVE"
      /\ mouse_actions' = Append(mouse_actions, a)
  BY DEF MouseRel, NextEvent
<1>2. e \in Event /\ batch' \in Seq(Event)
  BY <1>1, HeadTailProperties DEF InputTypeOK
<1>3. a \in MouseAction
  BY <1>1, <1>2 DEF Event, MouseAction
<1> HIDE DEF a
<1>4. mouse_actions' \in Seq(MouseAction)
  <2>1. mouse_actions \in Seq(MouseAction)
    BY DEF InputTypeOK
  <2> QED BY <1>1, <1>3, <2>1, AppendProperties
<1> QED BY <1>2, <1>4 DEF MouseRel, InputTypeOK, ChannelsTypeOK, hardware, fetching, channels

(* Motion put aside: the axes and the distances. *)
AccumulatedTyped(acc) ==
  DOMAIN acc \subseteq Axis /\ \A ax \in DOMAIN acc : acc[ax] \in Int

LEMMA AccumulateTyped ==
  ASSUME InputTypeOK, NEW actions \in Seq(MouseAction)
  PROVE  AccumulatedTyped(Accumulate(actions))
<1>1. \A ax : Motion(actions, "Rel", ax) \in Int
  BY ActionsMove, MotionType
<1>2. \A i \in DOMAIN actions : actions[i].type = "Rel" => actions[i].axis \in Axis
  <2>1. \A i \in DOMAIN actions : actions[i] \in MouseAction
    BY LenProperties, ElementOfSeq
  <2> QED BY <2>1 DEF MouseAction
<1>3. DOMAIN accumulated \subseteq Axis /\ \A ax \in DOMAIN accumulated : accumulated[ax] \in Int
  BY DEF InputTypeOK
<1> QED BY <1>1, <1>2, <1>3 DEF AccumulatedTyped, Accumulate

LEMMA MouseSynTyped ==
  ASSUME InputTypeOK, MouseSyn PROVE InputTypeOK'
<1>1. mouse_actions \in Seq(MouseAction)
  BY DEF InputTypeOK
<1>2. non_rel_mouse_actions(mouse_actions) \in Seq(MouseAction)
  <2>1. Still \subseteq MouseAction
    BY DEF Still
  <2>2. non_rel_mouse_actions(mouse_actions) \in Seq(Still)
    BY <1>1, NonRelIsStill
  <2> DEFINE s == non_rel_mouse_actions(mouse_actions)
  <2>3. s \in Seq(Still)
    BY <2>2
  <2> HIDE DEF s
  <2>4. s \in Seq(MouseAction)
    BY <2>1, <2>3
  <2> QED BY <2>4 DEF s
<1>3. toUInput' \in Seq(MsgToUInput) /\ owed' \in [Axis -> Int]
  BY <1>1, <1>2, PassedOnTyped DEF MouseSyn
<1>4. batch' \in Seq(Event)
  BY HeadTailProperties DEF MouseSyn, NextEvent, InputTypeOK
<1>5. mouse_actions' \in Seq(MouseAction) /\ timer' \in {"off", "armed", "expired"}
  BY DEF MouseSyn, InputTypeOK
<1>6. DOMAIN accumulated' \subseteq Axis /\ \A ax \in DOMAIN accumulated' : accumulated'[ax] \in Int
  <2>1. AccumulatedTyped(Accumulate(mouse_actions)) /\ AccumulatedTyped(accumulated)
    BY <1>1, AccumulateTyped DEF AccumulatedTyped, InputTypeOK
  <2>2. AccumulatedTyped(accumulated')
    BY <2>1 DEF MouseSyn
  <2> QED BY <2>2 DEF AccumulatedTyped
<1> QED BY <1>3, <1>4, <1>5, <1>6 DEF MouseSyn, InputTypeOK, ChannelsTypeOK, hardware, fetching

LEMMA ReceiveTyped ==
  ASSUME InputTypeOK, ReceiveFromCore, toInput # <<>> PROVE InputTypeOK'
<1> DEFINE msg == Head(toInput)
<1>1. msg \in MsgToInput /\ Tail(toInput) \in Seq(MsgToInput)
  BY HeadTailProperties DEF InputTypeOK, ChannelsTypeOK
<1>2. msg.type = "ChangeBindings" => msg.bindings \subseteq Keybind
  BY <1>1 DEF MsgToInput
<1>3. toInput' \in Seq(MsgToInput) /\ bindings' \subseteq Keybind /\ update_devices' \in BOOLEAN
  BY <1>1, <1>2 DEF ReceiveFromCore, InputTypeOK
<1>4. ready' \subseteq Source
  BY DEF ReceiveFromCore, InputTypeOK
<1> QED BY <1>3, <1>4 DEF ReceiveFromCore, InputTypeOK, ChannelsTypeOK, hardware, pending

(* The motion that a poll of the mouse sends. *)
Drained(axes) ==
  [i \in DOMAIN axes |-> [type |-> "Rel", axis |-> axes[i], value |-> accumulated[axes[i]]]]

LEMMA AxesListed ==
  ASSUME InputTypeOK, NEW axes \in SetToSeqs(DOMAIN accumulated)
  PROVE  /\ Len(axes) \in Nat /\ DOMAIN axes = 1..Len(axes)
         /\ \A i \in DOMAIN axes : axes[i] \in DOMAIN accumulated
         /\ \A i, j \in DOMAIN axes : i # j => axes[i] # axes[j]
         /\ \A ax \in DOMAIN accumulated : \E i \in DOMAIN axes : axes[i] = ax
         /\ Drained(axes) \in Seq(MouseAction)
<1> DEFINE n == Cardinality(DOMAIN accumulated)
<1>1. axes \in [1..n -> DOMAIN accumulated] /\ \A i, j \in 1..n : i # j => axes[i] # axes[j]
  BY DEF SetToSeqs
<1>2. n \in Nat
  BY InputAssumption, FS_Subset, FS_CardinalityType DEF InputTypeOK
<1> HIDE DEF n
<1>3. DOMAIN axes = 1..n /\ Len(axes) = n /\ \A i \in 1..n : axes[i] \in DOMAIN accumulated
  BY <1>1, <1>2
<1>4. /\ DOMAIN Drained(axes) = 1..n
      /\ \A i \in 1..n : Drained(axes)[i] \in MouseAction
  <2>1. \A i \in 1..n : axes[i] \in Axis /\ accumulated[axes[i]] \in Int
    BY <1>3 DEF InputTypeOK
  <2> QED BY <1>3, <2>1 DEF Drained, MouseAction
<1>5. Drained(axes) \in [1..n -> MouseAction]
  BY <1>4 DEF Drained
<1>6. Drained(axes) \in Seq(MouseAction)
  BY <1>2, <1>5, IsASeq
<1> DEFINE R == {axes[i] : i \in 1..n}
<1>7. R = DOMAIN accumulated
  <2>1. R \in SUBSET DOMAIN accumulated /\ IsFiniteSet(DOMAIN accumulated)
    BY <1>3, InputAssumption, FS_Subset DEF InputTypeOK
  <2>2. axes \in Injection(1..n, R) /\ axes \in Surjection(1..n, R)
    BY <1>1 DEF Injection, IsInjective, Surjection
  <2>3. ExistsBijection(1..n, R)
    BY <2>2 DEF ExistsBijection, Bijection
  <2> HIDE DEF R
  <2>4. Cardinality(R) = n
    BY <1>2, <2>3, FS_CountingElements
  <2>5. Cardinality(DOMAIN accumulated) = Cardinality(R)
    BY <2>4 DEF n
  <2> QED BY <2>1, <2>5, FS_Subset
<1>8. \A ax \in DOMAIN accumulated : \E i \in 1..n : axes[i] = ax
  BY <1>7
<1> QED BY <1>1, <1>2, <1>3, <1>6, <1>8

LEMMA DrainTyped ==
  ASSUME InputTypeOK, DrainAccumulated PROVE InputTypeOK'
<1>1. PICK axes \in SetToSeqs(DOMAIN accumulated) : PassOn(Drained(axes))
  BY DEF DrainAccumulated, Drained
<1>2. toUInput' \in Seq(MsgToUInput) /\ owed' \in [Axis -> Int]
  BY <1>1, AxesListed, PassedOnTyped
<1>3. DOMAIN accumulated' = {}
  BY DEF DrainAccumulated
<1>4. ready' \subseteq Source /\ timer' \in {"off", "armed", "expired"}
  BY DEF DrainAccumulated, InputTypeOK
<1> QED BY <1>2, <1>3, <1>4
        DEF DrainAccumulated, InputTypeOK, ChannelsTypeOK, hardware, fetching, pending

(* While a round has the socket to read there is a message in it. *)
SocketReadable == "socket" \in ready => toInput # <<>>

InputTyped == InputTypeOK /\ SocketReadable

LEMMA InputStepTyped ==
  ASSUME InputTyped, InputNext PROVE InputTyped'
<1>0. InputTypeOK /\ SocketReadable
  BY DEF InputTyped
<1>1. CASE Typing
  BY <1>0, <1>1, TypingTyped DEF InputTyped, SocketReadable, Typing, round, channels
<1>2. CASE Hotplug
  BY <1>0, <1>2, HotplugTyped DEF InputTyped, SocketReadable, Hotplug, round, channels
<1>3. CASE TimerExpires
  BY <1>0, <1>3 DEF InputTyped, SocketReadable, TimerExpires, InputTypeOK, ChannelsTypeOK,
                    hardware, fetching, round, pending, channels
<1>4. CASE StartFetch \/ FetchDone \/ DeviceError \/ Poll
             \/ \E d \in Device : OpenDevice(d) \/ AsksKeys(d) \/ FetchEvents(d)
  <2>1. SocketReadable'
    <3>1. "socket" \notin Device
      BY InputAssumption
    <3>2. CASE Poll
      BY <1>0, <3>1, <3>2 DEF Poll, Readable, InputTypeOK, SocketReadable, channels
    <3>3. ASSUME NEW d \in Device, AsksKeys(d) PROVE SocketReadable'
      BY <1>0, <3>3, Asked DEF SocketReadable, round, channels
    <3> QED BY <1>0, <1>4, <3>2, <3>3
            DEF SocketReadable, StartFetch, FetchDone, DeviceError, OpenDevice, FetchEvents,
                round, channels
  <2> QED BY <1>0, <1>4, <2>1, FetchTyped DEF InputTyped
<1>5. CASE KeyFromKbd \/ KeyFromMouse
  <2>1. UNCHANGED <<ready, toInput>>
    BY <1>5 DEF KeyFromKbd, KeyFromMouse, HandleKey
  <2> QED BY <1>0, <1>5, <2>1, KeyTyped DEF InputTyped, SocketReadable
<1>6. CASE KbdSyn \/ MouseRel \/ MouseSyn
  <2>1. UNCHANGED <<ready, toInput>>
    BY <1>6 DEF KbdSyn, MouseRel, MouseSyn, channels
  <2> QED BY <1>0, <1>6, <2>1, KbdSynTyped, MouseRelTyped, MouseSynTyped
          DEF InputTyped, SocketReadable
<1>7. CASE ReceiveFromCore
  <2>1. "socket" \in ready /\ "socket" \notin ready'
    BY <1>7 DEF ReceiveFromCore
  <2> QED BY <1>0, <1>7, <2>1, ReceiveTyped DEF InputTyped, SocketReadable
<1>8. CASE DrainAccumulated
  <2>1. "socket" \notin ready'
    BY <1>8 DEF DrainAccumulated
  <2> QED BY <1>0, <1>8, <2>1, DrainTyped DEF InputTyped, SocketReadable
<1> QED BY <1>1, <1>2, <1>3, <1>4, <1>5, <1>6, <1>7, <1>8
        DEF InputNext, InputThread, AsksKeys

LEMMA InputInitTyped ==
  ASSUME InputInit, ChannelsTypeOK PROVE InputTyped
BY DEF InputInit, InputTyped, InputTypeOK, SocketReadable, Modifiers

LEMMA TypedInvariant == OpenSpec => []InputTyped
<1>1. OpenInit => InputTyped
  <2>1. OpenInit => ChannelsTypeOK
    BY DEF OpenInit, ChannelsTypeOK
  <2> QED BY <2>1, InputInitTyped DEF OpenInit
<1>2. InputTyped /\ [OpenNext]_OpenVars => InputTyped'
  <2> SUFFICES ASSUME InputTyped, [OpenNext]_OpenVars PROVE InputTyped'
    OBVIOUS
  <2>1. InputTypeOK /\ SocketReadable
    BY DEF InputTyped
  <2>2. ASSUME UNCHANGED inputVars, toInput' \in Seq(MsgToInput), toCore' \in Seq(Keybind),
               toUInput' \in Seq(MsgToUInput), toInput # <<>> => toInput' # <<>>
        PROVE  InputTyped'
    BY <2>1, <2>2 DEF InputTyped, SocketReadable, InputTypeOK, ChannelsTypeOK, inputVars, hardware,
                      fetching, round, pending
  <2>3. toInput \in Seq(MsgToInput) /\ toCore \in Seq(Keybind) /\ toUInput \in Seq(MsgToUInput)
    BY <2>1 DEF InputTypeOK, ChannelsTypeOK
  <2>4. CASE FromCore
    <3>1. PICK msg \in MsgsFromCore : toInput' = Append(toInput, msg)
      BY <2>4 DEF FromCore
    <3>2. msg \in MsgToInput
      BY InputAssumption
    <3>3. Append(toInput, msg) \in Seq(MsgToInput) /\ Append(toInput, msg) # <<>>
      BY <2>3, <3>2, AppendProperties, EmptySeq
    <3> QED BY <2>2, <2>3, <2>4, <3>1, <3>3 DEF FromCore
  <2>5. CASE TakenByCore
    <3>1. toCore' \in Seq(Keybind)
      BY <2>3, <2>5, HeadTailProperties DEF TakenByCore
    <3> QED BY <2>2, <2>3, <2>5, <3>1 DEF TakenByCore
  <2>6. CASE TakenByUInput
    <3>1. toUInput' \in Seq(MsgToUInput)
      BY <2>3, <2>6, HeadTailProperties DEF TakenByUInput
    <3> QED BY <2>2, <2>3, <2>6, <3>1 DEF TakenByUInput
  <2>7. CASE UNCHANGED OpenVars
    BY <2>2, <2>3, <2>7 DEF OpenVars, channels
  <2> QED BY <2>4, <2>5, <2>6, <2>7, InputStepTyped DEF OpenNext
<1> QED BY <1>1, <1>2, PTL DEF OpenSpec

(* Every step of the thread and of the hardware respects the types: every     *)
(* message sent is one of those the readers know. *)
THEOREM InputIsTyped == OpenSpec => []InputTypeOK
<1>1. InputTyped => InputTypeOK
  BY DEF InputTyped
<1> QED BY <1>1, TypedInvariant, PTL

-----------------------------------------------------------------------------
(* Motion is conserved.                                                    *)

Aside(ax) == IF ax \in DOMAIN accumulated THEN accumulated[ax] ELSE 0

OwedIs(ax) ==
  owed[ax] = BufferedIn(evq, ax) + Motion(batch, "RELATIVE", ax) + Motion(mouse_actions, "Rel", ax)
               + Aside(ax)

LEMMA ConservedIs == MotionConserved <=> \A ax \in Axis : OwedIs(ax)
BY BufferedIsIn DEF MotionConserved, OwedIs, Aside

LEMMA ConservedNext == (\A ax \in Axis : OwedIs(ax)') => MotionConserved'
<1>1. \A ax : Buffered(ax)' = BufferedIn(evq', ax)
  BY DEF Buffered, BufferedIn, MapThenSumSet, MapThenFoldSet
<1> QED BY <1>1 DEF MotionConserved, OwedIs, Aside

(* Every part of it is a number. *)
LEMMA PartsTyped ==
  ASSUME InputTypeOK, NEW ax \in Axis
  PROVE  /\ owed[ax] \in Int /\ BufferedIn(evq, ax) \in Int /\ Motion(batch, "RELATIVE", ax) \in Int
         /\ Motion(mouse_actions, "Rel", ax) \in Int /\ Aside(ax) \in Int
         /\ \A d \in Device : Motion(evq[d], "RELATIVE", ax) \in Int
<1>1. Moving(Event, "RELATIVE", ax) /\ Moving(MouseAction, "Rel", ax)
  BY EventsMove, ActionsMove
<1>2. evq \in [Device -> Seq(Event)] /\ batch \in Seq(Event) /\ mouse_actions \in Seq(MouseAction)
  BY DEF InputTypeOK
<1>3. owed[ax] \in Int /\ Aside(ax) \in Int
  BY DEF InputTypeOK, Aside
<1>4. \A d \in Device : Motion(evq[d], "RELATIVE", ax) \in Int
  BY <1>1, <1>2, MotionType
<1>5. Motion(batch, "RELATIVE", ax) \in Int /\ Motion(mouse_actions, "Rel", ax) \in Int
  BY <1>1, <1>2, MotionType
<1> QED BY <1>2, <1>3, <1>4, <1>5, BufferedType

(* A report of a device adds what it says. *)
LEMMA ReportBuffers ==
  ASSUME InputTypeOK, NEW d \in Device, NEW e \in Event, NEW ax, Report(d, e)
  PROVE  BufferedIn(evq', ax)
           = BufferedIn(evq, ax) + (IF Open(d) THEN Part(e, "RELATIVE", ax) ELSE 0)
<1>1. evq \in [Device -> Seq(Event)] /\ evq[d] \in Seq(Event)
  BY DEF InputTypeOK
<1>2. BufferedIn(evq, ax) \in Int
  BY <1>1, BufferedType
<1>3. CASE Open(d)
  <2> DEFINE s == evq[d] \o <<e, SynEvent>>
  <2>1. SynEvent \in Event /\ Part(SynEvent, "RELATIVE", ax) = 0
    BY DEF SynEvent, Event, Part, Moves
  <2>2. s \in Seq(Event)
    BY <1>1, Reported
  <2>3. Motion(s, "RELATIVE", ax)
          = Motion(evq[d], "RELATIVE", ax) + Part(e, "RELATIVE", ax) + Part(SynEvent, "RELATIVE", ax)
    BY <1>1, <2>1, EventsMove, MotionReported
  <2>4. Motion(evq[d], "RELATIVE", ax) \in Int /\ Part(e, "RELATIVE", ax) \in Int
    BY <1>1, EventsMove, MotionType, AddPartType
  <2>5. evq' = [evq EXCEPT ![d] = s]
    BY <1>3 DEF Report
  <2> HIDE DEF s
  <2>6. BufferedIn(evq', ax)
          = BufferedIn(evq, ax) + Motion(s, "RELATIVE", ax) - Motion(evq[d], "RELATIVE", ax)
    BY <1>1, <2>2, <2>5, BufferedChanges
  <2> QED BY <1>2, <1>3, <2>1, <2>3, <2>4, <2>6
<1>4. CASE ~Open(d)
  BY <1>2, <1>4 DEF Report
<1> QED BY <1>3, <1>4

LEMMA TypingConserves ==
  ASSUME InputTypeOK, MotionConserved, Typing PROVE MotionConserved'
<1>1. UNCHANGED <<batch, mouse_actions, accumulated>>
  BY DEF Typing, round, pending
<1>2. SUFFICES ASSUME NEW ax \in Axis PROVE OwedIs(ax)'
  BY ConservedNext
<1>3. OwedIs(ax)
  BY ConservedIs
<1>4. ASSUME NEW n \in Int, owed'[ax] = owed[ax] + n, BufferedIn(evq', ax) = BufferedIn(evq, ax) + n
      PROVE  OwedIs(ax)'
  BY <1>1, <1>3, <1>4, PartsTyped DEF OwedIs, Aside
<1>5. ASSUME NEW d \in Device, NEW k \in Key, NEW v \in 0..2, Report(d, KeyEvent(k, v)), owed' = owed
      PROVE  OwedIs(ax)'
  <2>1. KeyEvent(k, v) \in Event /\ Part(KeyEvent(k, v), "RELATIVE", ax) = 0
    BY DEF KeyEvent, Event, Part, Moves
  <2>2. BufferedIn(evq', ax) = BufferedIn(evq, ax) + 0
    BY <1>5, <2>1, ReportBuffers
  <2>3. owed'[ax] = owed[ax] + 0
    BY <1>5, PartsTyped
  <2> QED BY <1>4, <2>2, <2>3
<1>6. ASSUME NEW d \in Mouse, NEW axis \in Axis, NEW v \in Position, MouseMoves(d, axis, v)
      PROVE  OwedIs(ax)'
  <2> DEFINE e == RelEvent(axis, v)
             n == IF axis = ax THEN v ELSE 0
  <2>1. v \in Int /\ e \in Event /\ d \in Device /\ Part(e, "RELATIVE", ax) = n /\ n \in Int
    BY ChannelsAssumption DEF RelEvent, Event, Device, Part, Moves
  <2>2. Open(d) /\ Report(d, e) /\ owed' = [owed EXCEPT ![axis] = @ + v]
    BY <1>6 DEF MouseMoves
  <2>3. BufferedIn(evq', ax) = BufferedIn(evq, ax) + n
    BY <2>1, <2>2, ReportBuffers
  <2>4. owed'[ax] = owed[ax] + n
    BY <2>1, <2>2, PartsTyped DEF InputTypeOK
  <2> HIDE DEF n
  <2> QED BY <1>4, <2>1, <2>3, <2>4
<1> QED BY <1>5, <1>6 DEF Typing, KeyChanges, KeyRepeats

(* What is lost with a device, or with all of them, is not owed any more. *)
LEMMA HotplugConserves ==
  ASSUME InputTypeOK, MotionConserved, Hotplug PROVE MotionConserved'
<1>1. UNCHANGED <<batch, mouse_actions, accumulated>>
  BY DEF Hotplug, round, pending
<1>2. SUFFICES ASSUME NEW ax \in Axis PROVE OwedIs(ax)'
  BY ConservedNext
<1>3. OwedIs(ax)
  BY ConservedIs
<1>4. ASSUME NEW d \in Device, Unplugged(d) PROVE OwedIs(ax)'
  <2>1. evq' = [evq EXCEPT ![d] = <<>>] /\ owed'[ax] = owed[ax] - Motion(evq[d], "RELATIVE", ax)
    BY <1>4 DEF Unplugged
  <2>2. BufferedIn(evq', ax)
          = BufferedIn(evq, ax) + Motion(<<>>, "RELATIVE", ax) - Motion(evq[d], "RELATIVE", ax)
    <3>1. evq \in [Device -> Seq(Event)] /\ <<>> \in Seq(Event)
      BY DEF InputTypeOK
    <3> QED BY <2>1, <3>1, BufferedChanges
  <2>3. Motion(<<>>, "RELATIVE", ax) = 0
    BY MotionOfNone
  <2> QED BY <1>1, <1>3, <2>1, <2>2, <2>3, PartsTyped DEF OwedIs, Aside
<1>5. ASSUME NEW d \in Device, Plugged(d) PROVE OwedIs(ax)'
  BY <1>1, <1>3, <1>5 DEF Plugged, OwedIs, Aside
<1> QED BY <1>4, <1>5 DEF Hotplug

LEMMA StartFetchConserves ==
  ASSUME InputTypeOK, MotionConserved, StartFetch PROVE MotionConserved'
<1>1. /\ UNCHANGED <<batch, mouse_actions, accumulated>> /\ evq' = [d \in Device |-> <<>>]
      /\ owed' = [ax \in Axis |-> owed[ax] - Buffered(ax)]
  BY DEF StartFetch, round, pending
<1>2. SUFFICES ASSUME NEW ax \in Axis PROVE OwedIs(ax)'
  BY ConservedNext
<1>3. OwedIs(ax)
  BY ConservedIs
<1>4. BufferedIn(evq', ax) = 0
  BY <1>1, NoneBuffered
<1>5. owed'[ax] = owed[ax] - BufferedIn(evq, ax)
  BY <1>1, BufferedIsIn
<1> QED BY <1>1, <1>3, <1>4, <1>5, PartsTyped DEF OwedIs, Aside

(* What a device moved while it was opened stays in its buffer. *)
LEMMA WithoutKeysMoves ==
  ASSUME NEW s \in Seq(Event), NEW ax
  PROVE  Motion(WithoutKeys(s), "RELATIVE", ax) = Motion(s, "RELATIVE", ax)
<1> DEFINE Of(u) == Motion(u, "RELATIVE", ax)
           T == {u \in Seq(Event) : Of(WithoutKeys(u)) = Of(u)}
<1>1. <<>> \in T
  BY EmptySeq, WithoutKeysOfNone
<1>2. ASSUME NEW u \in Seq(Event), NEW x \in Event, Of(WithoutKeys(u)) = Of(u)
      PROVE  Of(WithoutKeys(Append(u, x))) = Of(Append(u, x))
  <2> DEFINE v == WithoutKeys(u)
  <2>1. v \in Seq(Event)
    BY WithoutKeysDecides
  <2>2. WithoutKeys(Append(u, x)) = IF Dropped(v, x) THEN v ELSE Append(v, x)
    BY WithoutKeysAppended
  <2>3. Of(v) = Of(u)
    BY <1>2
  <2> HIDE DEF v
  <2>4. Of(Append(u, x)) = Of(u) + Part(x, "RELATIVE", ax)
    BY EventsMove, MotionAppended
  <2>5. Of(Append(v, x)) = Of(v) + Part(x, "RELATIVE", ax)
    BY <2>1, EventsMove, MotionAppended
  <2>6. Dropped(v, x) => Part(x, "RELATIVE", ax) = 0
    BY DEF Dropped, Part, Moves
  <2>7. Of(u) \in Int
    BY EventsMove, MotionType
  <2> HIDE DEF Of
  <2>8. CASE Dropped(v, x)
    BY <2>2, <2>3, <2>4, <2>6, <2>7, <2>8
  <2>9. CASE ~Dropped(v, x)
    BY <2>2, <2>3, <2>4, <2>5, <2>9
  <2> QED BY <2>8, <2>9
<1>3. Seq(Event) \subseteq T
  <2>1. \A u \in Seq(Event), x \in Event : u \in T => Append(u, x) \in T
    BY <1>2, AppendProperties
  <2> HIDE DEF T
  <2> QED BY <1>1, <2>1, SequenceInduction
<1> QED BY <1>3

LEMMA AskConserves ==
  ASSUME InputTypeOK, MotionConserved, NEW d \in Device, AsksKeys(d) PROVE MotionConserved'
<1>1. /\ evq' = [evq EXCEPT ![d] = WithoutKeys(@)]
      /\ UNCHANGED <<owed, batch, mouse_actions, accumulated>>
  BY Asked DEF round, pending
<1>2. SUFFICES ASSUME NEW ax \in Axis PROVE OwedIs(ax)'
  BY ConservedNext
<1>3. OwedIs(ax)
  BY ConservedIs
<1>4. evq \in [Device -> Seq(Event)] /\ WithoutKeys(evq[d]) \in Seq(Event)
  BY WithoutKeysDecides DEF InputTypeOK
<1>5. BufferedIn(evq', ax) = BufferedIn(evq, ax)
  <2> DEFINE s == WithoutKeys(evq[d])
  <2>1. s \in Seq(Event) /\ Motion(s, "RELATIVE", ax) = Motion(evq[d], "RELATIVE", ax)
    BY <1>4, WithoutKeysMoves
  <2>2. evq' = [evq EXCEPT ![d] = s]
    BY <1>1
  <2> HIDE DEF s
  <2>3. BufferedIn(evq', ax)
          = BufferedIn(evq, ax) + Motion(s, "RELATIVE", ax) - Motion(evq[d], "RELATIVE", ax)
    BY <1>4, <2>1, <2>2, BufferedChanges
  <2>4. BufferedIn(evq, ax) \in Int /\ Motion(evq[d], "RELATIVE", ax) \in Int
    BY <1>4, BufferedType, EventsMove, MotionType
  <2> QED BY <2>1, <2>3, <2>4
<1> QED BY <1>1, <1>3, <1>5 DEF OwedIs, Aside

(* The events of a device are taken all at once. *)
LEMMA FetchEventsConserves ==
  ASSUME InputTypeOK, MotionConserved, NEW d \in Device, FetchEvents(d) PROVE MotionConserved'
<1>1. /\ batch = <<>> /\ batch' = evq[d] /\ evq' = [evq EXCEPT ![d] = <<>>]
      /\ UNCHANGED <<owed, mouse_actions, accumulated>>
  BY DEF FetchEvents, pending
<1>2. SUFFICES ASSUME NEW ax \in Axis PROVE OwedIs(ax)'
  BY ConservedNext
<1>3. OwedIs(ax)
  BY ConservedIs
<1>4. BufferedIn(evq', ax)
        = BufferedIn(evq, ax) + Motion(<<>>, "RELATIVE", ax) - Motion(evq[d], "RELATIVE", ax)
  <2>1. evq \in [Device -> Seq(Event)] /\ <<>> \in Seq(Event)
    BY DEF InputTypeOK
  <2> QED BY <1>1, <2>1, BufferedChanges
<1>5. Motion(<<>>, "RELATIVE", ax) = 0
  BY MotionOfNone
<1> QED BY <1>1, <1>3, <1>4, <1>5, PartsTyped DEF OwedIs, Aside

(* An event that is handled moves nothing, or its motion goes on. *)
LEMMA EventConserves ==
  ASSUME InputTypeOK, MotionConserved, batch # <<>>, batch' = Tail(batch),
         UNCHANGED <<evq, owed, accumulated>>,
         \A ax \in Axis :
           Motion(mouse_actions', "Rel", ax)
             = Motion(mouse_actions, "Rel", ax) + Part(Head(batch), "RELATIVE", ax)
  PROVE  MotionConserved'
<1>1. SUFFICES ASSUME NEW ax \in Axis PROVE OwedIs(ax)'
  BY ConservedNext
<1>2. OwedIs(ax)
  BY ConservedIs
<1>3. batch \in Seq(Event) /\ Head(batch) \in Event /\ Tail(batch) \in Seq(Event)
  BY HeadTailProperties DEF InputTypeOK
<1>4. Motion(batch, "RELATIVE", ax) = Part(Head(batch), "RELATIVE", ax) + Motion(batch', "RELATIVE", ax)
  BY <1>3, EventsMove, MotionOfHead
<1>5. Part(Head(batch), "RELATIVE", ax) \in Int /\ Motion(batch', "RELATIVE", ax) \in Int
  BY <1>3, EventsMove, AddPartType, MotionType
<1> QED BY <1>2, <1>4, <1>5, PartsTyped DEF OwedIs, Aside

LEMMA KeyConserves ==
  ASSUME InputTypeOK, MotionConserved, KeyFromKbd \/ KeyFromMouse \/ KbdSyn PROVE MotionConserved'
<1> DEFINE e     == Head(batch)
           state == StateOfValue(e.value)
<1>1. /\ batch # <<>> /\ batch' = Tail(batch) /\ e.type # "RELATIVE"
      /\ UNCHANGED <<evq, owed, accumulated>>
      /\ UNCHANGED mouse_actions \/ (e.type = "KEY" /\ PushMouseKey(e.code, state))
  BY DEF KeyFromKbd, KeyFromMouse, KbdSyn, HandleKey, NextEvent, hardware, pending, PushKeyAction
<1>2. e \in Event /\ mouse_actions \in Seq(MouseAction)
  BY <1>1, HeadTailProperties DEF InputTypeOK
<1>3. ASSUME NEW ax \in Axis
      PROVE  Motion(mouse_actions', "Rel", ax)
               = Motion(mouse_actions, "Rel", ax) + Part(e, "RELATIVE", ax)
  <2>1. Part(e, "RELATIVE", ax) = 0
    BY <1>1 DEF Part, Moves
  <2>2. CASE UNCHANGED mouse_actions
    BY <2>1, <2>2, PartsTyped
  <2>3. CASE e.type = "KEY" /\ PushMouseKey(e.code, state)
    <3> DEFINE a == [type |-> "Key", key |-> e.code, state |-> state]
    <3>1. a \in MouseAction /\ Part(a, "Rel", ax) = 0
      <4>1. e.code \in Key
        BY <1>2, <2>3 DEF Event
      <4>2. state \in KeyState
        BY DEF StateOfValue, KeyState
      <4> QED BY <4>1, <4>2 DEF MouseAction, Part, Moves
    <3>2. mouse_actions' = Append(mouse_actions, a)
      BY <2>3 DEF PushMouseKey
    <3> HIDE DEF a
    <3>3. Motion(mouse_actions', "Rel", ax) = Motion(mouse_actions, "Rel", ax) + Part(a, "Rel", ax)
      BY <1>2, <3>1, <3>2, ActionsMove, MotionAppended
    <3> QED BY <2>1, <3>1, <3>3
  <2> QED BY <1>1, <2>2, <2>3
<1> QED BY <1>1, <1>3, EventConserves

LEMMA RelConserves ==
  ASSUME InputTypeOK, MotionConserved, MouseRel PROVE MotionConserved'
<1> DEFINE e == Head(batch)
           a == [type |-> "Rel", axis |-> e.axis, value |-> e.value]
<1>1. /\ batch # <<>> /\ batch' = Tail(batch) /\ e.type = "RELATIVE"
      /\ mouse_actions' = Append(mouse_actions, a)
      /\ UNCHANGED <<evq, owed, accumulated>>
  BY DEF MouseRel, NextEvent, hardware
<1>2. e \in Event /\ mouse_actions \in Seq(MouseAction)
  BY <1>1, HeadTailProperties DEF InputTypeOK
<1>3. a \in MouseAction /\ \A ax : Part(a, "Rel", ax) = Part(e, "RELATIVE", ax)
  BY <1>1, <1>2 DEF Event, MouseAction, Part, Moves
<1> HIDE DEF a
<1>4. ASSUME NEW ax \in Axis
      PROVE  Motion(mouse_actions', "Rel", ax)
               = Motion(mouse_actions, "Rel", ax) + Part(e, "RELATIVE", ax)
  <2>1. Motion(mouse_actions', "Rel", ax) = Motion(mouse_actions, "Rel", ax) + Part(a, "Rel", ax)
    <3>1. Moving(MouseAction, "Rel", ax) /\ a \in MouseAction
      BY <1>3, ActionsMove
    <3>2. Motion(Append(mouse_actions, a), "Rel", ax)
            = Motion(mouse_actions, "Rel", ax) + Part(a, "Rel", ax)
      BY <1>2, <3>1, MotionAppended
    <3> QED BY <1>1, <3>2
  <2> QED BY <1>3, <2>1
<1> QED BY <1>1, <1>4, EventConserves

(* A SYN event passes the motion on, or puts it aside. *)
LEMMA SynConserves ==
  ASSUME InputTypeOK, MotionConserved, MouseSyn PROVE MotionConserved'
<1>1. /\ batch # <<>> /\ batch' = Tail(batch) /\ Head(batch).type = "SYN"
      /\ mouse_actions' = <<>> /\ evq' = evq
  BY DEF MouseSyn, NextEvent, hardware
<1>2. SUFFICES ASSUME NEW ax \in Axis PROVE OwedIs(ax)'
  BY ConservedNext
<1>3. OwedIs(ax)
  BY ConservedIs
<1> DEFINE m == Motion(mouse_actions, "Rel", ax)
<1>4. Motion(mouse_actions', "Rel", ax) = 0
  BY <1>1, MotionOfNone
<1>5. Motion(batch', "RELATIVE", ax) = Motion(batch, "RELATIVE", ax)
  <2>1. batch \in Seq(Event) /\ Head(batch) \in Event /\ Tail(batch) \in Seq(Event)
    BY <1>1, HeadTailProperties DEF InputTypeOK
  <2>2. Motion(batch, "RELATIVE", ax)
          = Part(Head(batch), "RELATIVE", ax) + Motion(batch', "RELATIVE", ax)
    BY <1>1, <2>1, EventsMove, MotionOfHead
  <2>3. Part(Head(batch), "RELATIVE", ax) = 0 /\ Motion(batch', "RELATIVE", ax) \in Int
    BY <1>1, <2>1, EventsMove, MotionType DEF Part, Moves
  <2> QED BY <2>2, <2>3
<1>6. mouse_actions \in Seq(MouseAction) /\ m \in Int
  BY PartsTyped DEF InputTypeOK
<1>7. CASE Throttled
  <2>1. owed'[ax] = owed[ax]
    <3> DEFINE rest == non_rel_mouse_actions(mouse_actions)
    <3>1. rest \in Seq(Still)
      BY <1>6, NonRelIsStill
    <3>2. owed'[ax] = owed[ax] - Motion(rest, "Rel", ax)
      BY <1>7 DEF MouseSyn, PassOn
    <3> HIDE DEF rest
    <3>3. \A i \in DOMAIN rest : ~Moves(rest[i], "Rel", ax)
      <4>1. \A i \in DOMAIN rest : rest[i] \in Still
        BY <3>1, LenProperties, ElementOfSeq
      <4> QED BY <4>1 DEF Still, Moves
    <3>4. Motion(rest, "Rel", ax) = 0
      BY <3>1, <3>3, NoMotion
    <3> QED BY <3>2, <3>4, PartsTyped
  <2>2. Aside(ax)' = Aside(ax) + m
    <3>1. accumulated' = Accumulate(mouse_actions)
      BY <1>7 DEF MouseSyn
    <3>2. CASE ax \in DOMAIN accumulated'
      BY <3>1, <3>2 DEF Aside, Accumulate
    <3>3. CASE ax \notin DOMAIN accumulated'
      <4>1. ax \notin DOMAIN accumulated
            /\ \A i \in DOMAIN mouse_actions : ~Moves(mouse_actions[i], "Rel", ax)
        BY <3>1, <3>3 DEF Accumulate, Moves
      <4>2. m = 0
        BY <1>6, <4>1, NoMotion
      <4> QED BY <3>3, <4>1, <4>2 DEF Aside
    <3> QED BY <3>2, <3>3
  <2> HIDE DEF m
  <2> QED BY <1>1, <1>3, <1>4, <1>5, <1>6, <2>1, <2>2, PartsTyped DEF OwedIs, m
<1>8. CASE ~Throttled
  <2>1. owed'[ax] = owed[ax] - m /\ accumulated' = accumulated
    BY <1>8 DEF MouseSyn, PassOn
  <2>2. Aside(ax)' = Aside(ax)
    BY <2>1 DEF Aside
  <2> HIDE DEF m
  <2> QED BY <1>1, <1>3, <1>4, <1>5, <1>6, <2>1, <2>2, PartsTyped DEF OwedIs, m
<1> QED BY <1>7, <1>8

(* A poll of the mouse sends what was put aside, whatever the order of axes. *)
LEMMA DrainConserves ==
  ASSUME InputTypeOK, MotionConserved, DrainAccumulated PROVE MotionConserved'
<1>1. PICK axes \in SetToSeqs(DOMAIN accumulated) : PassOn(Drained(axes))
  BY DEF DrainAccumulated, Drained
<1>2. UNCHANGED <<evq, batch, mouse_actions>> /\ accumulated' = <<>>
  BY DEF DrainAccumulated, hardware, pending
<1>3. SUFFICES ASSUME NEW ax \in Axis PROVE OwedIs(ax)'
  BY ConservedNext
<1>4. OwedIs(ax)
  BY ConservedIs
<1> DEFINE s == Drained(axes)
<1>5. /\ s \in Seq(MouseAction)
      /\ \A i \in DOMAIN axes : axes[i] \in DOMAIN accumulated
      /\ \A i, j \in DOMAIN axes : i # j => axes[i] # axes[j]
      /\ \A x \in DOMAIN accumulated : \E i \in DOMAIN axes : axes[i] = x
  BY AxesListed
<1>6. DOMAIN s = DOMAIN axes
      /\ \A i \in DOMAIN axes : (Moves(s[i], "Rel", ax) <=> axes[i] = ax)
                                /\ s[i].value = accumulated[axes[i]]
  BY DEF Drained, Moves
<1> HIDE DEF s
<1>7. Motion(s, "Rel", ax) = Aside(ax)
  <2>1. CASE \E i \in DOMAIN axes : axes[i] = ax
    <3>1. PICK i \in DOMAIN axes : axes[i] = ax
      BY <2>1
    <3>2. i \in DOMAIN s /\ Moves(s[i], "Rel", ax) /\ s[i].value = Aside(ax)
      BY <1>5, <1>6, <3>1 DEF Aside
    <3>3. \A j \in DOMAIN s : j # i => ~Moves(s[j], "Rel", ax)
      BY <1>5, <1>6, <3>1
    <3>4. Motion(s, "Rel", ax) = s[i].value
      <4>1. Moving(MouseAction, "Rel", ax) /\ s \in Seq(MouseAction)
        BY <1>5, ActionsMove
      <4> QED BY <3>2, <3>3, <4>1, MotionOnce
    <3> QED BY <3>2, <3>4
  <2>2. CASE \A i \in DOMAIN axes : axes[i] # ax
    <3>1. \A i \in DOMAIN s : ~Moves(s[i], "Rel", ax)
      BY <1>6, <2>2
    <3>2. Motion(s, "Rel", ax) = 0
      BY <1>5, <3>1, NoMotion
    <3>3. ax \notin DOMAIN accumulated
      BY <1>5, <2>2
    <3> QED BY <3>2, <3>3 DEF Aside
  <2> QED BY <2>1, <2>2
<1>8. owed'[ax] = owed[ax] - Aside(ax)
  BY <1>1, <1>7 DEF PassOn, s
<1>9. Aside(ax)' = 0
  BY <1>2 DEF Aside
<1> QED BY <1>2, <1>4, <1>8, <1>9, PartsTyped DEF OwedIs

LEMMA MotionUntouched ==
  ASSUME MotionConserved, UNCHANGED <<evq, owed, batch, mouse_actions, accumulated>>
  PROVE  MotionConserved'
<1>1. \A ax \in Axis : OwedIs(ax)
  BY ConservedIs
<1>2. \A ax \in Axis : OwedIs(ax)'
  BY <1>1 DEF OwedIs, Aside
<1> QED BY <1>2, ConservedNext

LEMMA MotionStep ==
  ASSUME InputTypeOK, MotionConserved, InputNext PROVE MotionConserved'
<1>1. CASE FetchDone \/ DeviceError \/ Poll \/ (\E d \in Device : OpenDevice(d))
             \/ TimerExpires \/ ReceiveFromCore
  <2>1. UNCHANGED <<evq, owed, batch, mouse_actions, accumulated>>
    BY <1>1 DEF FetchDone, DeviceError, Poll, OpenDevice, TimerExpires, ReceiveFromCore,
                hardware, fetching, round, pending
  <2> QED BY <2>1, MotionUntouched
<1> QED BY <1>1, TypingConserves, HotplugConserves, StartFetchConserves, FetchEventsConserves,
           AskConserves, KeyConserves, RelConserves, SynConserves, DrainConserves
        DEF InputNext, InputThread, AsksKeys

LEMMA MotionAtFirst ==
  ASSUME InputInit PROVE MotionConserved
<1>1. SUFFICES ASSUME NEW ax \in Axis PROVE OwedIs(ax)
  BY ConservedIs
<1>2. /\ evq = [d \in Device |-> <<>>] /\ batch = <<>> /\ mouse_actions = <<>>
      /\ accumulated = <<>> /\ owed[ax] = 0
  BY DEF InputInit
<1>3. BufferedIn(evq, ax) = 0
  BY <1>2, NoneBuffered
<1> QED BY <1>2, <1>3, MotionOfNone DEF OwedIs, Aside

(* No motion of a mouse is lost, invented or sent twice: whatever the devices *)
(* say, whatever the core asks, with and without a poll interval.             *)
THEOREM MotionIsConserved == OpenSpec => []MotionConserved
<1>1. OpenInit => MotionConserved
  BY MotionAtFirst DEF OpenInit
<1>2. InputTyped /\ MotionConserved /\ [OpenNext]_OpenVars => MotionConserved'
  <2>1. SUFFICES ASSUME InputTypeOK, MotionConserved, [OpenNext]_OpenVars
                 PROVE  MotionConserved'
    BY DEF InputTyped
  <2>2. CASE UNCHANGED inputVars
    BY <2>1, <2>2, MotionUntouched DEF inputVars, hardware, round, pending
  <2>3. InputNext \/ UNCHANGED inputVars
    BY <2>1 DEF OpenNext, OpenVars, FromCore, TakenByCore, TakenByUInput
  <2> QED BY <2>1, <2>2, <2>3, MotionStep
<1> QED BY <1>1, <1>2, TypedInvariant, PTL DEF OpenSpec
=============================================================================
