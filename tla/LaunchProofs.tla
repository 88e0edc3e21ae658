---------------------------- MODULE LaunchProofs ----------------------------
(***************************************************************************)
(* That the sockets arrive as they were sent, for any number of workers,   *)
(* and that the virtual mouse spans the screens, for any layouts.          *)
(***************************************************************************)
EXTENDS Launch, FoldTheorems

-----------------------------------------------------------------------------
(* The least and the greatest of the numbers of a list. *)

(* Bounds of a list come from those of its beginnings. *)
LEMMA ListsAreBounded ==
  ASSUME NEW n \in Nat, NEW f \in [1..n -> Int]
  PROVE  \E b \in Nat : \A i \in 1..n : -b <= f[i] /\ f[i] <= b
<1> DEFINE Bounded(k) == \E b \in Nat : \A i \in 1..k : -b <= f[i] /\ f[i] <= b
           T == {k \in 0..n : ~Bounded(k)}
<1>1. Bounded(0)
  <2>1. \A i \in 1..0 : -0 <= f[i] /\ f[i] <= 0
    OBVIOUS
  <2> QED BY <2>1
<1>2. ASSUME NEW k \in 1..n, Bounded(k - 1)
      PROVE  Bounded(k)
  <2>1. PICK b \in Nat : \A i \in 1..k - 1 : -b <= f[i] /\ f[i] <= b
    BY <1>2
  <2>2. f[k] \in Int
    OBVIOUS
  <2>3. \E c \in Nat : b <= c /\ -c <= f[k] /\ f[k] <= c
    <3>1. CASE f[k] >= 0
      BY <3>1, <2>2, b + f[k] \in Nat
    <3>2. CASE f[k] < 0
      BY <3>2, <2>2, b - f[k] \in Nat
    <3> QED BY <3>1, <3>2, <2>2
  <2>4. PICK c \in Nat : b <= c /\ -c <= f[k] /\ f[k] <= c
    BY <2>3
  <2>5. \A i \in 1..k : -c <= f[i] /\ f[i] <= c
    BY <2>1, <2>4
  <2> QED BY <2>5
<1> HIDE DEF Bounded
<1>3. n \in 0..n
  OBVIOUS
<1>4. T \subseteq Nat /\ \A k \in 0..n : k \in T <=> ~Bounded(k)
  OBVIOUS
<1> HIDE DEF T
<1>5. SUFFICES ASSUME T # {} PROVE FALSE
  <2>1. Bounded(n)
    BY <1>3, <1>4, <1>5
  <2> QED BY <2>1 DEF Bounded
<1>6. PICK k \in T : \A j \in T : k <= j
  BY <1>4, <1>5, LeastNatural
<1>7. k \in 1..n
  BY <1>1, <1>4, <1>6 DEF T
<1>8. k - 1 \in 0..n /\ k - 1 \notin T
  BY <1>4, <1>6, <1>7
<1> QED BY <1>2, <1>4, <1>6, <1>7, <1>8 DEF T

LEMMA BoundedSetsHaveExtremes ==
  ASSUME NEW S, S \subseteq Int, S # {}, NEW b \in Nat, \A x \in S : -b <= x /\ x <= b
  PROVE  /\ Min(S) \in S /\ \A x \in S : Min(S) <= x
         /\ Max(S) \in S /\ \A x \in S : x <= Max(S)
<1>1. PICK l \in S : \A x \in S : l <= x
  <2> DEFINE T == {x + b : x \in S}
  <2>a. \A x \in S : x + b \in Nat
    OBVIOUS
  <2>b. T # {}
    BY Zenon
  <2>1. T \subseteq Nat /\ T # {}
    BY <2>a, <2>b, Zenon
  <2>2. PICK z \in T : \A y \in T : z <= y
    BY <2>1, LeastNatural
  <2>3. PICK l \in S : z = l + b
    BY <2>2
  <2>4. \A x \in S : l + b <= x + b
    BY <2>2, <2>3
  <2> QED BY <2>4
<1>2. PICK g \in S : \A x \in S : x <= g
  <2> DEFINE T == {b - x : x \in S}
  <2>a. \A x \in S : b - x \in Nat
    OBVIOUS
  <2>b. T # {}
    BY Zenon
  <2>1. T \subseteq Nat /\ T # {}
    BY <2>a, <2>b, Zenon
  <2>2. PICK z \in T : \A y \in T : z <= y
    BY <2>1, LeastNatural
  <2>3. PICK g \in S : z = b - g
    BY <2>2
  <2>4. \A x \in S : b - g <= b - x
    BY <2>2, <2>3
  <2> QED BY <2>4
<1>3. Min(S) \in S /\ \A x \in S : Min(S) <= x
  BY <1>1 DEF Min
<1>4. Max(S) \in S /\ \A x \in S : Max(S) >= x
  BY <1>2 DEF Max
<1> QED BY <1>3, <1>4

(* The extremes of zero and a number of each element of a list. *)
LEMMA ExtremesOfList ==
  ASSUME NEW n \in Nat, NEW f \in [1..n -> Int], NEW S, S = {0} \cup {f[i] : i \in 1..n}
  PROVE  /\ Min(S) \in S /\ Max(S) \in S /\ {Min(S), Max(S)} \subseteq Int
         /\ \A x \in S : Min(S) <= x /\ x <= Max(S)
<1>1. PICK b \in Nat : \A i \in 1..n : -b <= f[i] /\ f[i] <= b
  BY ListsAreBounded
<1>2. S \subseteq Int /\ S # {} /\ \A x \in S : -b <= x /\ x <= b
  BY <1>1
<1> QED BY <1>2, BoundedSetsHaveExtremes

-----------------------------------------------------------------------------
LEMMA Within ==
  ASSUME NEW low \in Int, NEW high \in Int, NEW begin \in Int, NEW size \in Int,
         low <= begin, begin + size - 1 <= high, NEW x \in begin .. begin + size - 1
  PROVE  x \in low .. high
OBVIOUS

LEMMA LastOf ==
  ASSUME NEW end \in Int, NEW begin \in Int, NEW size \in Int, end = begin + size
  PROVE  end - 1 = begin + size - 1
OBVIOUS

(* The range of a list of monitors, however many and wherever they are: it    *)
(* has each of their pixels, ends at pixels of theirs or at the origin, and   *)
(* is one that the kernel takes.                                              *)
THEOREM RangeIsRight ==
  ASSUME NEW list \in Seq(Monitor), list # <<>>
  PROVE  Spans(RangeOf(list), list) /\ Accepted(RangeOf(list))
<1> DEFINE n  == Len(list)
           Ls == {0} \cup {m.x : m \in ToSet(list)}
           Ts == {0} \cup {m.y : m \in ToSet(list)}
           Rs == {0} \cup {m.x + m.width : m \in ToSet(list)}
           Bs == {0} \cup {m.y + m.height : m \in ToSet(list)}
           r  == RangeOf(list)
<1>1. /\ n \in Nat \ {0} /\ DOMAIN list = 1..n
      /\ \A i \in 1..n : list[i] \in Monitor
      /\ ToSet(list) = {list[i] : i \in 1..n}
  BY DEF ToSet
<1>2. \A m \in Monitor : /\ m.x \in Int /\ m.y \in Int /\ m.width \in Int /\ m.height \in Int
                         /\ m.width >= 1 /\ m.height >= 1
  BY DEF Monitor
<1>3. ToSet(list) \subseteq Monitor /\ ToSet(list) # {}
  BY <1>1
<1>4. /\ Min(Ls) \in Ls /\ Min(Ls) \in Int /\ \A x \in Ls : Min(Ls) <= x
  <2> DEFINE f == [i \in 1..n |-> list[i].x]
  <2>1. f \in [1..n -> Int]
    BY <1>1, <1>2
  <2>2. Ls = {0} \cup {f[i] : i \in 1..n}
    BY <1>1, Zenon
  <2> HIDE DEF f, Ls
  <2> QED BY <1>1, <2>1, <2>2, ExtremesOfList
<1>5. /\ Min(Ts) \in Ts /\ Min(Ts) \in Int /\ \A x \in Ts : Min(Ts) <= x
  <2> DEFINE f == [i \in 1..n |-> list[i].y]
  <2>1. f \in [1..n -> Int]
    BY <1>1, <1>2
  <2>2. Ts = {0} \cup {f[i] : i \in 1..n}
    BY <1>1, Zenon
  <2> HIDE DEF f, Ts
  <2> QED BY <1>1, <2>1, <2>2, ExtremesOfList
<1>6. /\ Max(Rs) \in Rs /\ Max(Rs) \in Int /\ \A x \in Rs : x <= Max(Rs)
  <2> DEFINE f == [i \in 1..n |-> list[i].x + list[i].width]
  <2>1. f \in [1..n -> Int]
    BY <1>1, <1>2
  <2>2. Rs = {0} \cup {f[i] : i \in 1..n}
    BY <1>1, Zenon
  <2> HIDE DEF f, Rs
  <2> QED BY <1>1, <2>1, <2>2, ExtremesOfList
<1>7. /\ Max(Bs) \in Bs /\ Max(Bs) \in Int /\ \A x \in Bs : x <= Max(Bs)
  <2> DEFINE f == [i \in 1..n |-> list[i].y + list[i].height]
  <2>1. f \in [1..n -> Int]
    BY <1>1, <1>2
  <2>2. Bs = {0} \cup {f[i] : i \in 1..n}
    BY <1>1, Zenon
  <2> HIDE DEF f, Bs
  <2> QED BY <1>1, <2>1, <2>2, ExtremesOfList
<1>8. r = [left |-> Min(Ls), top |-> Min(Ts), right |-> Max(Rs) - 1, bottom |-> Max(Bs) - 1]
  BY DEF RangeOf
<1>9. \A m \in ToSet(list) :
        /\ r.left <= m.x /\ r.top <= m.y
        /\ m.x + m.width - 1 <= r.right /\ m.y + m.height - 1 <= r.bottom
  <2> TAKE m \in ToSet(list)
  <2>1. m.x \in Ls /\ m.y \in Ts /\ m.x + m.width \in Rs /\ m.y + m.height \in Bs
    OBVIOUS
  <2>2. m \in Monitor
    BY <1>3
  <2> HIDE DEF Ls, Ts, Rs, Bs, r
  <2>3. r.left <= m.x /\ r.top <= m.y
    BY <1>4, <1>5, <1>8, <2>1
  <2>4. m.x + m.width <= Max(Rs) /\ m.y + m.height <= Max(Bs)
    BY <1>6, <1>7, <2>1
  <2>5. r.right = Max(Rs) - 1 /\ r.bottom = Max(Bs) - 1
    BY <1>8
  <2>6. m.x \in Int /\ m.y \in Int /\ m.width \in Int /\ m.height \in Int
    BY <1>2, <2>2
  <2> QED BY <1>6, <1>7, <2>3, <2>4, <2>5, <2>6
<1>10. r.left \in Int /\ r.top \in Int /\ r.right \in Int /\ r.bottom \in Int
  <2> HIDE DEF Ls, Ts, Rs, Bs, r
  <2> QED BY <1>4, <1>5, <1>6, <1>7, <1>8
<1>11. Accepted(r)
  <2> HIDE DEF r
  <2>1. PICK m \in ToSet(list) : m \in Monitor
    BY <1>3
  <2>2. \A a, x, w, b \in Int : a <= x /\ w >= 1 /\ x + w - 1 <= b => a <= b
    OBVIOUS
  <2>3. /\ m.x \in Int /\ m.width \in Int /\ m.width >= 1 /\ r.left <= m.x
        /\ m.x + m.width - 1 <= r.right
    BY <1>2, <1>9, <2>1
  <2>4. /\ m.y \in Int /\ m.height \in Int /\ m.height >= 1 /\ r.top <= m.y
        /\ m.y + m.height - 1 <= r.bottom
    BY <1>2, <1>9, <2>1
  <2>5. r.left <= r.right
    BY <1>10, <2>2, <2>3
  <2>6. r.top <= r.bottom
    BY <1>10, <2>2, <2>4
  <2> QED BY <2>5, <2>6 DEF Accepted
<1>12. Spans(r, list)
  <2> DEFINE pixels == UNION {Pixels(m) : m \in ToSet(list)}
             xs == {p[1] : p \in pixels}
             ys == {p[2] : p \in pixels}
  <2>1. pixels \subseteq Area(r)
    <3>1. SUFFICES ASSUME NEW m \in ToSet(list), NEW p \in Pixels(m) PROVE p \in Area(r)
      OBVIOUS
    <3>2. m \in Monitor
      BY <1>3
    <3> HIDE DEF r
    <3>3. PICK px \in m.x .. m.x + m.width - 1, py \in m.y .. m.y + m.height - 1 : p = <<px, py>>
      BY DEF Pixels
    <3>4. m.x \in Int /\ m.y \in Int /\ m.width \in Int /\ m.height \in Int
      BY <1>2, <3>2
    <3>6. /\ r.left <= m.x /\ r.top <= m.y
          /\ m.x + m.width - 1 <= r.right /\ m.y + m.height - 1 <= r.bottom
      BY <1>9
    <3>5. px \in r.left .. r.right /\ py \in r.top .. r.bottom
      BY <1>10, <3>4, <3>6, Within
    <3> QED BY <3>3, <3>5 DEF Area
  <2>2. \A m \in ToSet(list) :
          /\ m.x \in xs /\ m.x + m.width - 1 \in xs
          /\ m.y \in ys /\ m.y + m.height - 1 \in ys
    <3> TAKE m \in ToSet(list)
    <3>1. m \in Monitor
      BY <1>3
    <3>2. <<m.x, m.y>> \in Pixels(m) /\ <<m.x + m.width - 1, m.y + m.height - 1>> \in Pixels(m)
      BY <1>2, <3>1 DEF Pixels
    <3>3. <<m.x, m.y>> \in pixels /\ <<m.x + m.width - 1, m.y + m.height - 1>> \in pixels
      BY <3>2
    <3> QED BY <3>3
  <2> HIDE DEF xs, ys
  <2>3. r.left \in xs \cup {0} /\ r.top \in ys \cup {0}
    BY <1>4, <1>5, <1>8, <2>2
  <2>4. r.right \in xs \cup {-1}
    <3>1. CASE Max(Rs) = 0
      BY <1>8, <3>1
    <3>2. ASSUME NEW m \in ToSet(list), Max(Rs) = m.x + m.width
          PROVE  r.right \in xs \cup {-1}
      <4> HIDE DEF r, Ls, Ts, Rs, Bs
      <4>0. m.x \in Int /\ m.width \in Int
        BY <1>2, <1>3
      <4>1. r.right = m.x + m.width - 1
        BY <1>6, <1>8, <3>2, <4>0, LastOf
      <4> QED BY <2>2, <4>1
    <3> QED BY <1>6, <3>1, <3>2
  <2>5. r.bottom \in ys \cup {-1}
    <3>1. CASE Max(Bs) = 0
      BY <1>8, <3>1
    <3>2. ASSUME NEW m \in ToSet(list), Max(Bs) = m.y + m.height
          PROVE  r.bottom \in ys \cup {-1}
      <4> HIDE DEF r, Ls, Ts, Rs, Bs
      <4>0. m.y \in Int /\ m.height \in Int
        BY <1>2, <1>3
      <4>1. r.bottom = m.y + m.height - 1
        BY <1>7, <1>8, <3>2, <4>0, LastOf
      <4> QED BY <2>2, <4>1
    <3> QED BY <1>7, <3>1, <3>2
  <2> QED BY <2>1, <2>3, <2>4, <2>5 DEF Spans, xs, ys
<1> QED BY <1>11, <1>12

-----------------------------------------------------------------------------
(* The handshake. *)

(* Nothing but the context is in stdin before the acknowledgement, and        *)
(* nothing but sockets after it.                                              *)
KeptInOrder ==
  /\ kept \in Seq(Socket) /\ Len(kept) <= NbSockets
  /\ main \in {"start", "screens", "context", "ack"} => kept = <<>>

BeforeAck ==
  ~acked => /\ kept = <<>> /\ received = <<>>
            /\ priv \in {"off", "context", "gone"}
            /\ main \in {"start", "screens", "context", "ack", "gone"}
            /\ stdin \in {<<>>, <<ContextOf(monitors)>>}
            /\ main \in {"start", "screens", "context"} => stdin = <<>>

AfterAck ==
  acked => /\ main \notin {"start", "screens", "context"}
           /\ priv \notin {"off", "context"}
           /\ context = ContextOf(monitors)
           /\ stdin \in Seq(Socket) /\ Len(received) + Len(stdin) = Len(kept)
           /\ \A i \in 1..Len(received) : received[i] = kept[i]
           /\ \A i \in 1..Len(stdin) : stdin[i] = kept[Len(received) + i]

HandshakeInv ==
  /\ LaunchTypeOK /\ KeptInOrder /\ BeforeAck /\ AfterAck
  /\ UInputRuns => acked /\ Len(received) = NbSockets

LEMMA SocketOfPlace ==
  ASSUME NEW i \in 1..NbSockets
  PROVE  [role |-> Role(i), pair |-> i] \in Socket
BY DEF Role, Socket

LEMMA FirstOfList ==
  ASSUME NEW c
  PROVE  Append(<<>>, c) = <<c>>
OBVIOUS

(* What becomes of the keys concerns the event loop alone, unless it ends the *)
(* process. *)
KeyStep ==
  /\ keys' \in 0..MaxKeys /\ loop' \in {loop, "unfinished", "unsent"}
  /\ UNCHANGED <<main, client, screens, monitors, kept, stdin, acked, toUInput, privSide>>

LEMMA KeysAreLoops ==
  ASSUME keys \in 0..MaxKeys, KeyArrives \/ KeyHandled \/ KeyPanics \/ TogglePanics
  PROVE  KeyStep
BY LaunchAssumption DEF KeyArrives, KeyHandled, KeyPanics, TogglePanics, LoopPanics, NextKey,
   KeyStep, coreSide

LEMMA HandshakeBegins == LaunchInit => HandshakeInv
<1> SUFFICES ASSUME LaunchInit PROVE HandshakeInv
  OBVIOUS
<1> USE DEF LaunchInit
<1>1. LaunchTypeOK
  <2>1. <<>> \in Seq(Socket)
    OBVIOUS
  <2>2. {acked, listening, refused} \subseteq BOOLEAN
    OBVIOUS
  <2>3. keys \in 0..MaxKeys
    BY LaunchAssumption
  <2> QED BY <2>1, <2>2, <2>3, Zenon DEF LaunchTypeOK
<1>2. KeptInOrder
  BY LaunchAssumption DEF KeptInOrder, NbSockets
<1>3. BeforeAck /\ AfterAck
  BY DEF BeforeAck, AfterAck
<1> QED BY <1>1, <1>2, <1>3 DEF HandshakeInv, UInputRuns

LEMMA HandshakeKept ==
  ASSUME HandshakeInv, [LaunchNext]_launchVars
  PROVE  HandshakeInv'
<1> USE LaunchAssumption
<1> USE DEF HandshakeInv, LaunchTypeOK, KeptInOrder, BeforeAck, AfterAck, UInputRuns,
            NbSockets, coreSide, between, privSide, screens, virtual, CoreEnds, PrivEnds
<1>1. CASE StartPriv
  BY <1>1 DEF StartPriv
<1>2. CASE ScreenInfo
  BY <1>2 DEF ScreenInfo
<1>3. CASE SendContext
  <2>0. ~acked /\ stdin = <<>>
    BY <1>3 DEF SendContext
  <2>1. stdin' = <<ContextOf(monitors)>> /\ UNCHANGED monitors
    BY <1>3, <2>0, FirstOfList, Zenon DEF SendContext
  <2> QED BY <1>3, <2>1 DEF SendContext, PrivGone
<1>4. CASE ReadAck
  BY <1>4 DEF ReadAck
<1>5. CASE send_socket
  BY <1>5, SocketOfPlace DEF send_socket, PrivGone
<1>6. CASE StartLoop
  BY <1>6 DEF StartLoop
<1>7. CASE \/ LaunchFails \/ LaunchCallFails \/ UpdateFails \/ ChildWaited
           \/ LoopReadsEnd \/ KeyExits \/ ClosurePanics
  <2>1. CoreEnds
    BY <1>7 DEF LaunchFails, LaunchCallFails, UpdateFails, ChildWaited, LoopReadsEnd, KeyExits, ClosurePanics
  <2> QED BY <2>1
<1>8. CASE ForwardLayout \/ UpdatesEnd
  BY <1>8 DEF ForwardLayout, UpdatesEnd
<1>9. CASE ClientStarts \/ sync_outputs \/ ClientEnds
  <2>1. /\ UNCHANGED <<main, loop, monitors, kept, between, privSide>>
        /\ client' \in {client, "running", "ended"}
    BY <1>9 DEF ClientStarts, sync_outputs, ClientEnds
  <2> QED BY <2>1
<1>18. CASE KeyArrives \/ KeyHandled \/ KeyPanics \/ TogglePanics
  <2>1. KeyStep
    BY <1>18, KeysAreLoops
  <2> QED BY <2>1 DEF KeyStep
<1>10. CASE ReadContext
  <2>1. ~acked /\ stdin = <<ContextOf(monitors)>>
    BY <1>10 DEF ReadContext
  <2>2. context' = ContextOf(monitors) /\ stdin' = <<>>
    BY <1>10, <2>1 DEF ReadContext
  <2>3. /\ main \notin {"start", "screens", "context"} /\ kept = <<>> /\ received = <<>>
        /\ acked' = TRUE /\ priv' = "sockets"
        /\ UNCHANGED <<coreSide, keys, received, virtual, input, listening>>
    BY <1>10, <2>1 DEF ReadContext
  <2> QED BY <2>2, <2>3
<1>11. CASE get_socket
  BY <1>11 DEF get_socket, AllReceived, ContextOf
<1>12. CASE launch_uinput_listener
  BY <1>12 DEF launch_uinput_listener, AllReceived, ContextOf
<1>13. CASE launch_input_listener \/ launch_workers \/ JoinUInput
  BY <1>13 DEF launch_input_listener, launch_workers, JoinUInput
<1>14. CASE HandlerFails \/ HandlerCallFails \/ JoinFails \/ Listener
  <2>1. PrivEnds
    BY <1>14 DEF HandlerFails, HandlerCallFails, JoinFails, Listener
  <2>2. acked => priv \notin {"off", "context"}
    OBVIOUS
  <2> QED BY <2>1, <2>2
<1>15. CASE UpdateScreenSpace
  BY <1>15 DEF UpdateScreenSpace, Accepted
<1>16. CASE PollFails \/ InputPanics
  <2>1. /\ UNCHANGED <<coreSide, between, priv, context, received, virtual, listening>>
        /\ input' \in {"stopped", "panicked"}
    BY <1>16 DEF PollFails, InputPanics
  <2> QED BY <2>1
<1>17. CASE UNCHANGED launchVars
  BY <1>17 DEF launchVars
<1> QED
  BY <1>1, <1>2, <1>3, <1>4, <1>5, <1>6, <1>7, <1>8, <1>9, <1>10, <1>11, <1>12, <1>13,
     <1>14, <1>15, <1>16, <1>17, <1>18
     DEF LaunchNext, MainThread, EventLoop, HandlerThread

LEMMA HandshakeAlways == LaunchSpec => []HandshakeInv
BY HandshakeBegins, HandshakeKept, PTL DEF LaunchSpec

(* Every variable of the two processes and of the way between them keeps its  *)
(* type, through every end of a thread (app.rs, priv_handler.rs).             *)
THEOREM LaunchIsTyped == LaunchSpec => []LaunchTypeOK
<1>1. HandshakeInv => LaunchTypeOK
  BY DEF HandshakeInv
<1> QED BY <1>1, HandshakeAlways, PTL

(* For any number of workers the privileged process receives the sockets the  *)
(* core made, each for the purpose it was made for, and all of them before it *)
(* starts a thread (App::share_sockets, PrivHandler::get_sockets).            *)
THEOREM SocketsArriveAsSent == LaunchSpec => []SocketsAreShared
<1>1. ASSUME HandshakeInv PROVE SocketsAreShared
  <2>1. CASE acked
    <3>1. /\ received \in Seq(Socket) /\ kept \in Seq(Socket) /\ stdin \in Seq(Socket)
          /\ Len(received) + Len(stdin) = Len(kept)
          /\ \A i \in 1..Len(received) : received[i] = kept[i]
      BY <1>1, <2>1 DEF HandshakeInv, LaunchTypeOK, AfterAck
    <3> QED BY <1>1, <3>1 DEF HandshakeInv, SocketsAreShared
  <2>2. CASE ~acked
    BY <1>1, <2>2 DEF HandshakeInv, BeforeAck, SocketsAreShared
  <2> QED BY <2>1, <2>2
<1> QED BY <1>1, HandshakeAlways, PTL

-----------------------------------------------------------------------------
(* The screens. *)

(* The core asks the client for the screens before it sends the context.      *)
Asked == main \in {"context", "ack", "share", "updates", "wait"} \/ stdin # <<>> \/ acked

(* The last layout on its way, wherever it is, is that of the client.         *)
LayoutIsFollowed ==
  /\ layout \in Seq(Monitor) /\ updates \in Seq(Seq(Monitor))
  /\ toUInput \in Seq({RangeOf(list) : list \in Seq(Monitor)})
  /\ updates # <<>> => updates[Len(updates)] = layout
  /\ updates = <<>> /\ toUInput # <<>> => toUInput[Len(toUInput)] = RangeOf(layout)
  /\ updates = <<>> /\ toUInput = <<>> =>
       /\ UInputRuns => refused \/ layout = <<>> \/ mouse = RangeOf(layout)
       /\ Asked /\ ~UInputRuns /\ priv # "gone" => monitors = layout

(* Nothing is reported before the client runs, and nothing is asked.          *)
ClientRunsFirst ==
  /\ Asked => client \notin {"off", "setup"}
  /\ client \in {"off", "setup"} => layout = <<>> /\ updates = <<>> /\ toUInput = <<>>
  /\ main = "start" => client = "off"
  /\ ~acked => toUInput = <<>>

ScreensInv == HandshakeInv /\ LayoutIsFollowed /\ ClientRunsFirst

LEMMA AloneInList ==
  ASSUME NEW S, NEW s \in Seq(S), s # <<>>, Tail(s) = <<>>
  PROVE  Len(s) = 1
<1>1. Len(Tail(s)) = Len(s) - 1
  BY HeadTailProperties
<1>2. Len(s) \in Nat /\ Len(Tail(s)) = 0
  BY EmptySeq
<1> QED BY <1>1, <1>2

LEMMA ScreensBegin == LaunchInit => ScreensInv
<1> SUFFICES ASSUME LaunchInit PROVE ScreensInv
  OBVIOUS
<1>1. HandshakeInv
  BY HandshakeBegins
<1>2. LayoutIsFollowed
  BY DEF LaunchInit, LayoutIsFollowed, Asked, UInputRuns
<1>3. ClientRunsFirst
  BY DEF LaunchInit, ClientRunsFirst, Asked
<1> QED BY <1>1, <1>2, <1>3 DEF ScreensInv

LEMMA ScreensKept ==
  ASSUME ScreensInv, [LaunchNext]_launchVars
  PROVE  ScreensInv'
<1>1. HandshakeInv /\ HandshakeInv'
  BY HandshakeKept DEF ScreensInv
<1>2. /\ LaunchTypeOK /\ KeptInOrder /\ BeforeAck /\ AfterAck
      /\ UInputRuns => acked
  BY <1>1 DEF HandshakeInv
<1> SUFFICES LayoutIsFollowed' /\ ClientRunsFirst'
  BY <1>1 DEF ScreensInv
<1>3. LayoutIsFollowed /\ ClientRunsFirst
  BY DEF ScreensInv
<1>4. Layouts \subseteq Seq(Monitor)
  BY LaunchAssumption
<1> USE DEF LayoutIsFollowed, ClientRunsFirst, Asked, UInputRuns,
            coreSide, between, privSide, screens, virtual
<1>5. CASE StartPriv
  BY <1>2, <1>3, <1>5 DEF StartPriv, BeforeAck, AfterAck
<1>6. CASE ScreenInfo
  BY <1>2, <1>3, <1>6 DEF ScreenInfo, AfterAck
<1>7. CASE SendContext \/ ReadAck \/ send_socket \/ StartLoop \/ UpdatesEnd
  BY <1>2, <1>3, <1>7 DEF SendContext, ReadAck, send_socket, StartLoop, UpdatesEnd
<1>21. CASE KeyArrives \/ KeyHandled \/ KeyPanics \/ TogglePanics
  <2>1. KeyStep
    BY <1>2, <1>21, KeysAreLoops DEF LaunchTypeOK
  <2> QED BY <1>3, <2>1 DEF KeyStep
<1>8. CASE \/ LaunchFails \/ LaunchCallFails \/ UpdateFails \/ ChildWaited
           \/ LoopReadsEnd \/ KeyExits \/ ClosurePanics
  <2>1. CoreEnds
    BY <1>8 DEF LaunchFails, LaunchCallFails, UpdateFails, ChildWaited, LoopReadsEnd, KeyExits, ClosurePanics
  <2> QED BY <1>3, <2>1 DEF CoreEnds
<1>9. CASE ForwardLayout
  <2> DEFINE head == Head(updates)
  <2>1. /\ updates \in Seq(Seq(Monitor)) /\ updates # <<>>
        /\ head \in Seq(Monitor) /\ updates' = Tail(updates)
        /\ toUInput' = Append(toUInput, RangeOf(head))
        /\ UNCHANGED <<main, loop, client, layout, changes, monitors, kept, stdin, acked, privSide>>
    BY <1>3, <1>9 DEF ForwardLayout, from_monitors
  <2>2. acked /\ client \notin {"off", "setup"} /\ main = "updates"
    BY <1>2, <1>3, <1>9 DEF ForwardLayout, BeforeAck
  <2>3. ClientRunsFirst'
    BY <1>3, <2>1, <2>2
  <2> DEFINE Ranges == {RangeOf(list) : list \in Seq(Monitor)}
  <2>4. RangeOf(head) \in Ranges /\ toUInput \in Seq(Ranges)
    BY <1>3, <2>1
  <2> HIDE DEF Ranges, head
  <2>5. /\ toUInput' \in Seq(Ranges)
        /\ toUInput' # <<>> /\ toUInput'[Len(toUInput')] = RangeOf(head)
    <3>1. toUInput' = Append(toUInput, RangeOf(head))
      BY <2>1
    <3> QED BY <2>4, <3>1
  <2>a. updates' \in Seq(Seq(Monitor))
    BY <2>1
  <2>6. updates' # <<>> => updates'[Len(updates')] = layout
    BY <1>3, <2>1
  <2>7. updates' = <<>> => head = layout
    <3>1. updates' = <<>> => Len(updates) = 1
      BY <2>1, AloneInList
    <3>2. head = updates[1]
      BY <2>1 DEF head
    <3> QED BY <1>3, <2>1, <3>1, <3>2
  <2>8. LayoutIsFollowed'
    BY <1>3, <2>1, <2>5, <2>a, <2>6, <2>7 DEF Ranges
  <2> QED BY <2>3, <2>8
<1>10. CASE ClientStarts
  BY <1>2, <1>3, <1>4, <1>10 DEF ClientStarts
<1>11. CASE sync_outputs
  <2>1. /\ layout' \in Seq(Monitor) /\ updates' = Append(updates, layout') /\ client = "running"
        /\ UNCHANGED <<main, loop, client, monitors, kept, between, privSide>>
    BY <1>4, <1>11 DEF sync_outputs
  <2>2. /\ updates' \in Seq(Seq(Monitor)) /\ updates' # <<>>
        /\ updates'[Len(updates')] = layout'
    BY <1>3, <2>1
  <2> QED BY <1>3, <2>1, <2>2
<1>12. CASE ClientEnds
  BY <1>3, <1>12 DEF ClientEnds
<1>13. CASE ReadContext
  BY <1>2, <1>3, <1>13 DEF ReadContext
<1>14. CASE get_socket
  BY <1>2, <1>3, <1>14 DEF get_socket
<1>15. CASE launch_uinput_listener
  BY <1>2, <1>3, <1>15 DEF launch_uinput_listener, BeforeAck, AfterAck, ContextOf, from_monitors
<1>16. CASE launch_input_listener \/ launch_workers \/ JoinUInput
  BY <1>3, <1>16 DEF launch_input_listener, launch_workers, JoinUInput
<1>17. CASE HandlerFails \/ HandlerCallFails \/ JoinFails \/ Listener
  <2>1. PrivEnds
    BY <1>17 DEF HandlerFails, HandlerCallFails, JoinFails, Listener
  <2> QED BY <1>3, <2>1 DEF PrivEnds
<1>18. CASE UpdateScreenSpace
  <2> DEFINE Ranges == {RangeOf(list) : list \in Seq(Monitor)}
  <2>1. /\ UInputRuns /\ toUInput \in Seq(Ranges) /\ toUInput # <<>> /\ toUInput' = Tail(toUInput)
        /\ UNCHANGED <<coreSide, stdin, acked, priv, context, received, input, listening>>
        /\ \/ mouse' = Head(toUInput) /\ refused' = refused
           \/ mouse' = mouse /\ (refused' <=> refused \/ Accepted(Head(toUInput)))
    BY <1>3, <1>18 DEF UpdateScreenSpace
  <2>2. ClientRunsFirst'
    BY <1>2, <1>3, <2>1
  <2> HIDE DEF Ranges
  <2>3. /\ toUInput' \in Seq(Ranges)
        /\ toUInput' # <<>> => toUInput'[Len(toUInput')] = toUInput[Len(toUInput)]
        /\ toUInput' = <<>> => Head(toUInput) = toUInput[Len(toUInput)]
    BY <2>1
  <2>4. ASSUME updates = <<>>, toUInput' = <<>>
        PROVE  refused' \/ layout = <<>> \/ mouse' = RangeOf(layout)
    <3>1. Head(toUInput) = RangeOf(layout)
      BY <1>3, <2>1, <2>3, <2>4
    <3>2. CASE mouse' = Head(toUInput)
      BY <3>1, <3>2
    <3>3. CASE refused' <=> refused \/ Accepted(Head(toUInput))
      <4>1. layout # <<>> => Accepted(RangeOf(layout))
        BY <1>3, RangeIsRight
      <4> QED BY <3>1, <3>3, <4>1
    <3> QED BY <2>1, <3>2, <3>3
  <2>5. UInputRuns' /\ updates' = updates /\ layout' = layout
    BY <2>1
  <2>6. LayoutIsFollowed'
    BY <1>3, <2>1, <2>3, <2>4, <2>5 DEF Ranges
  <2> QED BY <2>2, <2>6
<1>19. CASE PollFails \/ InputPanics
  BY <1>3, <1>19 DEF PollFails, InputPanics
<1>20. CASE UNCHANGED launchVars
  BY <1>3, <1>20 DEF launchVars
<1> QED
  BY <1>5, <1>6, <1>7, <1>8, <1>9, <1>10, <1>11, <1>12, <1>13, <1>14, <1>15, <1>16, <1>17,
     <1>18, <1>19, <1>20, <1>21
     DEF LaunchNext, MainThread, EventLoop, HandlerThread

LEMMA ScreensAlways == LaunchSpec => []ScreensInv
BY ScreensBegin, ScreensKept, PTL DEF LaunchSpec

(* For any layouts, reported at any time: once none is under way the virtual  *)
(* mouse has exactly the range of the screens the client knows, unless the    *)
(* kernel refused it or there is none (App::launch, uinput_loop).             *)
THEOREM MouseSpansScreens == LaunchSpec => []MouseFollowsScreens
<1>1. ScreensInv => MouseFollowsScreens
  BY RangeIsRight DEF ScreensInv, LayoutIsFollowed, MouseFollowsScreens
<1> QED BY <1>1, ScreensAlways, PTL
=============================================================================
