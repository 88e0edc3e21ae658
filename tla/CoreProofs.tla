----------------------------- MODULE CoreProofs -----------------------------
(***************************************************************************)
(* That the pool of Api instances is conserved, for any number of them,    *)
(* any bindings, closures and updates of the compositor.                   *)
(***************************************************************************)
EXTENDS Core, SequenceTheorems, FiniteSetTheorems, TLAPS

PoolInv == CoreTypeOK /\ ApisConserved

-----------------------------------------------------------------------------
(* Sequences without repetition. *)

(* A finite set listed as a sequence: each element once. *)
LEMMA SetListed ==
  ASSUME NEW S, IsFiniteSet(S)
  PROVE  /\ SetToSeq(S) \in Seq(S) /\ IsInjective(SetToSeq(S))
         /\ ToSet(SetToSeq(S)) = S
<1> DEFINE n == Cardinality(S)
           s == SetToSeq(S)
<1>1. n \in Nat /\ ExistsBijection(1..n, S)
  BY FS_CardinalityType
<1> HIDE DEF n
<1>2. \E f \in [1..n -> S] : IsInjective(f)
  BY <1>1 DEF ExistsBijection, Bijection, Injection
<1>3. s \in [1..n -> S] /\ IsInjective(s)
  BY <1>2 DEF SetToSeq, n
<1> HIDE DEF s
<1>4. s \in Surjection(1..n, S)
  <2>1. s \in Injection(1..n, S)
    BY <1>3 DEF Injection
  <2>2. Cardinality(1..n) = n
    BY <1>1, FS_Interval
  <2> QED BY <2>1, <2>2, FS_Injection DEF n
<1>5. s \in Seq(S) /\ ToSet(s) = S
  BY <1>1, <1>3, <1>4 DEF Surjection, ToSet
<1> QED BY <1>3, <1>5 DEF s

(* Taking the last element off and putting a new one on. *)
LEMMA LastTaken ==
  ASSUME NEW S, NEW s \in Seq(S), s # <<>>, IsInjective(s)
  PROVE  /\ Front(s) \in Seq(S) /\ IsInjective(Front(s)) /\ Last(s) \in S
         /\ ToSet(s) = ToSet(Front(s)) \cup {Last(s)} /\ Last(s) \notin ToSet(Front(s))
<1> DEFINE n == Len(s)
           t == Front(s)
<1>1. /\ n \in Nat \ {0} /\ DOMAIN s = 1..n /\ Last(s) = s[n]
  BY EmptySeq, LenProperties DEF Last
<1>2. /\ t \in Seq(S) /\ DOMAIN t = 1..(n - 1)
      /\ \A i \in 1..(n - 1) : t[i] = s[i]
  BY <1>1, SubSeqProperties, LenProperties DEF Front
<1> HIDE DEF t, n
<1>3. IsInjective(t) /\ s[n] \in S
  BY <1>1, <1>2 DEF IsInjective
<1>4. s[n] \notin ToSet(t)
  BY <1>1, <1>2 DEF IsInjective, ToSet
<1>5. ToSet(s) = ToSet(t) \cup {s[n]}
  BY <1>1, <1>2 DEF ToSet
<1> QED BY <1>1, <1>2, <1>3, <1>4, <1>5 DEF t

LEMMA NewAppended ==
  ASSUME NEW S, NEW s \in Seq(S), IsInjective(s), NEW e \in S, e \notin ToSet(s)
  PROVE  /\ Append(s, e) \in Seq(S) /\ IsInjective(Append(s, e))
         /\ ToSet(Append(s, e)) = ToSet(s) \cup {e}
<1> DEFINE n == Len(s)
           t == Append(s, e)
<1>1. /\ n \in Nat /\ DOMAIN s = 1..n /\ t \in Seq(S) /\ DOMAIN t = 1..(n + 1)
      /\ t[n + 1] = e /\ \A i \in 1..n : t[i] = s[i]
  BY AppendProperties, LenProperties
<1> HIDE DEF t, n
<1>2. \A i \in 1..n : s[i] # e
  BY <1>1 DEF ToSet
<1>3. IsInjective(t)
  BY <1>1, <1>2 DEF IsInjective
<1>4. ToSet(t) = ToSet(s) \cup {e}
  BY <1>1 DEF ToSet
<1> QED BY <1>1, <1>3, <1>4 DEF t

-----------------------------------------------------------------------------
LEMMA PoolInvInit == CoreInit => PoolInv
<1> SUFFICES ASSUME CoreInit PROVE PoolInv
  OBVIOUS
<1>1. ApisConserved /\ api_instances \in Seq(Api)
  BY CoreAssumption, SetListed DEF CoreInit, ApisConserved
<1>2. core \in {"running", "stopped", "exited"} /\ closures_unbound \in BOOLEAN
  BY DEF CoreInit
<1>3. running \subseteq Api /\ toWorker \in [Api -> Seq(MsgToUInput)] /\ toUpdate \in Seq(MsgToUInput)
  BY DEF CoreInit
<1> QED BY <1>1, <1>2, <1>3 DEF PoolInv, CoreTypeOK

(* A closure is spawned with the Api on top of the pile. *)
LEMMA ApiTaken ==
  ASSUME PoolInv, RunClosure
  PROVE  api_instances' \in Seq(Api) /\ running' \subseteq Api /\ ApisConserved'
<1>1. /\ api_instances \in Seq(Api) /\ api_instances # <<>> /\ IsInjective(api_instances)
      /\ api_instances' = Front(api_instances)
      /\ running' = running \cup {Last(api_instances)}
  BY DEF PoolInv, CoreTypeOK, ApisConserved, RunClosure
<1> DEFINE top == Last(api_instances)
           left == Front(api_instances)
<1>2. /\ left \in Seq(Api) /\ IsInjective(left) /\ top \in Api
      /\ ToSet(api_instances) = ToSet(left) \cup {top} /\ top \notin ToSet(left)
  BY <1>1, LastTaken
<1>3. /\ ToSet(api_instances) \cap running = {}
      /\ ToSet(api_instances) \cup running = Api
  BY DEF PoolInv, ApisConserved
<1> HIDE DEF top, left
<1>4. api_instances' = left /\ running' = running \cup {top}
  BY <1>1 DEF top, left
<1> QED BY <1>2, <1>3, <1>4 DEF ApisConserved

(* A closure ends: its Api goes back on the pile. *)
LEMMA ApiReturned ==
  ASSUME PoolInv, NEW api \in Api, ClosureEnds(api)
  PROVE  api_instances' \in Seq(Api) /\ running' \subseteq Api /\ ApisConserved'
<1>1. /\ api \in running /\ running' = running \ {api}
      /\ api_instances' = Append(api_instances, api)
  BY DEF ClosureEnds
<1>2. /\ api_instances \in Seq(Api) /\ IsInjective(api_instances)
      /\ ToSet(api_instances) \cap running = {}
      /\ ToSet(api_instances) \cup running = Api
  BY DEF PoolInv, CoreTypeOK, ApisConserved
<1>3. /\ api_instances' \in Seq(Api) /\ IsInjective(api_instances')
      /\ ToSet(api_instances') = ToSet(api_instances) \cup {api}
  BY <1>1, <1>2, NewAppended
<1> QED BY <1>1, <1>2, <1>3 DEF ApisConserved

LEMMA PoolInvStep ==
  ASSUME PoolInv, [CoreSpecNext]_CoreSpecVars
  PROVE  PoolInv'
<1>0. CoreTypeOK /\ ApisConserved
  BY DEF PoolInv
<1>1. CASE UNCHANGED coreVars
  <2>1. UNCHANGED <<core, closures_unbound, api_instances, running, toWorker, toUpdate>>
    BY <1>1 DEF coreVars, eventLoop, pool, forwards
  <2>2. closures_unbound' \in BOOLEAN
    BY <1>0, <2>1 DEF CoreTypeOK
  <2> QED BY <1>0, <2>1, <2>2 DEF PoolInv, CoreTypeOK, ApisConserved
<1>2. CASE RunClosure
  <2>1. UNCHANGED <<core, closures_unbound, toWorker, toUpdate>>
    BY <1>2 DEF RunClosure, eventLoop, forwards
  <2>2. closures_unbound' \in BOOLEAN
    BY <1>0, <2>1 DEF CoreTypeOK
  <2> QED BY <1>0, <1>2, <2>1, <2>2, ApiTaken DEF PoolInv, CoreTypeOK
<1>3. ASSUME NEW api \in Api, ClosureEnds(api) PROVE PoolInv'
  <2>1. UNCHANGED <<core, closures_unbound, toWorker, toUpdate>>
    BY <1>3 DEF ClosureEnds, eventLoop, forwards
  <2>2. closures_unbound' \in BOOLEAN
    BY <1>0, <2>1 DEF CoreTypeOK
  <2> QED BY <1>0, <1>3, <2>1, <2>2, ApiReturned DEF PoolInv, CoreTypeOK
<1>4. CASE KeyNotBound \/ TogglePauseClosures \/ MacroRecording \/ Exit
  <2>1. UNCHANGED <<api_instances, running, toWorker, toUpdate>>
    BY <1>4 DEF KeyNotBound, TogglePauseClosures, MacroRecording, Exit, pool, forwards
  <2>2. core' \in {core, "stopped", "exited"}
    BY <1>4 DEF KeyNotBound, TogglePauseClosures, MacroRecording, Exit
  <2>3. closures_unbound' = closures_unbound \/ closures_unbound' = ~closures_unbound
    BY <1>4 DEF KeyNotBound, TogglePauseClosures, MacroRecording, Exit
  <2>4. closures_unbound' \in BOOLEAN
    BY <1>0, <2>3 DEF CoreTypeOK
  <2> QED BY <1>0, <2>1, <2>2, <2>4 DEF PoolInv, CoreTypeOK, ApisConserved
<1>10. ASSUME NEW api \in Api, ClosurePanics(api) PROVE PoolInv'
  <2>1. UNCHANGED <<closures_unbound, api_instances, running, toWorker, toUpdate>> /\ core' = "exited"
    BY <1>10 DEF ClosurePanics, pool, forwards
  <2>2. closures_unbound' \in BOOLEAN
    BY <1>0, <2>1 DEF CoreTypeOK
  <2> QED BY <1>0, <2>1, <2>2 DEF PoolInv, CoreTypeOK, ApisConserved
<1>5. ASSUME UNCHANGED <<core, closures_unbound, api_instances, running>>,
             toWorker' \in [Api -> Seq(MsgToUInput)], toUpdate' \in Seq(MsgToUInput)
      PROVE  PoolInv'
  <2>1. closures_unbound' \in BOOLEAN
    BY <1>0, <1>5 DEF CoreTypeOK
  <2> QED BY <1>0, <1>5, <2>1 DEF PoolInv, CoreTypeOK, ApisConserved
<1>6. ASSUME NEW api \in Api, ClosureSends(api) PROVE PoolInv'
  <2>1. PICK msg \in ClosureMsgs : toWorker' = [toWorker EXCEPT ![api] = Append(@, msg)]
    BY <1>6 DEF ClosureSends
  <2>2. Append(toWorker[api], msg) \in Seq(MsgToUInput)
    BY <1>0, CoreAssumption DEF CoreTypeOK
  <2> QED BY <1>0, <1>5, <1>6, <2>1, <2>2 DEF ClosureSends, eventLoop, pool, CoreTypeOK
<1>7. ASSUME NEW update \in CompUpdates, ForwardUpdate(update) PROVE PoolInv'
  <2>1. toUpdate' \in Seq(MsgToUInput)
    <3>1. CASE update \in Screen
      <4>1. [type |-> "UpdateScreenSpace", screen |-> update] \in MsgToUInput
        BY <3>1 DEF MsgToUInput
      <4> QED BY <1>0, <1>7, <3>1, <4>1 DEF ForwardUpdate, CoreTypeOK
    <3>2. CASE update \notin Screen
      BY <1>0, <1>7, <3>2 DEF ForwardUpdate, CoreTypeOK
    <3> QED BY <3>1, <3>2
  <2> QED BY <1>0, <1>5, <1>7, <2>1 DEF ForwardUpdate, eventLoop, pool, CoreTypeOK
<1>8. ASSUME NEW api \in Api, WorkerForwards(api) PROVE PoolInv'
  <2>1. Tail(toWorker[api]) \in Seq(MsgToUInput)
    BY <1>0, <1>8 DEF WorkerForwards, CoreTypeOK
  <2> QED BY <1>0, <1>5, <1>8, <2>1 DEF WorkerForwards, eventLoop, pool, CoreTypeOK
<1>9. CASE UpdateForwards
  <2>1. Tail(toUpdate) \in Seq(MsgToUInput)
    BY <1>0, <1>9 DEF UpdateForwards, CoreTypeOK
  <2> QED BY <1>0, <1>5, <1>9, <2>1 DEF UpdateForwards, eventLoop, pool, CoreTypeOK
<1> QED BY <1>1, <1>2, <1>3, <1>4, <1>6, <1>7, <1>8, <1>9, <1>10
        DEF CoreSpecNext, CoreProcess, EventLoop, KeyHandled, SkipClosure, Forwarders, KeybindArrives, SentIsRead,
            CoreSpecVars

(* No Api instance is ever lost or handed to two closures at a time, whatever *)
(* the number of instances and the closures that are spawned, skipped and     *)
(* dropped. *)
THEOREM ApisAreConserved == CoreSpec => []ApisConserved
<1>1. CoreSpec => []PoolInv
  BY PoolInvInit, PoolInvStep, PTL DEF CoreSpec, CoreSpecInit
<1>2. PoolInv => ApisConserved
  BY DEF PoolInv
<1> QED BY <1>1, <1>2, PTL

(* The core's own state is always well typed. *)
THEOREM CoreIsTyped == CoreSpec => []CoreTypeOK
<1>1. CoreSpec => []PoolInv
  BY PoolInvInit, PoolInvStep, PTL DEF CoreSpec, CoreSpecInit
<1>2. PoolInv => CoreTypeOK
  BY DEF PoolInv
<1> QED BY <1>1, <1>2, PTL
=============================================================================
