--------------------------- MODULE ClassChain_proofs ---------------------------
(***************************************************************************)
(* Proof that ClassChain stays in its types, for any number of classes and *)
(* any bounds.  What it says beyond that is of the two workers: a worker   *)
(* that is not idle is at exactly one object.                              *)
(***************************************************************************)
EXTENDS ClassChain, FiniteSetTheorems, TLAPS

WorkerOK(w) == w \in Workers /\ Cardinality(w.at) = IF w.pc = "idle" THEN 0 ELSE 1

LEMMA IdleOK == WorkerOK(Idle)
BY FS_EmptySet DEF Idle, Workers, WorkerOK, Verdicts

\* A worker that begins at an object, with whatever it has in hand.
LEMMA BeginOK ==
  ASSUME NEW n \in Names, NEW w, w.at = {n}, w.pc # "idle", w \in Workers
  PROVE  WorkerOK(w)
BY FS_Singleton DEF WorkerOK

\* A worker that goes on at the same object.
LEMMA GoOnOK ==
  ASSUME NEW v, WorkerOK(v), v.pc # "idle", NEW w \in Workers, w.at = v.at, w.pc # "idle"
  PROVE  WorkerOK(w)
BY DEF WorkerOK

LEMMA TypeOKInit == Init => TypeOK
<1> SUFFICES ASSUME Init
             PROVE  TypeOK
  OBVIOUS
<1>1. NoConfig \in Configs /\ NoClass \in ClassObjects
  BY DEF NoConfig, NoClass, Configs, ClassObjects, Verdicts
<1>2. 0 \in 0..MaxChanges /\ 0 \in 0..MaxFaults
  BY BoundsAssumption
<1> QED
  BY <1>1, <1>2, IdleOK DEF Init, TypeOK, WorkerOK

LEMMA CountersOK ==
  ASSUME TypeOK
  PROVE  /\ NoFault \/ Fault => faults' \in 0..MaxFaults
         /\ Change => changes' \in 0..MaxChanges
BY BoundsAssumption DEF TypeOK, NoFault, Fault, Change

\* The steps below name the parts of TypeOK that an action changes.
LEMMA ConfigWork ==
  ASSUME TypeOK, ReconcileConfig
  PROVE  TypeOK'
<1>1. WorkerOK(cfg) /\ WorkerOK(gwc)
  BY DEF TypeOK, WorkerOK
<1>2. /\ seen.config \in Configs /\ Config \in Names /\ Classes \subseteq Names
      /\ faults \in Nat /\ faults \in 0..MaxFaults /\ MaxFaults \in Nat
  BY BoundsAssumption DEF TypeOK, Names
<1>3. faults' \in 0..MaxFaults
  <2>1. NoFault \/ Fault
    BY DEF ReconcileConfig, ReadConfig, TestConfig, GetAccount, Nudge, EndNudges, MarkConfig,
           NoFault
  <2> QED
    BY <2>1, CountersOK
<1>4. /\ UNCHANGED <<class, seen, changes, gwc>>
      /\ lags' \subseteq Names /\ queue' \subseteq Names /\ missed' \subseteq Names
  BY <1>2 DEF TypeOK, ReconcileConfig, ReadConfig, TestConfig, GetAccount, Nudge, EndNudges,
              MarkConfig
<1>5. config' \in Configs
  <2>1. CASE MarkConfig
    BY <1>1, <2>1 DEF MarkConfig, TypeOK, Configs, WorkerOK, Workers
  <2>2. CASE ~MarkConfig
    BY <2>2 DEF TypeOK, ReconcileConfig, ReadConfig, TestConfig, Nudge, EndNudges
  <2> QED
    BY <2>1, <2>2
<1>6. WorkerOK(cfg')
  <2>1. CASE ReadConfig
    <3> DEFINE w == [Idle EXCEPT !.pc = "account", !.at = {Config}, !.good = seen.config.good]
    <3>1. w \in Workers /\ w.at = {Config} /\ w.pc = "account"
      BY <1>2 DEF Idle, Workers, Configs, Verdicts
    <3> HIDE DEF w
    <3>2. WorkerOK(w)
      BY <1>2, <3>1, BeginOK
    <3>3. cfg' = w \/ cfg' = Idle
      BY <2>1 DEF ReadConfig, w
    <3> QED
      BY <3>2, <3>3, IdleOK
  <2>2. CASE TestConfig
    <3>1. ConfigChildren \subseteq Classes
      BY DEF ConfigChildren
    <3>2. /\ cfg.pc = "account" /\ cfg' \in Workers
          /\ cfg'.at = cfg.at /\ cfg'.pc = "nudge"
      BY <1>1, <2>2, <3>1 DEF TestConfig, WorkerOK, Workers
    <3> QED
      BY <1>1, <3>2, GoOnOK
  <2>3. ASSUME NEW c \in Classes, Nudge(c)
        PROVE  WorkerOK(cfg')
    <3>1. /\ cfg.pc = "nudge" /\ cfg' \in Workers
          /\ cfg'.at = cfg.at /\ cfg'.pc = "nudge"
      BY <1>1, <2>3 DEF Nudge, WorkerOK, Workers
    <3> QED
      BY <1>1, <3>1, GoOnOK
  <2>4. CASE EndNudges
    <3>1. /\ cfg.pc = "nudge" /\ cfg' \in Workers
          /\ cfg'.at = cfg.at /\ cfg'.pc = "mark"
      BY <1>1, <2>4 DEF EndNudges, WorkerOK, Workers
    <3> QED
      BY <1>1, <3>1, GoOnOK
  <2>5. CASE MarkConfig
    BY <2>5, IdleOK DEF MarkConfig
  <2> QED
    BY <2>1, <2>2, <2>3, <2>4, <2>5 DEF ReconcileConfig
<1> QED
  BY <1>1, <1>3, <1>4, <1>5, <1>6 DEF TypeOK, WorkerOK

LEMMA ClassWork ==
  ASSUME TypeOK, NEW c \in Classes, ReconcileClass(c)
  PROVE  TypeOK'
<1>1. WorkerOK(cfg) /\ WorkerOK(gwc)
  BY DEF TypeOK, WorkerOK
<1>2. /\ seen.config \in Configs /\ c \in Names /\ Config \in Names
      /\ faults \in Nat /\ faults \in 0..MaxFaults /\ MaxFaults \in Nat
  BY BoundsAssumption DEF TypeOK, Names
<1>3. faults' \in 0..MaxFaults
  <2>1. NoFault \/ Fault
    BY DEF ReconcileClass, ReadClass, TestClass, GetAccount, MarkClass, NoFault
  <2> QED
    BY <2>1, CountersOK
<1>4. /\ UNCHANGED <<config, seen, changes, cfg>>
      /\ lags' \subseteq Names /\ queue' \subseteq Names /\ missed' \subseteq Names
  BY <1>2 DEF TypeOK, ReconcileClass, ReadClass, TestClass, GetAccount, MarkClass
<1>5. class' \in [Classes -> ClassObjects]
  <2>1. CASE MarkClass(c)
    BY <1>1, <2>1 DEF MarkClass, TypeOK, ClassObjects, WorkerOK, Workers
  <2>2. CASE ~MarkClass(c)
    BY <2>2 DEF TypeOK, ReconcileClass, ReadClass, TestClass
  <2> QED
    BY <2>1, <2>2
<1>6. WorkerOK(gwc')
  <2>1. CASE ReadClass(c)
    <3> DEFINE test == [Idle EXCEPT !.pc = "account", !.at = {c}, !.good = seen.config.good]
               mark == [Idle EXCEPT !.pc = "mark", !.at = {c}, !.verdict = "invalid"]
    <3>1. /\ test \in Workers /\ test.at = {c} /\ test.pc = "account"
          /\ mark \in Workers /\ mark.at = {c} /\ mark.pc = "mark"
      BY <1>2 DEF Idle, Workers, Configs, Verdicts
    <3> HIDE DEF test, mark
    <3>2. WorkerOK(test) /\ WorkerOK(mark)
      BY <1>2, <3>1, BeginOK
    <3>3. gwc' = test \/ gwc' = mark \/ gwc' = Idle
      BY <2>1 DEF ReadClass, GetEPICConfig, test, mark
    <3> QED
      BY <3>2, <3>3, IdleOK
  <2>2. CASE TestClass(c)
    <3>1. /\ gwc.pc = "account" /\ gwc' \in Workers
          /\ gwc'.at = gwc.at /\ gwc'.pc = "mark"
      BY <1>1, <2>2 DEF TestClass, WorkerOK, Workers
    <3> QED
      BY <1>1, <3>1, GoOnOK
  <2>3. CASE MarkClass(c)
    BY <2>3, IdleOK DEF MarkClass
  <2> QED
    BY <2>1, <2>2, <2>3 DEF ReconcileClass
<1> QED
  BY <1>1, <1>3, <1>4, <1>5, <1>6 DEF TypeOK, WorkerOK

\* The steps of the user, the informers and the manager's restart.
LEMMA WorldWork ==
  ASSUME TypeOK,
         \/ \E n \in Names : Sync(n) \/ Touch(n)
         \/ \E c \in Classes : ChangeClass(c)
         \/ ChangeConfig
         \/ Crash
  PROVE  TypeOK'
<1>1. WorkerOK(cfg) /\ WorkerOK(gwc)
  BY DEF TypeOK, WorkerOK
<1>2. /\ Config \in Names /\ Classes \subseteq Names
      /\ config \in Configs /\ class \in [Classes -> ClassObjects]
      /\ seen \in [config: Configs, class: [Classes -> ClassObjects]]
      /\ changes \in 0..MaxChanges /\ MaxChanges \in Nat
      /\ faults \in 0..MaxFaults /\ MaxFaults \in Nat
  BY BoundsAssumption DEF TypeOK, Names
<1>3. NoConfig \in Configs /\ NoClass \in ClassObjects
  BY DEF NoConfig, NoClass, Configs, ClassObjects, Verdicts
<1>4. ASSUME NEW n \in Names, Sync(n)
      PROVE  TypeOK'
  <2>1. seen' \in [config: Configs, class: [Classes -> ClassObjects]]
    <3>1. CASE n = Config
      BY <1>2, <1>4, <3>1 DEF Sync
    <3>2. CASE n # Config
      <4>1. n \in Classes
        BY <3>2 DEF Names
      <4>2. class[n] \in ClassObjects
        BY <1>2, <4>1
      <4> QED
        BY <1>2, <1>4, <3>2, <4>1, <4>2 DEF Sync
    <3> QED
      BY <3>1, <3>2
  <2>2. lags' \subseteq Names /\ queue' \subseteq Names
    BY <1>4 DEF Sync, TypeOK
  <2> QED
    BY <1>1, <1>4, <2>1, <2>2 DEF Sync, TypeOK, WorkerOK
<1>5. ASSUME NEW n \in Names, Touch(n)
      PROVE  TypeOK'
  <2>1. changes' \in 0..MaxChanges /\ queue' \subseteq Names
    BY <1>2, <1>5 DEF Touch, Change, TypeOK
  <2> QED
    BY <1>1, <1>5, <2>1 DEF Touch, Change, TypeOK, WorkerOK
<1>6. ASSUME NEW c \in Classes, ChangeClass(c)
      PROVE  TypeOK'
  <2>1. changes' \in 0..MaxChanges /\ lags' \subseteq Names
    <3>1. Change /\ lags' = lags \cup {c}
      BY <1>6 DEF ChangeClass
    <3> QED
      BY <1>2, <3>1, CountersOK DEF TypeOK
  <2>2. class' \in [Classes -> ClassObjects]
    <3>1. class[c] \in ClassObjects
      BY <1>2
    <3>2. \A ours, ref \in BOOLEAN :
             [NoClass EXCEPT !.exists = TRUE, !.ours = ours, !.ref = ref] \in ClassObjects
      BY DEF NoClass, ClassObjects, Verdicts
    <3>3. [class[c] EXCEPT !.ref = ~@] \in ClassObjects
      BY <3>1 DEF ClassObjects
    <3>4. \E new \in ClassObjects : class' = [class EXCEPT ![c] = new]
      BY <1>2, <1>3, <1>6, <3>1, <3>2, <3>3 DEF ChangeClass
    <3> QED
      BY <1>2, <3>4
  <2> QED
    BY <1>1, <1>6, <2>1, <2>2 DEF ChangeClass, Change, TypeOK, WorkerOK
<1>7. CASE ChangeConfig
  <2>1. changes' \in 0..MaxChanges /\ lags' \subseteq Names
    <3>1. Change /\ lags' = lags \cup {Config}
      BY <1>7 DEF ChangeConfig
    <3> QED
      BY <1>2, <3>1, CountersOK DEF TypeOK
  <2>2. config' \in Configs
    BY <1>2, <1>3, <1>7 DEF ChangeConfig, Configs, NoConfig, Verdicts
  <2> QED
    BY <1>1, <1>7, <2>1, <2>2 DEF ChangeConfig, Change, TypeOK, WorkerOK
<1>8. CASE Crash
  <2>1. /\ seen' \in [config: Configs, class: [Classes -> ClassObjects]]
        /\ faults' \in 0..MaxFaults
    BY <1>2, <1>8 DEF Crash, Fault
  <2> QED
    BY <1>8, <2>1, IdleOK DEF Crash, TypeOK, WorkerOK
<1> QED
  BY <1>4, <1>5, <1>6, <1>7, <1>8

\* Whatever the user does and whatever fails, the state stays in its types, and each
\* worker that is not idle is at exactly one object.
THEOREM TypeCorrect == Spec => []TypeOK
<1>1. TypeOK /\ [Next]_vars => TypeOK'
  <2> SUFFICES ASSUME TypeOK, [Next]_vars
               PROVE  TypeOK'
    OBVIOUS
  <2>1. CASE Next
    BY <2>1, ConfigWork, ClassWork, WorldWork DEF Next
  <2>2. CASE UNCHANGED vars
    BY <2>2 DEF vars, TypeOK
  <2> QED
    BY <2>1, <2>2
<1> QED
  BY <1>1, TypeOKInit, PTL DEF Spec
=============================================================================
