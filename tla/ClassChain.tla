------------------------------- MODULE ClassChain -------------------------------
(***************************************************************************)
(* A GatewayClassConfig, the GatewayClasses that may refer to it, and the  *)
(* two reconcilers that say in their statuses whether EPIC can be reached  *)
(* with it.                                                                *)
(*                                                                         *)
(* Both read from caches and test the connection themselves.  A class does *)
(* not watch its config: the config's reconciler nudges the classes that   *)
(* it finds, and that event is all that they learn of a new config.  What  *)
(* is asked here is whether the verdicts become right by these events      *)
(* alone, without the resync that comes after hours.                       *)
(*                                                                         *)
(* An object "lags" while there is an event of it that the informer has    *)
(* not seen; an update that is made from the cache is a conflict then.     *)
(***************************************************************************)
EXTENDS Naturals, FiniteSets

CONSTANTS
    Classes,     \* the names of GatewayClasses
    Config,      \* the name of the GatewayClassConfig
    MaxChanges,  \* bound: changes made by the user, and events out of the blue
    MaxFaults    \* bound: failed calls and crashes

ASSUME NamesAssumption == IsFiniteSet(Classes) /\ Config \notin Classes
ASSUME BoundsAssumption == MaxChanges \in Nat \ {0} /\ MaxFaults \in Nat

VARIABLES
    config,   \* the config at the API server
    class,    \* the classes at the API server
    seen,     \* the cached copies of both
    lags,     \* the names of what lags
    queue,    \* the names in the two work queues
    changes,  \* changes made so far
    faults,   \* failures so far
    missed,   \* history: the config if its last test failed for no reason of its own, and
              \* the classes that had such a failure, or lost a nudge, since the last nudge
    cfg,      \* the worker for configs
    gwc       \* the worker for classes

vars == <<config, class, seen, lags, queue, changes, faults, missed, cfg, gwc>>

Names == Classes \cup {Config}
Verdicts == {"none", "invalid", "unconnected", "valid"}
Configs == [exists: BOOLEAN, good: BOOLEAN, status: Verdicts]
ClassObjects == [exists: BOOLEAN, ours: BOOLEAN, ref: BOOLEAN, status: Verdicts]
NoConfig == [exists |-> FALSE, good |-> FALSE, status |-> "none"]
NoClass == [exists |-> FALSE, ours |-> FALSE, ref |-> FALSE, status |-> "none"]

\* A worker: the call that it makes next, the name that it is at, the credentials
\* and the verdict in its hands, and the classes that it has yet to nudge.
Workers == [pc: {"idle", "account", "nudge", "mark"}, at: SUBSET Names, good: BOOLEAN,
            verdict: Verdicts, todo: SUBSET Classes]
Idle == [pc |-> "idle", at |-> {}, good |-> FALSE, verdict |-> "none", todo |-> {}]

Fault == faults < MaxFaults /\ faults' = faults + 1
NoFault == UNCHANGED faults

Init ==
    /\ config = NoConfig
    /\ class = [c \in Classes |-> NoClass]
    /\ seen = [config |-> NoConfig, class |-> class]
    /\ lags = {}
    /\ queue = {}
    /\ changes = 0
    /\ faults = 0
    /\ missed = {}
    /\ cfg = Idle
    /\ gwc = Idle

-----------------------------------------------------------------------------
(* The GatewayClassConfigReconciler.                                       *)

ReadConfig ==
    /\ cfg.pc = "idle"
    /\ Config \in queue
    /\ queue' = queue \ {Config}
    /\ cfg' = IF seen.config.exists
              THEN [Idle EXCEPT !.pc = "account", !.at = {Config}, !.good = seen.config.good]
              ELSE Idle
    /\ UNCHANGED <<config, class, seen, lags, changes, faults, missed, gwc>>

\* A slip: classes that have been accepted are not looked at again.
UnacceptedChildren ==
    {c \in Classes : seen.class[c].exists /\ seen.class[c].ref /\ seen.class[c].status # "valid"}

\* The classes in the cache that refer to the config.
ConfigChildren == {c \in Classes : seen.class[c].exists /\ seen.class[c].ref}

\* Whether EPIC lets us in; a test that fails for another reason looks the same.
\* For what is missed by a class the next nudge has to make up.
GetAccount(worker, name, verdict) ==
    \/ /\ NoFault
       /\ verdict = IF worker.good THEN "valid" ELSE "unconnected"
       /\ missed' = missed \ ({name} \cap {Config})
    \/ /\ Fault
       /\ verdict = "unconnected"
       /\ missed' = missed \cup {name}

TestConfig ==
    /\ cfg.pc = "account"
    /\ \E v \in Verdicts :
          /\ GetAccount(cfg, Config, v)
          /\ cfg' = [cfg EXCEPT !.pc = "nudge", !.verdict = v, !.todo = ConfigChildren]
    /\ UNCHANGED <<config, class, seen, lags, queue, changes, gwc>>

\* A nudge is an event of the class that has the name now.  An error is logged
\* and the loop goes on.
Nudge(c) ==
    /\ cfg.pc = "nudge"
    /\ c \in cfg.todo
    /\ \/ /\ class[c].exists
          /\ NoFault
          /\ lags' = lags \cup {c}
          /\ missed' = missed \ {c}
       \/ /\ Fault
          /\ missed' = missed \cup {c}
          /\ UNCHANGED lags
       \/ /\ ~class[c].exists
          /\ NoFault
          /\ UNCHANGED <<lags, missed>>
    /\ cfg' = [cfg EXCEPT !.todo = @ \ {c}]
    /\ UNCHANGED <<config, class, seen, queue, changes, gwc>>

EndNudges ==
    /\ cfg.pc = "nudge"
    /\ cfg.todo = {}
    /\ cfg' = [cfg EXCEPT !.pc = "mark"]
    /\ UNCHANGED <<config, class, seen, lags, queue, changes, faults, missed, gwc>>

\* A slip: an error is logged and not returned.
MarkConfigOnce ==
    /\ cfg.pc = "mark"
    /\ \/ /\ Config \notin lags /\ config.exists
          /\ NoFault
          /\ config' = [config EXCEPT !.status = cfg.verdict]
          /\ lags' = lags \cup {n \in {Config} : config' # config}
       \/ /\ \/ (Config \in lags \/ ~config.exists) /\ NoFault
             \/ Fault
          /\ UNCHANGED <<config, lags>>
    /\ cfg' = Idle
    /\ UNCHANGED <<class, seen, queue, changes, missed, gwc>>

\* markAcceptance gets the object again from the cache; MergeConditions changes
\* it only if the verdict is another one.
MarkConfig ==
    /\ cfg.pc = "mark"
    /\ \/ /\ Config \notin lags /\ config.exists
          /\ NoFault
          /\ config' = [config EXCEPT !.status = cfg.verdict]
          /\ lags' = lags \cup {n \in {Config} : config' # config}
          /\ UNCHANGED queue
       \/ /\ \/ (Config \in lags \/ ~config.exists) /\ NoFault
             \/ Fault
          /\ queue' = queue \cup {Config}
          /\ UNCHANGED <<config, lags>>
    /\ cfg' = Idle
    /\ UNCHANGED <<class, seen, changes, missed, gwc>>

ReconcileConfig ==
    \/ ReadConfig
    \/ TestConfig
    \/ \E c \in Classes : Nudge(c)
    \/ EndNudges
    \/ MarkConfig

-----------------------------------------------------------------------------
(* The GatewayClassReconciler.                                             *)

\* A slip: the name of a class that is left alone is kept.
GetEPICConfigKeepsName(c) ==
    IF seen.class[c].ours /\ seen.class[c].ref /\ seen.config.exists
    THEN [Idle EXCEPT !.pc = "account", !.at = {c}, !.good = seen.config.good]
    ELSE [Idle EXCEPT !.at = {c}]

\* Without the config there is nothing to test, and a class of another
\* controller is left alone.
GetEPICConfig(c) ==
    CASE ~seen.class[c].exists \/ ~seen.class[c].ours -> Idle
      [] seen.class[c].exists /\ seen.class[c].ours /\ seen.class[c].ref /\ seen.config.exists
           -> [Idle EXCEPT !.pc = "account", !.at = {c}, !.good = seen.config.good]
      [] OTHER -> [Idle EXCEPT !.pc = "mark", !.at = {c}, !.verdict = "invalid"]

ReadClass(c) ==
    /\ gwc.pc = "idle"
    /\ c \in queue
    /\ queue' = queue \ {c}
    /\ gwc' = GetEPICConfig(c)
    /\ UNCHANGED <<config, class, seen, lags, changes, faults, missed, cfg>>

TestClass(c) ==
    /\ gwc.pc = "account" /\ c \in gwc.at
    /\ \E v \in Verdicts :
          /\ GetAccount(gwc, c, v)
          /\ gwc' = [gwc EXCEPT !.pc = "mark", !.verdict = v]
    /\ UNCHANGED <<config, class, seen, lags, queue, changes, cfg>>

\* As for the config.
MarkClass(c) ==
    /\ gwc.pc = "mark" /\ c \in gwc.at
    /\ \/ /\ c \notin lags /\ class[c].exists
          /\ NoFault
          /\ class' = [class EXCEPT ![c].status = gwc.verdict]
          /\ lags' = lags \cup {n \in {c} : class' # class}
          /\ UNCHANGED queue
       \/ /\ \/ (c \in lags \/ ~class[c].exists) /\ NoFault
             \/ Fault
          /\ queue' = queue \cup {c}
          /\ UNCHANGED <<class, lags>>
    /\ gwc' = Idle
    /\ UNCHANGED <<config, seen, changes, missed, cfg>>

ReconcileClass(c) == ReadClass(c) \/ TestClass(c) \/ MarkClass(c)

-----------------------------------------------------------------------------
(* The rest of the world.                                                  *)

\* The informer sees the changes of an object, and its name is queued.
Sync(n) ==
    /\ n \in lags
    /\ lags' = lags \ {n}
    /\ queue' = queue \cup {n}
    /\ seen' = IF n = Config THEN [seen EXCEPT !.config = config]
               ELSE [seen EXCEPT !.class[n] = class[n]]
    /\ UNCHANGED <<config, class, changes, faults, missed, cfg, gwc>>

\* The manager dies; after the restart everything is read and queued.
Crash ==
    /\ Fault
    /\ seen' = [config |-> config, class |-> class]
    /\ lags' = {}
    /\ queue' = Names
    /\ cfg' = Idle
    /\ gwc' = Idle
    /\ UNCHANGED <<config, class, changes, missed>>

Change ==
    /\ changes < MaxChanges
    /\ changes' = changes + 1
    /\ UNCHANGED <<seen, faults, missed, cfg, gwc>>

ChangeConfig ==
    /\ Change
    /\ \/ \E good \in BOOLEAN :
             /\ ~config.exists
             /\ config' = [NoConfig EXCEPT !.exists = TRUE, !.good = good]
       \/ /\ config.exists
          /\ config' \in {[config EXCEPT !.good = ~@], NoConfig}
    /\ lags' = lags \cup {Config}
    /\ UNCHANGED <<class, queue>>

ChangeClass(c) ==
    /\ Change
    /\ \/ \E ours, ref \in BOOLEAN :
             /\ ~class[c].exists
             /\ class' = [class EXCEPT ![c] = [NoClass EXCEPT !.exists = TRUE, !.ours = ours,
                                                              !.ref = ref]]
       \/ /\ class[c].exists
          /\ \/ class' = [class EXCEPT ![c].ref = ~@]
             \/ class' = [class EXCEPT ![c] = NoClass]
    /\ lags' = lags \cup {c}
    /\ UNCHANGED <<config, queue>>

\* A resync, or an event of an object of which nothing here changes.
Touch(n) ==
    /\ Change
    /\ queue' = queue \cup {n}
    /\ UNCHANGED <<config, class, lags>>

Next ==
    \/ ReconcileConfig
    \/ \E c \in Classes : ReconcileClass(c) \/ ChangeClass(c)
    \/ \E n \in Names : Sync(n) \/ Touch(n)
    \/ Crash
    \/ ChangeConfig

Spec == Init /\ [][Next]_vars

\* The workers go on, informers catch up, and the queue of the classes is first
\* in, first out.  There is no resync.
Fairness ==
    /\ WF_vars(ReconcileConfig)
    /\ \A c \in Classes : SF_vars(ReadClass(c)) /\ WF_vars(TestClass(c) \/ MarkClass(c))
    /\ \A n \in Names : WF_vars(Sync(n))

FairSpec == Spec /\ Fairness

-----------------------------------------------------------------------------
(* What must hold.                                                         *)

\* Every variable stays in its type, and a worker is at one object at a time.
TypeOK ==
    /\ config \in Configs
    /\ class \in [Classes -> ClassObjects]
    /\ seen \in [config: Configs, class: [Classes -> ClassObjects]]
    /\ lags \subseteq Names
    /\ queue \subseteq Names
    /\ changes \in 0..MaxChanges
    /\ faults \in 0..MaxFaults
    /\ missed \subseteq Names
    /\ \A w \in {cfg, gwc} :
          w \in Workers /\ Cardinality(w.at) = IF w.pc = "idle" THEN 0 ELSE 1

\* What EPIC would say of a class.
Verdict(c) == CASE ~class[c].ref -> "invalid"
                [] class[c].ref /\ config.good -> "valid"
                [] class[c].ref /\ ~config.good -> "unconnected"

\* Once the user stops, the status of a class of ours is right by the events and
\* nudges alone, unless its last nudge, or test, failed ("This will cause them to
\* update their Status.Conditions").  A class whose config was deleted is not
\* nudged, so nothing is said of it.
ClassJudged ==
    \A c \in Classes :
       <>[](class[c].exists /\ class[c].ours /\ (class[c].ref => config.exists) /\ c \notin missed
               => class[c].status = Verdict(c))

\* Once the user stops, the status of the config is right, unless its last test
\* failed.
ConfigJudged ==
    <>[](config.exists /\ Config \notin missed =>
            config.status = IF config.good THEN "valid" ELSE "unconnected")
=============================================================================
