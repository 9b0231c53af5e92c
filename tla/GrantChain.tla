------------------------------- MODULE GrantChain -------------------------------
(***************************************************************************)
(* ReferenceGrants, the Gateways whose certificate is a Secret of another  *)
(* namespace, and the two reconcilers that bring them together.            *)
(*                                                                         *)
(* A Gateway's reconciler looks at the grants when it validates the        *)
(* listeners' TLS; it does not watch them.  The grants' reconciler nudges  *)
(* all the Gateways that it finds, so that those which wait for a grant    *)
(* look again.  What is asked is whether the verdicts that the Gateways    *)
(* get become right by these events alone, without the resync, and whether *)
(* grants that are deleted are let go.                                     *)
(*                                                                         *)
(* Secrets do not change (nobody watches them).  The other calls of the    *)
(* Gateway's reconciler are in GatewayLifecycle; here it reads, judges and *)
(* marks.                                                                  *)
(* An object "lags" while the informer has not seen its last change.       *)
(***************************************************************************)
EXTENDS References, FiniteSets

CONSTANTS
    Grants,      \* the names of ReferenceGrants
    Gateways,    \* the names of Gateways
    GrantNs,     \* the namespace of each grant
    Specs,       \* the specifications that grants may have, "from" and "to"
    GatewayNs,   \* the namespace of the Gateways
    CertRefs,    \* the certificateRefs that a Gateway may have, in its one listener
    Secrets,     \* the Secrets
    MaxChanges,  \* bound: changes made by the user
    MaxFaults    \* bound: failed calls and crashes

ASSUME NamesAssumption == /\ IsFiniteSet(Grants) /\ IsFiniteSet(Gateways)
                          /\ Grants \cap Gateways = {}
                          /\ GrantNs \in [Grants -> STRING]
ASSUME ReferencesAssumption == Specs # {} /\ CertRefs # {}
ASSUME BoundsAssumption == MaxChanges \in Nat \ {0} /\ MaxFaults \in Nat

VARIABLES
    grant,    \* the grants at the API server
    gateway,  \* the Gateways at the API server
    seen,     \* the cached copies of both
    lags,     \* the names of what lags
    queue,    \* the names in the two work queues
    changes,  \* changes made so far
    faults,   \* failures so far
    missed,   \* history: the Gateways that nobody has told of a change, and the grants
              \* whose release has failed
    granter,  \* the worker for grants
    gatewayer \* the worker for Gateways

vars == <<grant, gateway, seen, lags, queue, changes, faults, missed, granter, gatewayer>>

Names == Grants \cup Gateways
NoSpec == [from |-> {}, to |-> {}]
NoStatus == [c \in Conditions |-> "absent"]
Statuses == [Conditions -> {"absent", "True", "False"}]
GrantObjects == [exists: BOOLEAN, deleting: BOOLEAN, held: BOOLEAN, spec: Specs \cup {NoSpec}]
GatewayObjects == [exists: BOOLEAN, refs: CertRefs \cup {<<>>}, status: Statuses]
NoGrant == [exists |-> FALSE, deleting |-> FALSE, held |-> FALSE, spec |-> NoSpec]
NoGateway == [exists |-> FALSE, refs |-> <<>>, status |-> NoStatus]
NewGateways == {[NoGateway EXCEPT !.exists = TRUE, !.refs = refs] : refs \in CertRefs}

\* A worker: its next call, the name that it is at, and what it has in hand.
Workers == [pc: {"idle", "release", "finalize", "list", "nudge", "validate", "mark"},
            at: SUBSET Names, refs: CertRefs \cup {<<>>}, status: Statuses, todo: SUBSET Gateways]
Idle == [pc |-> "idle", at |-> {}, refs |-> <<>>, status |-> NoStatus, todo |-> {}]
At(name, label) == [Idle EXCEPT !.at = {name}, !.pc = label]

Fault == faults < MaxFaults /\ faults' = faults + 1
NoFault == UNCHANGED faults

Init ==
    /\ grant = [g \in Grants |-> NoGrant]
    /\ gateway \in [Gateways -> NewGateways]
    /\ seen = [grant |-> grant, gateway |-> [w \in Gateways |-> NoGateway]]
    /\ lags = Gateways
    /\ queue = {}
    /\ changes = 0
    /\ faults = 0
    /\ missed = {}
    /\ granter = Idle
    /\ gatewayer = Idle

-----------------------------------------------------------------------------
(* The ReferenceGrantReconciler.                                           *)

\* A slip: a grant that has the finalizer has been dealt with.
ReadGrantOnce(g) ==
    /\ granter.pc = "idle"
    /\ g \in queue
    /\ queue' = queue \ {g}
    /\ granter' = CASE ~seen.grant[g].exists \/ (seen.grant[g].held /\ ~seen.grant[g].deleting) -> Idle
                    [] seen.grant[g].deleting -> At(g, "release")
                    [] OTHER -> At(g, "finalize")
    /\ UNCHANGED <<grant, gateway, seen, lags, changes, faults, missed, gatewayer>>

\* A slip: a grant with the finalizer is taken for one that is being deleted.
ReadGrantHeld(g) ==
    /\ granter.pc = "idle"
    /\ g \in queue
    /\ queue' = queue \ {g}
    /\ granter' = CASE ~seen.grant[g].exists -> Idle
                    [] seen.grant[g].held -> At(g, "release")
                    [] OTHER -> At(g, "finalize")
    /\ UNCHANGED <<grant, gateway, seen, lags, changes, faults, missed, gatewayer>>

\* A slip: the deletion is not looked at.
ReadGrantUnreleased(g) ==
    /\ granter.pc = "idle"
    /\ g \in queue
    /\ queue' = queue \ {g}
    /\ granter' = IF seen.grant[g].exists THEN At(g, "finalize") ELSE Idle
    /\ UNCHANGED <<grant, gateway, seen, lags, changes, faults, missed, gatewayer>>

ReadGrant(g) ==
    /\ granter.pc = "idle"
    /\ g \in queue
    /\ queue' = queue \ {g}
    /\ granter' = CASE ~seen.grant[g].exists -> Idle
                    [] seen.grant[g].deleting -> At(g, "release")
                    [] OTHER -> At(g, "finalize")
    /\ UNCHANGED <<grant, gateway, seen, lags, changes, faults, missed, gatewayer>>

\* The object goes with its last finalizer, and nobody tells the Gateways.
Gone(g) ==
    /\ grant' = [grant EXCEPT ![g] = NoGrant]
    /\ missed' = (missed \ {g}) \cup Gateways

\* The grant is got again from the cache.  A conflict that outlasts the retries,
\* as any failure, is logged, and the pass is over.
RemoveFinalizer(g) ==
    /\ granter.pc = "release" /\ g \in granter.at
    /\ \/ /\ g \notin lags /\ grant[g].held
          /\ NoFault /\ Gone(g)
          /\ lags' = lags \cup {g}
       \/ /\ g \in lags \/ ~grant[g].held
          /\ NoFault
          /\ UNCHANGED <<grant, lags, missed>>
       \/ /\ Fault
          /\ missed' = missed \cup {g}
          /\ UNCHANGED <<grant, lags>>
    /\ granter' = Idle
    /\ UNCHANGED <<gateway, seen, queue, changes, gatewayer>>

\* Nothing is written if the copy that was read had the finalizer; as far as it
\* matters here that copy is the cache's.
AddFinalizer(g) ==
    /\ granter.pc = "finalize" /\ g \in granter.at
    /\ \/ /\ seen.grant[g].held
          /\ granter' = At(g, "list")
          /\ NoFault
          /\ UNCHANGED <<grant, lags, queue>>
       \/ /\ ~seen.grant[g].held /\ g \notin lags /\ grant[g].exists /\ ~grant[g].deleting
          /\ grant' = [grant EXCEPT ![g].held = TRUE]
          /\ lags' = lags \cup {g}
          /\ granter' = At(g, "list")
          /\ NoFault
          /\ UNCHANGED queue
       \/ /\ ~seen.grant[g].held
          /\ \/ (g \in lags \/ ~grant[g].exists \/ grant[g].deleting) /\ NoFault
             \/ Fault
          /\ granter' = Idle
          /\ queue' = queue \cup {g}
          /\ UNCHANGED <<grant, lags>>
    /\ UNCHANGED <<gateway, seen, changes, missed, gatewayer>>

\* A slip: when there is nothing left to do the worker stays at its grant.
NudgingFor(at, todo) == [Idle EXCEPT !.pc = IF todo = {} THEN "idle" ELSE "nudge",
                                     !.at = at, !.todo = todo]

Nudging(at, todo) ==
    IF todo = {} THEN Idle ELSE [Idle EXCEPT !.pc = "nudge", !.at = at, !.todo = todo]

\* NudgeGateways lists the Gateways, and an error of that is returned.
ListGateways(g) ==
    /\ granter.pc = "list" /\ g \in granter.at
    /\ \/ /\ NoFault
          /\ granter' = Nudging({g}, {w \in Gateways : seen.gateway[w].exists})
          /\ UNCHANGED queue
       \/ /\ Fault
          /\ granter' = Idle
          /\ queue' = queue \cup {g}
    /\ UNCHANGED <<grant, gateway, seen, lags, changes, missed, gatewayer>>

\* An error of one nudge is logged, and the loop goes on.
Nudge(w) ==
    /\ granter.pc = "nudge"
    /\ w \in granter.todo
    /\ \/ /\ NoFault
          /\ lags' = lags \cup {n \in {w} : gateway[n].exists}
          /\ UNCHANGED missed
       \/ /\ Fault
          /\ missed' = missed \cup {w}
          /\ UNCHANGED lags
    /\ granter' = Nudging(granter.at, granter.todo \ {w})
    /\ UNCHANGED <<grant, gateway, seen, queue, changes, gatewayer>>

ReconcileGrant(g) == ReadGrant(g) \/ RemoveFinalizer(g) \/ AddFinalizer(g) \/ ListGateways(g)
GrantWork == (\E g \in Grants : ReconcileGrant(g)) \/ (\E w \in Gateways : Nudge(w))

-----------------------------------------------------------------------------
(* The GatewayReconciler, as far as TLS goes.                              *)

ReadGateway(w) ==
    /\ gatewayer.pc = "idle"
    /\ w \in queue
    /\ queue' = queue \ {w}
    /\ gatewayer' = IF seen.gateway[w].exists
                    THEN [At(w, "validate") EXCEPT !.refs = seen.gateway[w].refs] ELSE Idle
    /\ UNCHANGED <<grant, gateway, seen, lags, changes, faults, missed, granter>>

\* All the grants, of every namespace; one counts until it is gone, also while it is
\* being deleted.
GetGrants(grants) ==
    {[ns |-> GrantNs[g], from |-> grants[g].spec.from, to |-> grants[g].spec.to] :
        g \in {h \in Grants : grants[h].exists}}

\* The grants and the Secret are read from the cache.  A Secret that cannot be read
\* is as bad as none; nothing that fails here is tried again.
ValidGatewayTLS(w) ==
    /\ gatewayer.pc = "validate" /\ w \in gatewayer.at
    /\ \E readable \in BOOLEAN, secrets \in {Secrets, {}} :
          LET fine == readable /\ secrets = Secrets
          IN  /\ gatewayer' = [At(w, "mark") EXCEPT !.status = ListenerStatus(
                     TLSProblem(GatewayNs, gatewayer.refs, readable, GetGrants(seen.grant), secrets))]
              /\ IF fine THEN NoFault ELSE Fault
              /\ missed' = CASE ~fine                        -> missed \cup {w}
                            [] fine /\ lags \cap Grants = {} -> missed \ {w}
                            [] OTHER                         -> missed
    /\ UNCHANGED <<grant, gateway, seen, lags, queue, changes, granter>>

\* The Gateway is got again from the cache.  The conditions come in any order and
\* have the time of the pass, so that the write is an event of the Gateway even if
\* the verdict is the one that was there, but it need not be one.
UpdateStatus(w) ==
    /\ gatewayer.pc = "mark" /\ w \in gatewayer.at
    /\ \/ /\ w \notin lags /\ gateway[w].exists
          /\ NoFault
          /\ gateway' = [gateway EXCEPT ![w].status = gatewayer.status]
          /\ lags' = lags \cup {w} \/ (gateway' = gateway /\ UNCHANGED lags)
          /\ UNCHANGED queue
       \/ /\ \/ (w \in lags \/ ~gateway[w].exists) /\ NoFault
             \/ Fault
          /\ queue' = queue \cup {w}
          /\ UNCHANGED <<gateway, lags>>
    /\ gatewayer' = Idle
    /\ UNCHANGED <<grant, seen, changes, missed, granter>>

ReconcileGateway(w) == ReadGateway(w) \/ ValidGatewayTLS(w) \/ UpdateStatus(w)

-----------------------------------------------------------------------------
(* The rest of the world.                                                  *)

\* The informer sees the changes of an object, and its name is queued.
Sync(n) ==
    /\ n \in lags
    /\ lags' = lags \ {n}
    /\ queue' = queue \cup {n}
    /\ seen' = IF n \in Grants THEN [seen EXCEPT !.grant[n] = grant[n]]
               ELSE [seen EXCEPT !.gateway[n] = gateway[n]]
    /\ UNCHANGED <<grant, gateway, changes, faults, missed, granter, gatewayer>>

\* The manager dies; after the restart everything is read and queued.
Crash ==
    /\ Fault
    /\ seen' = [grant |-> grant, gateway |-> gateway]
    /\ lags' = {}
    /\ queue' = {g \in Grants : grant[g].exists} \cup {w \in Gateways : gateway[w].exists}
    /\ granter' = Idle
    /\ gatewayer' = Idle
    /\ UNCHANGED <<grant, gateway, changes, missed>>

Change(n) ==
    /\ changes < MaxChanges
    /\ changes' = changes + 1
    /\ lags' = lags \cup {n}
    /\ UNCHANGED <<seen, queue, faults, granter, gatewayer>>

\* The user creates a grant, or edits what it permits, or deletes it; if a deletion
\* overtakes an edit then nobody is told of the edit either.
EditGrant(g) ==
    /\ Change(g)
    /\ \E spec \in Specs :
          \/ /\ ~grant[g].exists
             /\ grant' = [grant EXCEPT ![g] = [NoGrant EXCEPT !.exists = TRUE, !.spec = spec]]
          \/ /\ grant[g].exists /\ ~grant[g].deleting /\ grant[g].spec # spec
             /\ grant' = [grant EXCEPT ![g].spec = spec]
    /\ UNCHANGED <<gateway, missed>>

DeleteGrant(g) ==
    /\ Change(g)
    /\ grant[g].exists /\ ~grant[g].deleting
    /\ \/ /\ grant[g].held
          /\ grant' = [grant EXCEPT ![g].deleting = TRUE]
          /\ missed' = missed \cup Gateways
       \/ ~grant[g].held /\ Gone(g)
    /\ UNCHANGED gateway

ChangeGateway(w) ==
    /\ Change(w)
    /\ IF gateway[w].exists
       THEN gateway' = [gateway EXCEPT ![w] = NoGateway]
       ELSE \E new \in NewGateways : gateway' = [gateway EXCEPT ![w] = new]
    /\ UNCHANGED <<grant, missed>>

Next ==
    \/ GrantWork
    \/ \E w \in Gateways : ReconcileGateway(w) \/ ChangeGateway(w)
    \/ \E g \in Grants : EditGrant(g) \/ DeleteGrant(g)
    \/ \E n \in Names : Sync(n)
    \/ Crash

Spec == Init /\ [][Next]_vars

\* The workers go on, informers catch up, and a Gateway in the queue gets its turn
\* although others may keep coming back.  There is no resync.
Fairness ==
    /\ WF_vars(GrantWork)
    /\ \A w \in Gateways : SF_vars(ReadGateway(w)) /\ WF_vars(ValidGatewayTLS(w) \/ UpdateStatus(w))
    /\ \A n \in Names : WF_vars(Sync(n))

FairSpec == Spec /\ Fairness

-----------------------------------------------------------------------------
(* What must hold.                                                         *)

\* Every variable stays in its type, and a worker is at one object at a time.
TypeOK ==
    /\ grant \in [Grants -> GrantObjects]
    /\ gateway \in [Gateways -> GatewayObjects]
    /\ seen \in [grant: [Grants -> GrantObjects], gateway: [Gateways -> GatewayObjects]]
    /\ lags \subseteq Names
    /\ queue \subseteq Names
    /\ changes \in 0..MaxChanges
    /\ faults \in 0..MaxFaults
    /\ missed \subseteq Names
    /\ \A w \in {granter, gatewayer} :
          w \in Workers /\ Cardinality(w.at) = IF w.pc = "idle" THEN 0 ELSE 1

\* The finalizer is taken only off a grant that is being deleted, although the copy
\* that the deletion was seen in is older than the one that is written, and the name
\* may have been given to another grant by then.
ReleasedWhenDeleted ==
    [][\A g \in Grants : grant[g].held /\ ~grant'[g].held => grant[g].deleting]_vars

\* Once the user stops, each Gateway's listener has the conditions that its
\* reference deserves, given the grants that there are ("so they're invalid at first
\* but become valid when the Grant appears").  Except for a Gateway that has not been
\* judged since a grant was deleted or disappeared, or since its nudge or its look at
\* the grants and the Secret failed.
Deserved(w) ==
    ListenerStatus(TLSProblem(GatewayNs, gateway[w].refs, TRUE, GetGrants(grant), Secrets))
Judged(w) == gateway[w].exists /\ w \notin missed => gateway[w].status = Deserved(w)
GatewaysJudged == \A w \in Gateways : <>[]Judged(w)

\* A grant whose release did not fail does not stay when it has been deleted
\* ("Remove our finalizer to ensure that we don't block the resource").
GrantsReleased == <>[](\A g \in Grants : grant[g].deleting => g \in missed)
=============================================================================
