------------------------------- MODULE RouteStatus -------------------------------
(***************************************************************************)
(* The status of an HTTPRoute: one entry for each parent, which several    *)
(* controllers share.  markRouteConditions writes ours with Contour's      *)
(* RouteConditionsUpdate, from the current object and for the parents that *)
(* it names now, again and again while the user edits the route and other  *)
(* controllers write their own entries.                                    *)
(***************************************************************************)
EXTENDS Naturals, Sequences, SequencesExt

CONSTANTS
    Parents,      \* the Gateways that the route may name as parents
    MaxParents,   \* bound: the number of parentRefs
    MaxGeneration \* bound: edits of the route

ASSUME StatusAssumption == MaxParents \in Nat /\ MaxGeneration \in Nat \ {0}

VARIABLES
    parentRefs,   \* the route's parentRefs
    entries,      \* the entries of its status
    generation    \* the route's generation

statusVars == <<parentRefs, entries, generation>>

\* An entry names its parent's namespace or leaves it out ("named").
Entries == [parent: Parents, named: BOOLEAN, by: {"us", "others"},
            accepted: BOOLEAN, generation: 1..MaxGeneration]

\* What a loop that copies the members of T leaves of s.  (SelectSeq with a set, so
\* that it can be reasoned about.)
Keep(s, T) ==
    LET kept[i \in 0..Len(s)] ==
          IF i = 0 THEN <<>>
          ELSE IF s[i] \in T THEN Append(kept[i - 1], s[i]) ELSE kept[i - 1]
    IN  kept[Len(s)]

StatusInit ==
    /\ parentRefs \in BoundedSeq(Parents, MaxParents) \ {<<>>}
    /\ entries = <<>>
    /\ generation = 1

\* A slip: only entries without a namespace are taken for the Gateway's.
IsRefToGatewayUnnamed(entry, gw) == ~entry.named /\ entry.parent = gw

IsRefToGateway(entry, gw) == entry.named /\ entry.parent = gw

\* A slip: the others' entries go too.
CombineOurs(gw) ==
    Keep(entries, {e \in Entries : ~IsRefToGateway(e, gw) /\ e.by = "us"})

\* The entries that are not the Gateway's.
CombineConditions(gw) == Keep(entries, {e \in Entries : ~IsRefToGateway(e, gw)})

\* The entry of one Gateway comes first, the others follow.  What is said of an
\* older generation than the one that was read is written all the same, with the
\* generation of now.
Mutate(gw, accepted) ==
    <<[parent |-> gw, named |-> TRUE, by |-> "us", accepted |-> accepted,
       generation |-> generation]>> \o CombineConditions(gw)

\* For each parentRef the status is made anew from the object that was read, and
\* the last one is written.  (A route without parents has been turned away before.)
MarkRouteConditions(accepted) ==
    /\ parentRefs # <<>>
    /\ entries' = Mutate(Last(parentRefs), accepted)
    /\ UNCHANGED <<parentRefs, generation>>

\* The user changes the parents.
EditParents ==
    /\ generation < MaxGeneration
    /\ generation' = generation + 1
    /\ parentRefs' \in BoundedSeq(Parents, MaxParents) \ {<<>>, parentRefs}
    /\ UNCHANGED entries

\* Another controller has one entry for each of its Gateways.
OtherMarks(gw) ==
    /\ \E named, accepted \in BOOLEAN :
          entries' = Append(Keep(entries, {e \in Entries : e.parent # gw \/ e.by = "us"}),
                            [parent |-> gw, named |-> named, by |-> "others",
                             accepted |-> accepted, generation |-> generation])
    /\ UNCHANGED <<parentRefs, generation>>

StatusNext ==
    \/ \E accepted \in BOOLEAN : MarkRouteConditions(accepted)
    \/ EditParents
    \/ \E gw \in Parents : OtherMarks(gw)

-----------------------------------------------------------------------------
(* What must hold.                                                         *)

\* However often the route is marked and its parents change, the status has at most
\* one entry of ours for each Gateway, so that readers do not find two verdicts.
OneEntryEach ==
    \A i, j \in DOMAIN entries :
       entries[i].by = "us" /\ entries[j].by = "us" /\ entries[i].parent = entries[j].parent
          => i = j

\* Marking the route takes nothing from other controllers, but what they said of the
\* Gateway that is marked, and keeps what is theirs in order.
Theirs(s, gw) == Keep(s, {e \in Entries : e.by = "others" /\ e.parent # gw})
OthersKept ==
    [][(\E accepted \in BOOLEAN : MarkRouteConditions(accepted)) =>
          Theirs(entries', Last(parentRefs)) = Theirs(entries, Last(parentRefs))]_statusVars
=============================================================================
