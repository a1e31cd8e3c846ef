-------------------------------- MODULE Graph --------------------------------
(***************************************************************************)
(* The entity and relation graph (plugins/builtin/graph): the store that   *)
(* resolves names, the service and tool handlers that guard it by limits   *)
(* and denied types, and the loader of source files.                       *)
(*                                                                         *)
(* Both tables keep the order of their insertion, so they are sequences of *)
(* records; an identity is a number.  Text, metadata and confidence are    *)
(* left out.  Every handler runs without waiting, so one action is one     *)
(* tool call.                                                              *)
(***************************************************************************)
EXTENDS KeptItems, SequencesExt

CONSTANTS GraphNames,                  \* names of entities, as normalized
          AliasSets,                   \* sets of aliases a call may give
          EntityTypes, DeniedTypes,    \* "concept" is the default type
          RelationTypes,
          MaxEntities, MaxRelations,
          SourceItems,                 \* the source file: a sequence of [name, type]
          MaxGraphCalls,
          GraphDepth                   \* depths of searches that are looked at

ASSUME GraphAssumption ==
    /\ "concept" \in EntityTypes /\ AliasSets \subseteq SUBSET GraphNames
    /\ SourceItems \in Seq([name : GraphNames, type : EntityTypes])
    /\ {MaxEntities, MaxRelations, MaxGraphCalls} \subseteq Nat

VARIABLES entities, relations, graphCalls

graphVars == <<entities, relations, graphCalls>>

GraphInit == entities = <<>> /\ relations = <<>> /\ graphCalls = 0

Ids(table) == {row.id : row \in ToSet(table)}

\* The first of some places, 0 for none.
FirstPlace(I) == IF I = {} THEN 0 ELSE CHOOSE n \in I : \A m \in I : n <= m

\* A dictionary keeps the place of a key that is written again.
PutRow(table, row) ==
    LET n == FirstPlace({m \in DOMAIN table : table[m].id = row.id})
    IN IF n = 0 THEN Append(table, row) ELSE [table EXCEPT ![n] = row]

NewRow(name, type, aliases, table) ==
    [id |-> Len(table) + 1, name |-> name, type |-> type, aliases |-> aliases]

(***************************************************************************)
(* The store                                                               *)
(***************************************************************************)

\* Place of the first entity that a name, or an alias, stands for: one of
\* another type does not count when a type other than the default is asked.
StandsFor(row, name, type, aliases) ==
    /\ type # "concept" => row.type = type
    /\ \/ name = row.name \/ name \in row.aliases
       \/ aliases \cap (row.aliases \cup {row.name}) # {}
Resolved(table, name, type, aliases) ==
    FirstPlace({n \in DOMAIN table : StandsFor(table[n], name, type, aliases)})

WithEntity(table, name, type, aliases) ==
    LET n == Resolved(table, name, type, aliases)
    IN IF n = 0 THEN PutRow(table, NewRow(name, type, aliases, table))
       ELSE [table EXCEPT ![n].aliases = @ \cup aliases]

EntityOf(table, name) == table[Resolved(table, name, "concept", {})].id

WithRelation(table, source, target, type) ==
    IF \E row \in ToSet(table) : row.source = source /\ row.target = target /\ row.type = type THEN table
    ELSE PutRow(table, [id |-> Len(table) + 1, source |-> source, target |-> target, type |-> type])

\* For a mutant: relations that end at the entity are forgotten.
UnjoinedFrom(table, id) == Keeping(table, {n \in DOMAIN table : table[n].source # id})

Unjoined(table, id) == Keeping(table, {n \in DOMAIN table : id \notin {table[n].source, table[n].target}})
WithoutRow(table, id) == Keeping(table, {n \in DOMAIN table : table[n].id # id})

(***************************************************************************)
(* Tool calls                                                              *)
(***************************************************************************)

Call(n) == graphCalls + n <= MaxGraphCalls /\ graphCalls' = graphCalls + n

\* The entity is stored, then its type is looked at: a denied type is an
\* error that leaves the entity in the store.  (So it is with relations.)
GraphUpsertEntity ==
    /\ Call(1)
    /\ \E name \in GraphNames, type \in EntityTypes, aliases \in AliasSets :
         entities' = IF Len(entities) >= MaxEntities THEN entities
                     ELSE WithEntity(entities, name, type, aliases)
    /\ UNCHANGED relations

\* Both ends are stored first, whatever the limit of entities is.
GraphUpsertRelation ==
    /\ Call(1)
    /\ \E source, target \in GraphNames, type \in RelationTypes :
         LET one == WithEntity(entities, source, "concept", {})
             two == WithEntity(one, target, "concept", {})
         IN IF Len(relations) >= MaxRelations THEN UNCHANGED <<entities, relations>>
            ELSE /\ entities' = two
                 /\ relations' = WithRelation(relations, EntityOf(one, source), EntityOf(two, target), type)

GraphDeleteEntity ==
    /\ Call(1)
    /\ \E id \in Ids(entities) :
         /\ entities' = WithoutRow(entities, id)
         /\ relations' = Unjoined(relations, id)

GraphDeleteRelation ==
    /\ Call(1)
    /\ \E id \in Ids(relations) : relations' = WithoutRow(relations, id)
    /\ UNCHANGED entities

\* Items of the source are stored one by one until one is refused, and what
\* was stored stays.  Relations of the source are counted, and never stored.
LoadItem(acc, item) ==
    IF acc.failed \/ Len(acc.table) >= MaxEntities \/ item.type \in DeniedTypes
    THEN [table |-> acc.table, failed |-> TRUE]
    ELSE [table |-> WithEntity(acc.table, item.name, item.type, {}), failed |-> FALSE]
ItemsLoaded(table) ==
    LET upTo[n \in 0..Len(SourceItems)] ==
          IF n = 0 THEN [table |-> table, failed |-> FALSE] ELSE LoadItem(upTo[n - 1], SourceItems[n])
    IN  upTo
SourcesLoaded(table) == ItemsLoaded(table)[Len(SourceItems)].table

GraphReloadSources == Call(1) /\ entities' = SourcesLoaded(entities) /\ UNCHANGED relations

GraphNext == \/ GraphUpsertEntity \/ GraphUpsertRelation
             \/ GraphDeleteEntity \/ GraphDeleteRelation \/ GraphReloadSources

GraphSpec == GraphInit /\ [][GraphNext]_graphVars

(***************************************************************************)
(* Searching                                                               *)
(***************************************************************************)

RelationsFor(id) == Keeping(relations, {n \in DOMAIN relations : id \in {relations[n].source, relations[n].target}})

OtherEnd(row, id) == IF row.source = id THEN row.target ELSE row.source

Explored == [visited : SUBSET Nat, out : SUBSET ToSet(relations)]

\* Depth first from an entity, each one expanded once.
Expand[depth \in Nat, id \in Nat, acc \in Explored] ==
    IF depth = 0 \/ id \in acc.visited THEN acc
    ELSE FoldLeft(LAMBDA sofar, row : Expand[depth - 1, OtherEnd(row, id), [sofar EXCEPT !.out = @ \cup {row}]],
                  [acc EXCEPT !.visited = @ \cup {id}], RelationsFor(id))

\* The entities at most so many relations away.
Near(id, steps) ==
    FoldLeft(LAMBDA S, n : S \cup {OtherEnd(p[1], p[2]) : p \in
                                {q \in ToSet(relations) \X S : q[2] \in {q[1].source, q[1].target}}},
             {id}, [n \in 1..steps |-> n])

(***************************************************************************)
(* Properties                                                              *)
(***************************************************************************)

\* The types of the variables.
GraphTypeOK ==
    /\ \A row \in ToSet(entities) : /\ row.id \in Nat \ {0} /\ row.name \in GraphNames
                                    /\ row.type \in EntityTypes /\ row.aliases \subseteq GraphNames
    /\ \A row \in ToSet(relations) : row.id \in Nat \ {0} /\ row.type \in RelationTypes
    /\ graphCalls \in 0..MaxGraphCalls

\* Whatever was written and deleted, every relation joins two entities that
\* are in the table, no two relations say the same, no two entities have both
\* name and type in common, and identities are unique.
GraphIsSound ==
    /\ \A row \in ToSet(relations) : {row.source, row.target} \subseteq Ids(entities)
    /\ \A n, m \in DOMAIN relations : n # m =>
          /\ relations[n].id # relations[m].id
          /\ \/ relations[n].source # relations[m].source \/ relations[n].target # relations[m].target
             \/ relations[n].type # relations[m].type
    /\ \A n, m \in DOMAIN entities : n # m =>
          /\ entities[n].id # entities[m].id
          /\ entities[n].name # entities[m].name \/ entities[n].type # entities[m].type

\* Down to depth 2 a search finds every relation that starts less than that
\* depth away from the entity, and no other.  Deeper it finds no other still,
\* but may miss some: an entity that is met first at the end of a long way is
\* not expanded again when a short way leads to it.
Within(id, depth) ==
    {row \in ToSet(relations) : depth > 0 /\ {row.source, row.target} \cap Near(id, depth - 1) # {}}
SearchIsComplete ==
    \A id \in Ids(entities), depth \in GraphDepth :
        LET found == Expand[depth, id, [visited |-> {}, out |-> {}]].out
        IN  /\ found \subseteq Within(id, depth)
            /\ Within(id, IF depth > 2 THEN 2 ELSE depth) \subseteq found

\* No entity of a denied type is in the store, as "is denied" says.
DeniedStaysOut == \A row \in ToSet(entities) : row.type \notin DeniedTypes

\* A call that adds an entity takes none away.
AddingKeepsOthers ==
    [][Len(entities') >= Len(entities) => \A row \in ToSet(entities) :
          \E new \in ToSet(entities') : new.id = row.id /\ new.name = row.name]_graphVars
=============================================================================
