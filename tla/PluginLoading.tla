---------------------------- MODULE PluginLoading ----------------------------
(***************************************************************************)
(* load_plugins (plugins/loader.py): the plugins of an agent are made and  *)
(* initialized in the order of its configuration, sorted by phase and      *)
(* priority, and then brought into an order in which each comes after the  *)
(* plugins it depends on (Kahn's algorithm, which also finds circles).     *)
(*                                                                         *)
(* Phase and priority are one number, the rank, smaller first.             *)
(***************************************************************************)
EXTENDS Integers, FiniteSets, SequencesExt

CONSTANTS Configured,    \* the names of the configuration, in its order
          Registered,    \* the names the registry knows
          Ranks,
          DependsSets    \* what a plugin may depend on

ASSUME LoadAssumption ==
    Configured \in Seq(ToSet(Configured)) /\ IsInjective(Configured) /\ Ranks \subseteq Int

VARIABLES about,    \* of each name: enabled, rank, depends
          loading,  \* "plugins", "sorting", "loaded" or "failed"
          position, \* the entry of the configuration that is next
          active,   \* the plugins initialized, then sorted
          waiting,  \* the dependencies of each that are not placed yet
          ready,    \* Kahn's queue
          placed    \* the order found so far

loadVars == <<about, loading, position, active, waiting, ready, placed>>

PluginNames == ToSet(Configured)

LoadInit ==
    /\ about \in [PluginNames -> [enabled : BOOLEAN, rank : Ranks, depends : DependsSets]]
    /\ loading = "plugins" /\ position = 1 /\ active = <<>>
    /\ waiting = <<>> /\ ready = <<>> /\ placed = <<>>

\* Of some positions of q, each with those of them that do not come after
\* it: what is found there, in their order.
Listing(q, upTo) ==
    [k \in 1..Cardinality(DOMAIN upTo) |->
       q[CHOOSE i \in DOMAIN upTo : Cardinality(upTo[i]) = k]]

\* Stable: equal ranks keep their order.
NotAfter(names, n) ==
    {m \in DOMAIN names : \/ about[names[m]].rank < about[names[n]].rank
                         \/ (about[names[m]].rank = about[names[n]].rank /\ m <= n)}
ByRank(names) == Listing(names, [n \in DOMAIN names |-> NotAfter(names, n)])

\* The names that are in S, in their order.
Those(names, S) ==
    LET there == {n \in DOMAIN names : names[n] \in S}
    IN Listing(names, [n \in there |-> {m \in there : m <= n}])

Skips == /\ loading = "plugins" /\ position <= Len(Configured)
         /\ Configured[position] \in Registered
         /\ ~about[Configured[position]].enabled
         /\ position' = position + 1
         /\ UNCHANGED <<about, loading, active, waiting, ready, placed>>

Initializes == /\ loading = "plugins" /\ position <= Len(Configured)
               /\ Configured[position] \in Registered
               /\ about[Configured[position]].enabled
               /\ active' = Append(active, Configured[position])
               /\ position' = position + 1
               /\ UNCHANGED <<about, loading, waiting, ready, placed>>

\* The configuration is refused by its schema, the plugin has another name
\* or its initialize raises; or nobody registered it.
LoadFails == /\ loading = "plugins" /\ position <= Len(Configured)
             /\ loading' = "failed"
             /\ UNCHANGED <<about, position, active, waiting, ready, placed>>

\* A dependency that is not active is an error; the count of the others is
\* what Kahn's algorithm starts from.
SortStarts ==
    /\ loading = "plugins" /\ position > Len(Configured)
    /\ LET names == ByRank(active)
       IN /\ active' = names
          /\ IF \E p \in ToSet(names) : ~(about[p].depends \subseteq ToSet(names)) THEN
               /\ loading' = "failed"
               /\ UNCHANGED <<waiting, ready>>
             ELSE
               /\ loading' = "sorting"
               /\ waiting' = [p \in ToSet(names) |-> about[p].depends]
               /\ ready' = Those(names, {p \in ToSet(names) : about[p].depends = {}})
    /\ UNCHANGED <<about, position, placed>>

\* For a mutant: the queue is not sorted again.
PlaceUnsorted ==
    /\ loading = "sorting" /\ ready # <<>>
    /\ LET node == Head(ready)
       IN /\ placed' = Append(placed, node)
          /\ waiting' = [p \in DOMAIN waiting |-> waiting[p] \ {node}]
          /\ ready' = Tail(ready) \o Those(active, {p \in ToSet(active) : waiting[p] = {node}})
    /\ UNCHANGED <<about, loading, position, active>>

Place ==
    /\ loading = "sorting" /\ ready # <<>>
    /\ LET queue == ByRank(ready)
           node == Head(queue)
       IN /\ placed' = Append(placed, node)
          /\ waiting' = [p \in DOMAIN waiting |-> waiting[p] \ {node}]
          /\ ready' = Tail(queue) \o Those(active, {p \in ToSet(active) : waiting[p] = {node}})
    /\ UNCHANGED <<about, loading, position, active>>

\* For a mutant: what could not be placed is left out.
SortEndsShort ==
    /\ loading = "sorting" /\ ready = <<>>
    /\ loading' = "loaded" /\ active' = placed
    /\ UNCHANGED <<about, position, waiting, ready, placed>>

SortEnds ==
    /\ loading = "sorting" /\ ready = <<>>
    /\ IF Len(placed) = Len(active) THEN loading' = "loaded" /\ active' = placed
       ELSE loading' = "failed" /\ UNCHANGED active
    /\ UNCHANGED <<about, position, waiting, ready, placed>>

LoadNext == Skips \/ Initializes \/ LoadFails \/ SortStarts \/ Place \/ SortEnds

LoadSpec == LoadInit /\ [][LoadNext]_loadVars

\* The types of the variables.
LoadTypeOK == /\ loading \in {"plugins", "sorting", "loaded", "failed"}
              /\ position \in 1..Len(Configured) + 1
              /\ active \in Seq(PluginNames) /\ ready \in Seq(PluginNames) /\ placed \in Seq(PluginNames)
              /\ DOMAIN waiting \subseteq PluginNames

Enabled == {p \in PluginNames : about[p].enabled}

\* A set of plugins each of which waits for another of the set.
Circle(S) == S # {} /\ \A p \in S : about[p].depends \cap S # {}

PlaceOf(p) == CHOOSE n \in DOMAIN active : active[n] = p

\* The plugins of an agent are all that its configuration enables, each
\* once and after those it depends on; one that comes after a plugin of a
\* higher rank had to wait for a dependency.  There is no such list when
\* the dependencies go in a circle, and only then is sorting in vain.
PluginsInOrder ==
    /\ loading = "loaded" =>
         /\ IsInjective(active) /\ ToSet(active) = Enabled
         /\ \A p \in Enabled : \A d \in about[p].depends : PlaceOf(d) < PlaceOf(p)
         /\ \A m, n \in DOMAIN active :
               m < n /\ about[active[m]].rank > about[active[n]].rank
                 => \E d \in about[active[n]].depends : PlaceOf(d) >= m
    /\ (loading = "sorting" /\ ready = <<>>) =>
         ((Len(placed) < Len(active)) <=> \E S \in SUBSET Enabled : Circle(S))
=============================================================================
