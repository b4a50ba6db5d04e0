----------------------------- MODULE ServiceTree -----------------------------
(***************************************************************************)
(* The service tree made from the estate (sli/tree.ts): business services, *)
(* then sites by device class, WAN legs under their paths, with the live   *)
(* status of the problems open now.  A problem is its severity; figures    *)
(* are SliFigures', and names, labels and order are left out.              *)
(***************************************************************************)
EXTENDS Integers, Sequences, FiniteSets, SequencesExt, FiniteSetsExt

CONSTANTS
  HostIds,        \* places in the report's list of hosts
  HostKinds,      \* [class, site, path]: NoSite and NoPath when the name does not say
  SeverityLists,  \* of the problems open on a host, worst first
  Checks,         \* sets of web checks
  Shown           \* problems a node lists: 5

ASSUME TreeAssumption ==
  /\ HostIds \subseteq Nat /\ IsFiniteSet(HostIds) /\ \A c \in Checks : IsFiniteSet(c)
  /\ SeverityLists \subseteq Seq(Nat) /\ Shown \in Nat \ {0}
  /\ \A k \in HostKinds : k.path # "none" => k.class = "wan-link"  \* `INET :', both

VARIABLES estate, tree
treeVars == <<estate, tree>>

NoSite == 0
NoPath == "none"
NoProblem == -1

HostsAre(kinds) == {h \in HostIds : estate.hosts[h] \in kinds}
Business == {k \in HostKinds : k.class \in {"web", "server"}}

\* The worst of some problems, worst first.
Insert(sorted, s) == InsertAt(sorted, Cardinality({n \in 1..Len(sorted) : sorted[n] >= s}) + 1, s)
WorstOf(severities) ==
  LET sorted == FoldLeft(Insert, <<>>, severities)
  IN SubSeq(sorted, 1, Min({Shown, Len(sorted)}))

-----------------------------------------------------------------------------
(* Nodes.  `ids' are of all below; `nodes' of all below and itself, with   *)
(* their status.                                                           *)

\* finish, and count, which adds up over the children.
Plus(n, m) == n + m
Finished(id, status, own, children) ==
  LET kids == SetToSeq(children)
      each == 1..Cardinality(children)
  IN [id |-> id, kids |-> {c.id : c \in children},
      worst |-> Max({status} \cup {c.worst : c \in children}),
      below |-> UNION {c.below \cup {c.id} : c \in children},
      nodes |-> FoldLeft(Plus, 1, [n \in each |-> kids[n].nodes]),
      degraded |-> FoldLeft(Plus, IF status >= 0 THEN 1 ELSE 0, [n \in each |-> kids[n].degraded]),
      problems |-> IF own # <<>> THEN own ELSE WorstOf(FlattenSeq([n \in each |-> kids[n].problems]))]

\* hostNode
HostNode(h) ==
  LET open == WorstOf(estate.problems[h])
  IN Finished(<<"host", h>>, IF open = <<>> THEN NoProblem ELSE open[1], open, {})

\* groupNode
Group(id, children) == Finished(id, NoProblem, <<>>, children)

HostNodes(hosts) == {HostNode(h) : h \in hosts}

\* buildWanPaths: a path is at the site of its first leg, wherever the others are.
Legs(path) == HostsAre({k \in HostKinds : k.path = path})
FirstLeg(path) == Min(Legs(path))
PathsAt(site) ==
  {path \in {estate.hosts[h].path : h \in HostIds} \ {NoPath} :
     estate.hosts[FirstLeg(path)].site = site}

\* The WAN links of a site: under their paths, and those that are of none.
\*
\* Fault: those of a path as well.
WanChildren_AllLoose(site, members) ==
  {Group(<<"wan", path>>, HostNodes(Legs(path) \cap members)) : path \in PathsAt(site)}
  \cup HostNodes(members)

WanChildren(site, members) ==
  {Group(<<"wan", path>>, HostNodes(Legs(path) \cap members)) : path \in PathsAt(site)}
  \cup HostNodes({h \in members : estate.hosts[h].path = NoPath})

ClassNode(site, class) ==
  LET members == HostsAre({k \in HostKinds \ Business : k.site = site /\ k.class = class})
  IN Group(<<"class", site, class>>,
           IF class = "wan-link" THEN WanChildren(site, members) ELSE HostNodes(members))

SiteNode(site) ==
  LET classes == {estate.hosts[h].class : h \in HostsAre({k \in HostKinds \ Business : k.site = site})}
  IN Group(<<"site", site>>, {ClassNode(site, class) : class \in classes})

BusinessNode ==
  Group(<<"business">>,
        {Finished(<<"web", w>>, NoProblem, <<>>, {}) : w \in estate.checks} \cup HostNodes(HostsAre(Business)))

Unassigned == HostsAre({k \in HostKinds \ Business : k.site = NoSite})

\* buildDerivedTree
EstateTree ==
  LET sites == {estate.hosts[h].site : h \in HostIds \ HostsAre(Business)} \ {NoSite}
  IN Group(<<"estate">>,
       {SiteNode(site) : site \in sites}
       \cup (IF Unassigned # {} THEN {Group(<<"unassigned">>, HostNodes(Unassigned))} ELSE {})
       \cup (IF estate.checks # {} \/ HostsAre(Business) # {} THEN {BusinessNode} ELSE {}))

-----------------------------------------------------------------------------
TreeInit ==
  /\ estate \in [hosts : [HostIds -> HostKinds], problems : [HostIds -> SeverityLists], checks : Checks]
  /\ tree = <<>>

BuildTree ==
  /\ tree = <<>>
  /\ tree' = <<EstateTree>>
  /\ UNCHANGED estate

TreeSpec == TreeInit /\ [][BuildTree]_treeVars

-----------------------------------------------------------------------------
\* A leg whose own site is not that of its path: a name may say another site
\* than the first leg's (the provider in it may name one), and then its site
\* has no such path (tree.ts:218) and does not list it loose either (:226).
Lost ==
  {h \in HostIds : LET k == estate.hosts[h]
                   IN k.path # NoPath /\ k.site \notin {NoSite, estate.hosts[FirstLeg(k.path)].site}}

\* The tree is a tree of the estate: every web check is in it, and every host
\* wherever its name puts it, but for the legs that are lost, which are not; the
\* count of nodes, which the page shows, counts none twice; the root's worst is
\* the worst problem open on any host of the tree, its list the worst of all,
\* though every level passes on no more than it shows, and the degraded nodes
\* are the hosts of the tree with a problem.
WholeEstateOnce ==
  tree # <<>> =>
    LET root == tree[1]
        there == HostIds \ Lost
        all == FlattenSeq([n \in 1..Cardinality(there) |-> estate.problems[SetToSeq(there)[n]]])
        troubled == {h \in there : estate.problems[h] # <<>>}
    IN /\ \A h \in HostIds : <<"host", h>> \in root.below <=> h \in there
       /\ {<<"web", w>> : w \in estate.checks} \subseteq root.below
       /\ root.nodes = Cardinality(root.below) + 1
       /\ root.degraded = Cardinality(troubled)
       /\ root.problems = WorstOf(all)
       /\ root.worst = IF all = <<>> THEN NoProblem ELSE Max({all[n] : n \in 1..Len(all)})
=============================================================================
