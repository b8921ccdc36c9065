------------------------- MODULE OrganizationGraphs -------------------------
(***************************************************************************)
(* The organization of a workspace: immutable versions of its graph, one   *)
(* of them active, and the registry that says which agents may be found    *)
(* and which routes between departments are open, as                       *)
(* application/organization.py and domain/organization.py do it.           *)
(*                                                                         *)
(* A graph is what the host drafts: active departments, memberships with   *)
(* their time of effect, reporting lines and routes.  Roles matter only as *)
(* leads, capabilities and definitions of agents not at all.               *)
(***************************************************************************)
EXTENDS Naturals, Sequences, FiniteSets

CONSTANTS Agents,
          Drafts,            \* the graphs the host may draft
          MaxVersions, MaxRevision,
          MaxMemberships,    \* memberships per agent (OrganizationBounds)
          ReportingDepth,    \* length of a reporting line (OrganizationBounds)
          MaxTime

ASSUME OrganizationAssumption ==
  {MaxVersions, MaxRevision, MaxMemberships, ReportingDepth, MaxTime} \subseteq Nat

VARIABLES now,
          graph,      \* OrganizationGraph: revision (0: not created), active version (0: none)
          versions    \* OrganizationGraphVersions in order, each a draft

organizationVars == <<graph, versions>>

OrganizationInit == graph = [revision |-> 0, active |-> 0] /\ versions = <<>>

-----------------------------------------------------------------------------
Reporting(g) == {p[1] : p \in g.reports}    \* agents that have a manager

\* The walk up the managers: the agents with a manager that are reached in n steps.
Reached(g) ==
  LET up[n \in 0..ReportingDepth] ==
        IF n = 0 THEN Reporting(g)
        ELSE {p[2] : p \in {q \in g.reports : q[1] \in up[n - 1]}} \cap Reporting(g)
  IN up

\* Mutant: the bound is compared one step too late.
ReportingEndsLate(g) ==
  \A p \in g.reports : p[1] \in Reached(g)[ReportingDepth] => p[2] \notin Reporting(g)

\* A cycle never leaves the agents with a manager, a long line leaves them too late.
ReportingEnds(g) == Reached(g)[ReportingDepth] = {}

\* Checked whenever a graph version is made, published or activated.
ValidGraph(g) ==
  /\ \A a \in Agents : Cardinality({m \in g.members : m.agent = a}) <= MaxMemberships
  /\ \A d \in {m.department : m \in g.members} :
       Cardinality({m \in g.members : m.department = d /\ m.lead}) <= 1
  /\ \A p, q \in g.reports : p[1] = q[1] => p = q
  /\ \A p \in g.reports : p[1] # p[2]
  /\ ReportingEnds(g)

\* One graph per workspace.
CreateGraph ==
  /\ graph.revision = 0
  /\ graph' = [graph EXCEPT !.revision = 1]
  /\ UNCHANGED <<now, versions>>

\* Every change of the graph raises its revision and points to a stored version or none.
SaveGraph(active) ==
  /\ graph.revision \in 1..(MaxRevision - 1)
  /\ graph' = [revision |-> graph.revision + 1, active |-> active]

AddVersion(g) == Len(versions) < MaxVersions /\ versions' = Append(versions, g)

PublishGraph(g) == ValidGraph(g) /\ AddVersion(g) /\ SaveGraph(graph.active) /\ UNCHANGED now

\* Any version, also one older than the active one.
ActivateGraph(v) ==
  /\ v \in DOMAIN versions /\ ValidGraph(versions[v])
  /\ SaveGraph(v)
  /\ UNCHANGED <<now, versions>>

-----------------------------------------------------------------------------
\* DepartmentMembership.effective, in departments that are active.
MembersAt(v, at) ==
  {m \in versions[v].members :
     m.department \in versions[v].departments /\ m.from <= at /\ at < m.until}

\* AgentRegistry.query without filters.
Discoverable(v, at) == {m.agent : m \in {m \in MembersAt(v, at) : m.listed}}

DepartmentsOf(v, a, at) == {m.department : m \in {m \in MembersAt(v, at) : m.agent = a}}

\* OrganizationPolicy.allows: an explicit rule, or else only within a department.
Allows(v, s, t) ==
  LET rules == {r \in versions[v].routes : r.source = s /\ r.target = t}
  IN IF rules = {} THEN s = t ELSE \A r \in rules : r.allowed

\* require_route, between two agents.
RouteOpen(v, a, b, at) ==
  /\ {a, b} \subseteq Discoverable(v, at)
  /\ \A s \in DepartmentsOf(v, a, at), t \in DepartmentsOf(v, b, at) : Allows(v, s, t)

-----------------------------------------------------------------------------
\* The walk of the validator finds every cycle, whatever its length, and every line that is
\* too long: in each published version every group of agents has a head, who reports to
\* nobody of the group, and no line of reports has more than ReportingDepth steps.
OrganizationsAreHierarchies ==
  \A v \in DOMAIN versions :
    /\ \A group \in (SUBSET Agents) \ {{}} :
         \E head \in group : \A a \in group : <<head, a>> \notin versions[v].reports
    /\ \A line \in [0..ReportingDepth -> versions[v].reports] :
         \E n \in 1..ReportingDepth : line[n - 1][2] # line[n][1]
=============================================================================
