------------------------------ MODULE OrgChart ------------------------------
(***************************************************************************)
(* The organisation chart under reparenting, offboarding, absorption and   *)
(* hiring (org-restructure-service.ts, org-chart-service.ts), and the      *)
(* escalations that climb it (escalation-service.ts).  A request checks    *)
(* the chart with statements of its own and then writes; other requests    *)
(* may have written in between.                                            *)
(***************************************************************************)
EXTENDS Naturals, Sequences, FiniteSets

CONSTANTS
    Staff,           \* digital workers
    Companies,
    FirstBoss,       \* Staff -> Staff \cup {NoBoss}: the charts at the start
    FirstCompany,    \* Staff -> Companies
    Newcomers,       \* workers that are hired later
    Raiser,          \* the worker who holds the task that is escalated
    Changes,         \* requests that change the chart at a time
    Answers,         \* requests that answer an escalation at a time
    NoBoss,
    MaxDepth,        \* MAX_DEPTH
    MaxEscalations,  \* bound of the model
    MaxWrites        \* bound of the model: changes of the chart

\* The members form one tree under the manager relation b: the managers of all but
\* one of them are members too, and everybody is below that one.
IsTree(members, b) ==
    \E r \in members :
        /\ b[r] = NoBoss
        /\ \A w \in members \ {r} : b[w] \in members
        /\ \A S \in SUBSET members : r \in S /\ (\A w \in members : b[w] \in S => w \in S) => S = members

FirstMembers(c) == {w \in Staff \ Newcomers : FirstCompany[w] = c}

ASSUME OrgChartAssumption ==
    /\ FirstBoss \in [Staff -> Staff \cup {NoBoss}]
    /\ FirstCompany \in [Staff -> Companies]
    /\ Newcomers \subseteq Staff /\ Raiser \in Staff \ Newcomers
    /\ NoBoss \notin Staff
    /\ \A c \in Companies : FirstMembers(c) # {} => IsTree(FirstMembers(c), FirstBoss)
    /\ MaxDepth \in Nat /\ MaxEscalations \in Nat /\ MaxWrites \in Nat

VARIABLES
    boss,         \* reporting_edges: the manager of each worker
    employment,   \* employment_status
    company,      \* org_id of the worker and its edge
    change,       \* requests between check and write: the rows they will write
    version,      \* number of changes made to the chart
    raced,        \* history: a request wrote after the chart it checked had changed
    escalations,  \* org_escalations, in order of insertion
    answering        \* requests between requirePending and the conditional update

chartVars == <<boss, employment, company, change, version, raced>>
escalationVars == <<escalations, answering>>
orgChartVars == <<chartVars, escalationVars>>

NoEdges == [w \in {} |-> NoBoss]
IdleChange == [busy |-> FALSE, seen |-> 0, edges |-> NoEdges, leaves |-> {}, from |-> {}, to |-> NoBoss]
IdleAnswer == [esc |-> 0, status |-> "none", boss |-> NoBoss]

OrgChartInit ==
    /\ boss = FirstBoss
    /\ employment = [w \in Staff |-> IF w \in Newcomers THEN "absent" ELSE "active"]
    /\ company = FirstCompany
    /\ change = [x \in Changes |-> IdleChange]
    /\ version = 0
    /\ raced = FALSE
    /\ escalations = <<>>
    /\ answering = [x \in Answers |-> IdleAnswer]
-----------------------------------------------------------------------------
(* The chart *)

Members(c) == {w \in Staff : employment[w] # "absent" /\ company[w] = c}
Reports(w) == {v \in Members(company[w]) : boss[v] = w}
InOffice(w) == employment[w] = "active"

\* isInSubtree, breadth first: v is in whatever holds w and all reports of its own.
InSubtree(w, v) ==
    \A S \in SUBSET Staff : w \in S /\ (\A u \in S : Reports(u) \subseteq S) => v \in S

CanReparent_AnyEmployment(w, m) ==
    {w, m} \subseteq Members(company[w]) /\ w # m /\ ~InSubtree(w, m)
CanReparent(w, m) ==
    /\ {w, m} \subseteq Members(company[w])
    /\ w # m /\ InOffice(m)
    /\ ~InSubtree(w, m)

Check(x, edges, leaves, from, to) ==
    /\ ~change[x].busy
    /\ version < MaxWrites
    /\ change' = [change EXCEPT ![x] = [busy |-> TRUE, seen |-> version, edges |-> edges,
                                        leaves |-> leaves, from |-> from, to |-> to]]
    /\ UNCHANGED <<boss, employment, company, version, raced, escalationVars>>

Reparent(x, w, m) ==
    /\ CanReparent(w, m)
    /\ Check(x, [v \in {w} |-> m], {}, {}, NoBoss)

\* The reports go to m, who may not be below any of them; m may be w itself.
OffboardAndReassign(x, w, m) ==
    /\ employment[w] # "absent" /\ boss[w] # NoBoss
    /\ \A v \in Reports(w) : CanReparent(v, m)
    /\ Check(x, [v \in Reports(w) |-> m], {w}, {}, NoBoss)

RootOf(c) == {w \in Members(c) : boss[w] = NoBoss}
Absorb(x, c, m) ==
    /\ employment[m] = "active" /\ c # company[m]
    /\ \E r \in RootOf(c) : Check(x, [v \in {r} |-> m], {}, {c}, company[m])

\* The write: updates by worker id and organisation.
Write(x) ==
    LET r == change[x]
        moved == {w \in Staff : company[w] \in r.from} IN
    /\ r.busy /\ version < MaxWrites
    /\ boss' = [w \in Staff |-> IF w \in DOMAIN r.edges THEN r.edges[w] ELSE boss[w]]
    /\ employment' = [w \in Staff |-> IF w \in r.leaves THEN "offboarded" ELSE employment[w]]
    /\ company' = [w \in Staff |-> IF w \in moved THEN r.to ELSE company[w]]
    /\ raced' = (raced \/ r.seen # version)
    /\ version' = version + 1
    /\ change' = [change EXCEPT ![x] = IdleChange]
    /\ UNCHANGED escalationVars

\* hireWorker: the manager has to exist, in whatever employment.
HireUnder(w, m) == w \in Newcomers /\ employment[w] = "absent" /\ employment[m] # "absent"
Hire(w, m) ==
    /\ HireUnder(w, m) /\ version < MaxWrites
    /\ boss' = [boss EXCEPT ![w] = m]
    /\ employment' = [employment EXCEPT ![w] = "active"]
    /\ company' = [company EXCEPT ![w] = company[m]]
    /\ version' = version + 1
    /\ UNCHANGED <<change, raced, escalationVars>>
-----------------------------------------------------------------------------
(* Escalation *)

Escalation(from, to, parent, depth) ==
    [from |-> from, to |-> to, parent |-> parent, depth |-> depth, status |-> "pending"]

Raise ==
    /\ Len(escalations) < MaxEscalations
    /\ boss[Raiser] # NoBoss
    /\ escalations' = Append(escalations, Escalation(Raiser, boss[Raiser], 0, 0))
    /\ UNCHANGED <<chartVars, answering>>

IsPending(n) == escalations[n].status = "pending"

\* resolve by the addressee, cancel by the raiser, reescalate by the addressee
\* while there is a manager and the chain may grow.
StartAnswer(x, n, status) ==
    LET e == escalations[n] IN
    /\ answering[x] = IdleAnswer
    /\ IsPending(n)
    /\ status = "reescalated" => e.depth + 1 <= MaxDepth /\ boss[e.to] # NoBoss
    /\ answering' = [answering EXCEPT ![x] = [esc |-> n, status |-> status, boss |-> boss[e.to]]]
    /\ UNCHANGED <<chartVars, escalations>>

\* transitionEscalationIfPending
Answerable(n) == IsPending(n)

GiveAnswer(x) ==
    LET a == answering[x]
        e == escalations[a.esc]
        closed == [escalations EXCEPT ![a.esc].status = a.status] IN
    /\ a # IdleAnswer
    /\ Len(escalations) < MaxEscalations \/ a.status # "reescalated"
    /\ escalations' = IF ~Answerable(a.esc) THEN escalations
                      ELSE IF a.status = "reescalated"
                      THEN Append(closed, Escalation(e.to, a.boss, a.esc, e.depth + 1))
                      ELSE closed
    /\ answering' = [answering EXCEPT ![x] = IdleAnswer]
    /\ UNCHANGED chartVars

ChartNext ==
    \/ \E x \in Changes :
          \/ \E w, m \in Staff : Reparent(x, w, m) \/ OffboardAndReassign(x, w, m)
          \/ \E c \in Companies, m \in Staff : Absorb(x, c, m)
          \/ Write(x)
    \/ \E w, m \in Staff : Hire(w, m)

EscalationNext ==
    \/ Raise
    \/ \E x \in Answers :
          \/ \E n \in 1 .. Len(escalations), status \in {"resolved", "reescalated", "cancelled"} :
                StartAnswer(x, n, status)
          \/ GiveAnswer(x)

OrgChartNext == ChartNext \/ EscalationNext
OrgChartSpec == OrgChartInit /\ [][OrgChartNext]_orgChartVars
-----------------------------------------------------------------------------
(* Properties *)

\* However reparentings, offboardings, mergers and hires follow each other, every
\* organisation is one tree: a single root above all its workers, all of them its
\* own.  Only a request that writes on a chart that changed since it checked can
\* break this.
OneTreePerCompany ==
    raced \/ \A c \in Companies : Members(c) # {} => IsTree(Members(c), boss)

\* An escalation is answered once: it has a successor exactly when it was
\* escalated further, and then one, addressed to somebody by its addressee.
AnsweredOnce ==
    \A n \in 1 .. Len(escalations) :
        Cardinality({k \in 1 .. Len(escalations) :
            escalations[k].parent = n /\ escalations[k].from = escalations[n].to
                                      /\ escalations[k].depth = escalations[n].depth + 1})
        = IF escalations[n].status = "reescalated" THEN 1 ELSE 0

UnderOffice(w) == boss[w] = NoBoss \/ InOffice(boss[w])
OntoTheLeaver(w) ==
    \E x \in Changes : w \in DOMAIN change[x].edges /\ change[x].edges[w] \in change[x].leaves

\* No worker in office is left under a manager who is not: offboarding hands every
\* report to somebody in office.  Exempt are writes on a changed chart and an
\* offboarding that names the leaving worker as the successor.
NobodyOrphaned ==
    [][<<boss, employment>>' # <<boss, employment>> =>
        \A w \in Staff : UnderOffice(w) /\ InOffice(w) /\ InOffice(w)'
            => UnderOffice(w)' \/ raced' \/ OntoTheLeaver(w)]_chartVars

\* The chart stays whole under concurrent changes: one tree per company, nobody
\* under a manager who left, and one line of answers per escalation.
ChartStaysWhole == []OneTreePerCompany /\ []AnsweredOnce /\ NobodyOrphaned
=============================================================================
