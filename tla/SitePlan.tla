------------------------------ MODULE SitePlan ------------------------------
(***************************************************************************)
(* The plan of a portable site: what portable_plan.validate() accepts, and *)
(* the plan that portable_wizard.prepare() makes from a reserved /16 and a *)
(* first guest number.  Addresses are numbers.                             *)
(*                                                                         *)
(* An address is a /16 and a host in it; validate() admits no subnet that  *)
(* is wider.  Names, resources, the Proxmox section and the durations keep *)
(* the example's values, which are acceptable, and are left out.           *)
(***************************************************************************)
EXTENDS Integers

\* The largest guest number.
LastId == 999999999

CONSTANTS
    Bases,          \* the /16 networks an operator may reserve, by their first two bytes
    FirstIds        \* the first guest numbers

ASSUME BasesAssumption == Bases \subseteq Nat
ASSUME FirstIdsAssumption == FirstIds \subseteq Nat

VARIABLE
    plan            \* the plan that is shown, with the question's answers

Zones == {"management", "staff", "frontend", "applications", "partner"}
Roles == {"edge", "dns", "nginx", "chat", "files", "partner"}

Zone == [edge |-> "management", dns |-> "frontend", nginx |-> "frontend",
         chat |-> "applications", files |-> "applications", partner |-> "partner"]

\* 10.0.0.0/8, 172.16.0.0/12 and 192.168.0.0/16
PRIVATE == 2560..2815 \union 44048..44063 \union {49320}

Overlaps(m, n) == m.base = n.base /\ m.low <= n.high /\ n.low <= m.high
Usable(a, n) == a.base = n.base /\ n.low < a.host /\ a.host < n.high

Valid(p) ==
    /\ \A z \in Zones : p.net[z].base \in PRIVATE /\ p.net[z].high < 65536
    /\ \A z \in Zones : Usable(p.gateway[z], p.net[z])
    /\ \A y, z \in Zones : y # z => ~Overlaps(p.net[y], p.net[z])
    /\ \A r \in Roles : 100 <= p.id[r] /\ p.id[r] <= LastId
    /\ \A r \in Roles : Usable(p.address[r], p.net[Zone[r]])
    /\ \A r \in Roles, z \in Zones : p.address[r] # p.gateway[z]
    /\ \A q, r \in Roles : q # r => p.id[q] # p.id[r] /\ p.address[q] # p.address[r]

ZoneIndex == [management |-> 1, staff |-> 2, frontend |-> 3, applications |-> 4, partner |-> 5]
RoleIndex == [edge |-> 0, dns |-> 1, nginx |-> 2, chat |-> 3, files |-> 4, partner |-> 5]

\* A plausible mistake: one offset for every guest of a zone.
OffsetSame == [edge |-> 2, dns |-> 10, nginx |-> 10, chat |-> 10, files |-> 10, partner |-> 10]
Offset == [edge |-> 2, dns |-> 10, nginx |-> 11, chat |-> 10, files |-> 11, partner |-> 10]

\* Ten /24 apart, the gateway first.
ZoneStart(z) == ZoneIndex[z] * 2560
Prepared(base, first) ==
    [net |-> [z \in Zones |-> [base |-> base, low |-> ZoneStart(z), high |-> ZoneStart(z) + 255]],
     gateway |-> [z \in Zones |-> [base |-> base, host |-> ZoneStart(z) + 1]],
     id |-> [r \in Roles |-> first + RoleIndex[r]],
     address |-> [r \in Roles |-> [base |-> base, host |-> ZoneStart(Zone[r]) + Offset[r]]]]

PlanInit == plan = [base |-> 2636, first |-> 201, shown |-> FALSE]

\* The wizard asks, and shows only a plan that is accepted.
Prepare(base, first) ==
    plan' = [base |-> base, first |-> first, shown |-> Valid(Prepared(base, first))]

PlanNext == \E base \in Bases, first \in FirstIds : Prepare(base, first)

PlanSpec == PlanInit /\ [][PlanNext]_plan

-----------------------------------------------------------------------------

\* The layout the wizard makes is never what validation refuses: any private /16 and any
\* number that leaves room for six guests gives disjoint subnets, usable gateways and guests
\* with addresses of their own in their zones.
LayoutValid ==
    plan.base \in PRIVATE /\ 100 <= plan.first /\ plan.first + 5 <= LastId
        => Valid(Prepared(plan.base, plan.first))
=============================================================================
