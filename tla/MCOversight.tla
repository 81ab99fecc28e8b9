---------------------------- MODULE MCOversight -----------------------------
(* An instance of Oversight small enough for TLC. *)
EXTENDS Oversight

CONSTANTS s1, s2

(* An archived expedition e1 with a mission, two teams and a person; a second *)
(* one with a team of its own.  p2, m2 and w2 may be created.                 *)
Active ==
    [p1 |-> [expedition |-> "e1", team |-> "t1", role |-> "scientist",
             readiness |-> "READY", movement |-> "AT_STATION"],
     p2 |-> NoRow,
     p3 |-> [expedition |-> "e2", team |-> "t2", role |-> "guide",
             readiness |-> "NOT_CLEARED", movement |-> "NOT_DEPLOYED"],
     t1 |-> [expedition |-> "e1", leader |-> "p1", mission |-> "m1", status |-> "READY"],
     t2 |-> [expedition |-> "e2", leader |-> "p3", mission |-> None, status |-> "DEPLOYED"],
     t3 |-> [expedition |-> "e1", leader |-> "p1", mission |-> "m1", status |-> "FORMING"],
     m1 |-> [expedition |-> "e1", status |-> "SCHEDULED", type |-> "TRAVERSE", requiredBy |-> 5],
     m2 |-> NoRow,
     e1 |-> [status |-> "ARCHIVED"],
     e2 |-> [status |-> "PLANNED"],
     w1 |-> [subject |-> "m1", status |-> "OPEN", openAt |-> 1, closeAt |-> 5],
     w2 |-> NoRow]

(* A start without missions, where e1 and t3 are to be created and a window moves. *)
Opening ==
    [Active EXCEPT !.e1 = NoRow, !.p1 = NoRow, !.t1 = NoRow, !.t3 = NoRow, !.m1 = NoRow,
                   !.w1 = [subject |-> "ridge", status |-> "FORECAST", openAt |-> 1, closeAt |-> 4]]

Seeds == {Active, Opening}

Additions ==
    {[id |-> "p2", row |-> [expedition |-> "e1", team |-> "t1", role |-> "guide",
                            readiness |-> "NOMINATED", movement |-> "AT_STATION"]],
     [id |-> "t3", row |-> [expedition |-> "e2", leader |-> "p3", mission |-> None,
                            status |-> "FORMING"]],
     [id |-> "m2", row |-> [expedition |-> "e1", status |-> "PROPOSED", type |-> "STATION_WORK",
                            requiredBy |-> NoDeadline]],
     [id |-> "e1", row |-> [status |-> "DRAFT"]],
     [id |-> "w2", row |-> [subject |-> "m1", status |-> "FORECAST", openAt |-> 3, closeAt |-> 6]]}

Asks ==
    {[id |-> "p1", set |-> [readiness |-> "UNAVAILABLE", movement |-> "FIELD"]],
     [id |-> "p1", set |-> [team |-> "t3"]],
     [id |-> "p1", set |-> [team |-> "t2"]],
     [id |-> "t1", set |-> [status |-> "DEPLOYED", leader |-> "p2"]],
     [id |-> "m1", set |-> [status |-> "BLOCKED", requiredBy |-> 3]],
     [id |-> "m1", set |-> [status |-> "COMPLETED", requiredBy |-> 6]],
     [id |-> "e2", set |-> [status |-> "MOBILIZATION"]],
     [id |-> "w1", set |-> [openAt |-> 4]],
     [id |-> "w1", set |-> [closeAt |-> 3, status |-> "CLOSED"]]}

Supplies ==
    [a1 |-> {[status |-> "IN_USE"]},
     a2 |-> {NoRow},
     c1 |-> {[eta |-> 3, requiredBy |-> 4], [eta |-> 5, requiredBy |-> 4]},
     l1 |-> {[at |-> "ridge", item |-> "fuel", onHand |-> 2, reserved |-> 1,
              runway |-> "AT_RISK"]},
     l2 |-> {[at |-> "ridge", item |-> "food", onHand |-> 3, reserved |-> 0,
              runway |-> "NO_CONSUMPTION_OBSERVED"]},
     d1 |-> {[status |-> "APPROVED"]},
     g1 |-> {[status |-> "PLANNED"]}]

Stock == {[s \in DOMAIN Supplies |-> CHOOSE row \in Supplies[s] : TRUE]}

Rule(rule, subject, hard) ==
    [rule |-> rule, subject |-> subject, hard |-> hard, active |-> TRUE, asset |-> None,
     document |-> None, item |-> None, floor |-> 2, roles |-> {"guide"}, deadline |-> NoDeadline,
     hours |-> 0, maxHours |-> 0]

Constraints ==
    [DEADLINE  |-> Rule("MISSION_REQUIRED_BY", "m1", TRUE),
     RESOURCES |-> [Rule("MISSION_RESOURCE_REQUIRED", "m1", TRUE) EXCEPT !.asset = "a1"],
     SLOT      |-> Rule("TIME_WINDOW", "m1", FALSE),
     STAFF     |-> Rule("PERSONNEL_STAFFING", "t1", FALSE),
     ETA       |-> Rule("CARGO_ETA_DEADLINE", "c1", TRUE),
     SERVICE   |-> Rule("ASSET_AVAILABILITY", "a1", TRUE),
     FUEL      |-> [Rule("INVENTORY_AVAILABILITY", "ridge", TRUE) EXCEPT !.item = "fuel"],
     ACCESS    |-> Rule("LOCATION_ACCESS", "ridge", FALSE),
     PERMIT    |-> [Rule("DOCUMENT_VALIDITY", "e1", TRUE) EXCEPT !.document = "d1"],
     CAPACITY  |-> Rule("TRANSPORT_CAPACITY", "g1", TRUE),
     RUNWAY    |-> Rule("RESOURCE_RUNWAY_HORIZON", "l1", TRUE),
     RETIRED   |-> [Rule("PERSONNEL_STAFFING", "t1", TRUE) EXCEPT !.active = FALSE],
     NOVEL     |-> Rule("SEA_ICE", "g1", FALSE)]

Edge(from, rel, to) == [from |-> from, rel |-> rel, to |-> to]

(* A tree; and a graph with a cycle, a loop, parallel edges and a long chain. *)
Tables ==
    {<<Edge("m1", "REQUIRES", "t3"), Edge("t1", "ASSIGNED_TO", "m1"), Edge("m1", "REQUIRES", "a2"),
       Edge("l1", "LOCATED_AT", "ridge"), Edge("m1", "USES", "l1")>>,
     <<Edge("t1", "ASSIGNED_TO", "m1"), Edge("m1", "REQUIRES", "t1"), Edge("t1", "USES", "t1"),
       Edge("a1", "USES", "l1"), Edge("m1", "REQUIRES", "a1"), Edge("l1", "LOCATED_AT", "ridge"),
       Edge("ridge", "SERVED_BY", "g1"), Edge("g1", "CARRIES", "c1"), Edge("c1", "FOR", "e1"),
       Edge("e1", "OWNS", "d1"), Edge("ridge", "SUPPLIES", "a1")>>}

Scopes ==
    {[kind |-> "safety", root |-> "e1", depth |-> 0],
     [kind |-> "mission", root |-> "m1", depth |-> 0],
     [kind |-> "expedition", root |-> "e1", depth |-> 0],
     [kind |-> "impact", root |-> "t1", depth |-> 2],
     [kind |-> "impact", root |-> "ridge", depth |-> 2]}

Symmetry == Permutations(Session)
=============================================================================
