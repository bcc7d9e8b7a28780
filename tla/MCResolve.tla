----------------------------- MODULE MCResolve ------------------------------
(* The three archetypes of data/templates over the people of org.json near *)
(* the agent, and what the tests make of a template: a selector nobody     *)
(* fits, weights off by a hair; with it a grader that names someone who is *)
(* not activated, slots with a rule between them that can and that cannot  *)
(* be met, and a rule about an alias that is bound later.                  *)
EXTENDS Resolve, TLC

Person(role, tier, boss, pack) ==
  [role |-> role, tier |-> tier, boss |-> boss, pack |-> pack]

MCPeople ==
  "org.ceo"   :> Person("other", "reference", "none", FALSE) @@
  "org.cto"   :> Person("cto", "active", "org.ceo", TRUE) @@
  "org.pm_a"  :> Person("pm", "agent", "org.cto", FALSE) @@
  "org.fe_a1" :> Person("frontend", "active", "org.pm_a", TRUE) @@
  "org.pm_b"  :> Person("pm", "active", "org.cto", TRUE) @@
  "org.fs_b1" :> Person("fullstack", "active", "org.pm_b", TRUE) @@
  "org.be_b2" :> Person("backend", "active", "org.pm_b", TRUE) @@
  "org.be_b3" :> Person("backend", "active", "org.pm_b", TRUE) @@
  "org.designer" :> Person("designer", "active", "org.cto", TRUE) @@
  "org.sre"   :> Person("sre", "active", "org.cto", FALSE)

MCDotted == DOMAIN MCPeople \cup {"proj.checkout", "blocker.psp_cert"}

\* Tokens, rules and conditions.
Id(alias) == <<alias, "id">>
Mgr(alias) == <<alias, "mgr">>
Lit(text) == <<text, "lit">>
Always == {}
IsValue(slot, value) == {[slot |-> slot, value |-> value]}
Free == {}
Not(rhs) == {[rhs |-> rhs, eq |-> FALSE]}
Value(name, values) == [name |-> name, values |-> values, rule |-> {}]
Role(roles) == [kind |-> "role", roles |-> roles]
Projects == [kind |-> "projects", roles |-> {}]
Reports == [kind |-> "reports", roles |-> {}]
Entity(name, alias, from, rule) ==
  [name |-> name, alias |-> alias, from |-> from, rule |-> rule, when |-> Always, into |-> "ids"]
Task(id, owner, class) ==
  [id |-> id, owner |-> owner, project |-> Id("critical_project"), class |-> class]
Block(id, class, surfaced, overlays) ==
  [id |-> id, known |-> {Id("holder")}, class |-> class, surfaced |-> surfaced,
   overlays |-> overlays]
Says(from, when) == [from |-> from, when |-> when]
Lays(who, when, reveals) == [who |-> who, when |-> when, reveals |-> reveals]
Shape(w, refs) == [w |-> w, refs |-> refs]
Check(kind, of, eq) == [kind |-> kind, of |-> of, eq |-> eq]

Secretive == << Lays(Id("holder"), "always", "blocker.psp_cert"),
                Lays(Id("stakeholder"), "always", ""),
                Lays(Id("pointer"), "has_pointer", "") >>
Open == << Lays(Id("holder"), "always", ""), Lays(Id("stakeholder"), "always", "") >>

Hidden == [
  name |-> "hidden-critical-blocker",
  samples |-> << Value("blocker.type", {"pci_cert", "vendor_slip"}),
                 Value("discovery.hops", {1, 2}),
                 Value("distractor_blockers", 0 .. 2),
                 Value("stakeholder.pressure", {"low", "high"}) >>,
  slots |-> << Entity("blocker.holder", "holder", Role({"backend", "fullstack", "sre"}), Not("agent")),
               Entity("critical_project", "critical_project", Projects, Free),
               Entity("stakeholder", "stakeholder", Role({"cto", "pm"}), Not("holder")),
               [Entity("pointer", "pointer", Reports, Free) EXCEPT
                  !.when = IsValue("discovery.hops", 2), !.into = "pointer"] >>,
  activate |-> << Id("stakeholder"), Mgr("holder"), Id("pointer"), Id("holder") >>,
  projects |-> {"proj.checkout"}, target |-> "",
  tasks |-> {Task("task.psp_integration", Id("holder"), "plain"),
             Task("task.checkout_ui", Id("pointer"), "plain"),
             Task("task.launch_gonogo", Id("agent"), "plain")},
  blockers |-> "_default" :> Block("blocker.psp_cert", "critical", FALSE, Secretive) @@
               "pci_cert" :> Block("blocker.psp_cert", "critical", FALSE, Secretive),
  repeat |-> "distractor_blockers",
  distractors |-> << "blocker.distractor_1", "blocker.distractor_2" >>,
  script |-> {Says(Id("stakeholder"), Always),
              Says(Id("stakeholder"), IsValue("stakeholder.pressure", "high"))},
  shapes |-> << Shape(30, {Id("blocker")}), Shape(30, {Id("critical_project")}),
                Shape(15, {Id("critical_project")}), Shape(10, {Id("stakeholder"), Id("blocker")}),
                Shape(15, {Id("critical_project"), Id("blocker")}) >>,
  coherence |-> << Check("count", "critical", 1), Check("known_to", "critical", 1),
                   Check("active", "critical", ""), Check("reveal", "critical", ""),
                   Check("weights", "", 100) >>]

Delivery == [Hidden EXCEPT
  !.name = "delivery-slip",
  !.samples = << Value("blocker.type", {"pulled_onto_other_work", "underestimated_task"}),
                 Value("deadline.offset", {"D10T17:00"}) >>,
  !.slots = << Entity("critical_project", "critical_project", Projects, Free),
               Entity("holder", "holder", Role({"backend", "fullstack"}), Not("agent")),
               Entity("holder2", "holder2", Role({"frontend", "fullstack", "backend"}), Not("holder")),
               Entity("stakeholder", "stakeholder", Role({"cto", "pm"}), Not("holder")) >>,
  !.activate = << Id("stakeholder"), Mgr("holder"), Id("holder"), Id("holder2") >>,
  !.projects = {"feature_x", "platform"}, !.target = "feature_x",
  !.tasks = {Task("f1", Id("holder"), "plain"), Task("f2", Id("holder"), "critical_path"),
             Task("f3", Id("holder2"), "plain"),
             [Task("w1", Id("holder"), "high") EXCEPT !.project = Lit("platform")]},
  !.blockers = "_default" :> Block("slip", "execution_slip", TRUE, Open),
  !.repeat = "",
  !.script = {Says(Id("holder"), Always)},
  !.shapes = << Shape(15, {Id("critical_project")}), Shape(15, {}), Shape(15, {Lit("w1")}),
                Shape(25, {Lit("f2")}), Shape(10, {Id("stakeholder"), Id("critical_project")}),
                Shape(20, {Id("critical_project")}) >>,
  !.coherence = << Check("projects", "", 2), Check("count", "critical_path", 1),
                   Check("project", "critical_path", "feature_x"), Check("weights", "", 100) >>]

Triage == [Delivery EXCEPT
  !.name = "release-triage",
  !.samples = << Value("blocker.type", {"payments_regression", "auth_regression"}),
                 Value("deadline.offset", {"D8T17:00", "D10T17:00"}) >>,
  !.slots = << Entity("critical_project", "critical_project", Projects, Free),
               Entity("holder", "holder", Role({"backend", "fullstack"}), Not("agent")),
               Entity("stakeholder", "stakeholder", Role({"cto", "pm"}), Not("holder")) >>,
  !.activate = << Id("stakeholder"), Mgr("holder"), Id("holder") >>,
  !.projects = {"billing_v2", "dashboard"}, !.target = "",
  !.tasks = {Task(f, Id("holder"), "validated") : f \in {"f1", "f2", "f3", "f4"}},
  !.blockers = "_default" :> Block("regression", "injected_bug", TRUE, Open),
  !.shapes = << Shape(32, {Lit("f1"), Lit("f2"), Lit("f3"), Lit("f4")}), Shape(10, {}),
                Shape(18, {Lit("regression")}), Shape(10, {Id("critical_project")}),
                Shape(10, {Id("stakeholder"), Id("critical_project")}),
                Shape(20, {Id("critical_project")}) >>,
  !.coherence = << Check("count", "injected_bug", 1), Check("projects", "", 2),
                   Check("count", "validated", 4), Check("weights", "", 100) >>]

Nobodys == [Hidden EXCEPT !.slots[1].from = Role({"ceo"})]
Misweighted == [Hidden EXCEPT !.shapes[1].w = 40]
Stranger == [Hidden EXCEPT !.shapes[5].refs = {Mgr("stakeholder")}]
Early == [Triage EXCEPT !.slots[2].rule = Not("stakeholder")]
Ruled(name, values, rhs) ==
  [Value(name, values) EXCEPT !.rule = {[lhs |-> name, rhs |-> rhs, eq |-> FALSE]}]
Paired == [Triage EXCEPT
  !.samples = << Value("blocker.type", {"auth_regression"}), Value("first", {"a", "b"}),
                 Ruled("second", {"a", "b"}, "first") >>]
Clashing == [Triage EXCEPT !.samples = << Value("first", {"a"}), Ruled("second", {"a"}, "first") >>]

MCTemplates ==
  {Hidden, Delivery, Triage, Nobodys, Misweighted, Stranger, Early, Paired, Clashing}

(* What is proved of authored templates is about these.                    *)
ASSUME ArchetypesAreAuthored == \A t \in MCTemplates : Authored(t)
=============================================================================
