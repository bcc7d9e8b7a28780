------------------------------ MODULE Resolve -------------------------------
(***************************************************************************)
(* One resolution of a template: sample fills its value slots, bind its    *)
(* entity slots, assemble builds the world and project_eval the grader     *)
(* from the same facts, and check_coherence judges them (engine/sample.py, *)
(* bind.py, assemble.py, project.py, gate.py).                             *)
(*                                                                         *)
(* A seed is a stream of draws, so every choice a stream may make is a     *)
(* step here.  A template is a record of what the stages read of it.  A    *)
(* token names what a blueprint substitutes: << alias, "id" >>, the alias' *)
(* manager << alias, "mgr" >>, or << text, "lit" >> for what stands there  *)
(* literally.  An optional entry (when, rule) is a set of at most one.     *)
(***************************************************************************)
EXTENDS Naturals, Sequences, FiniteSets, Functions, FiniteSetsExt

CONSTANTS
  People,     \* People[p]: [role, tier, boss, pack], the org and its persona packs
  Agent,      \* the one of tier "agent"
  Nobody,     \* None, as a manager and as a pointer
  Dotted,     \* the ids with a dot in them
  Templates,  \* the templates in play
  MaxTries    \* _MAX_TRIES

ASSUME ResolveAssumption ==
  /\ Agent \in DOMAIN People /\ Nobody \notin DOMAIN People
  /\ People[Agent].tier = "agent" /\ DOMAIN People \subseteq Dotted
  /\ MaxTries \in Nat

(* A template is a JSON object, and finite.  Its slots have names of       *)
(* their own, each binds an alias of its own, and the pointer is a person. *)
ASSUME ArchetypeAssumption == \A t \in Templates :
  /\ t.samples \in Seq(Range(t.samples)) /\ t.samples # << >>
  /\ t.slots \in Seq(Range(t.slots)) /\ t.slots # << >>
  /\ \A i, j \in DOMAIN t.slots :
       t.slots[i].alias = t.slots[j].alias \/ t.slots[i].name = t.slots[j].name => i = j
  /\ \A i \in DOMAIN t.slots : t.slots[i].into = "pointer" => t.slots[i].from.kind # "projects"
  /\ \A b \in Range(t.blockers) : IsFiniteSet(b.known)

VARIABLES
  template,  \* the template being resolved
  stage,     \* the stage to run next, "done", or "raised"
  draw,      \* slot -> value
  tries,     \* redraws of the slot being sampled
  at,        \* position in bind_order
  bound,     \* alias -> id
  ids,       \* slot -> id, the pointer left out
  pointer,   \* the pointer's id, or Nobody
  facts,     \* the FactMap's cast, world, overlay and timeline
  verdict    \* of check_coherence

resolveVars == <<template, stage, draw, tries, at, bound, ids, pointer, facts, verdict>>

NoFacts == [active |-> {}, tasks |-> {}, blockers |-> {}, overlay |-> << >>, senders |-> {}]

ResolveInit ==
  /\ template \in Templates
  /\ stage = "sample"
  /\ draw = << >> /\ tries = 0
  /\ at = 1 /\ bound = << >> /\ ids = << >> /\ pointer = Nobody
  /\ facts = NoFacts
  /\ verdict = "none"

With(f, x, v) == [y \in DOMAIN f \cup {x} |-> IF y = x THEN v ELSE f[y]]

(* cond: `<slot> == <literal>` over the draw.                              *)
Cond(when) == \A c \in when : c.slot \in DOMAIN draw /\ draw[c.slot] = c.value

-----------------------------------------------------------------------------
(* sample: slot after slot, a value that breaks the slot's rule is drawn   *)
(* again, up to MaxTries times.                                            *)

SampleSlot == template.samples[Cardinality(DOMAIN draw) + 1]

(* A rule that names a slot not drawn yet passes.                          *)
Holds(rule, d) ==
  \A r \in rule : {r.lhs, r.rhs} \subseteq DOMAIN d => ((d[r.lhs] = d[r.rhs]) <=> r.eq)

Accept(v) ==
  LET d == With(draw, SampleSlot.name, v) IN
  /\ Holds(SampleSlot.rule, d)
  /\ draw' = d
  /\ tries' = 0
  /\ stage' = IF Cardinality(DOMAIN d) = Len(template.samples) THEN "bind" ELSE "sample"
  /\ UNCHANGED <<template, at, bound, ids, pointer, facts, verdict>>

(* Slips: one redraw more than allowed; redraws that are not counted.      *)
RedrawOnceMore(v) ==
  /\ ~Holds(SampleSlot.rule, With(draw, SampleSlot.name, v))
  /\ tries <= MaxTries
  /\ tries' = tries + 1
  /\ UNCHANGED <<template, stage, draw, at, bound, ids, pointer, facts, verdict>>

RedrawUncounted(v) ==
  /\ ~Holds(SampleSlot.rule, With(draw, SampleSlot.name, v))
  /\ tries < MaxTries
  /\ UNCHANGED resolveVars

Redraw(v) ==
  /\ ~Holds(SampleSlot.rule, With(draw, SampleSlot.name, v))
  /\ tries < MaxTries
  /\ tries' = tries + 1
  /\ UNCHANGED <<template, stage, draw, at, bound, ids, pointer, facts, verdict>>

Raise == /\ stage' = "raised"
         /\ UNCHANGED <<template, draw, tries, at, bound, ids, pointer, facts, verdict>>

GiveUp(v) ==
  /\ ~Holds(SampleSlot.rule, With(draw, SampleSlot.name, v))
  /\ tries >= MaxTries
  /\ Raise

Sample == /\ stage = "sample"
          /\ \E v \in SampleSlot.values : Accept(v) \/ Redraw(v) \/ GiveUp(v)

-----------------------------------------------------------------------------
(* bind: slot after slot in bind_order.                                    *)

Live(p) == People[p].tier = "active" /\ People[p].pack

(* bindable, the agent's reports, or the template's projects, whoever owns *)
(* them; a selector of no known form admits none.                          *)
Candidates(t, from) ==
  {p \in DOMAIN People : from.kind = "role" /\ Live(p) /\ People[p].role \in from.roles}
  \cup {p \in DOMAIN People : from.kind = "reports" /\ Live(p) /\ People[p].boss = Agent}
  \cup {p \in t.projects : from.kind = "projects"}

Slot == template.slots[at]

(* The right side of a rule is the agent or an alias bound before; any     *)
(* other raises a KeyError, which like an empty list ends the resolution.  *)
Eligible ==
  LET known == DOMAIN bound \cup {"agent"}
      value(rhs) == IF rhs = "agent" THEN Agent ELSE bound[rhs]
  IN {c \in Candidates(template, Slot.from) :
        \A r \in Slot.rule : r.rhs \in known /\ ((c = value(r.rhs)) <=> r.eq)}

Binding == stage = "bind" /\ at <= Len(template.slots)

BindSlot ==
  /\ Binding
  /\ Cond(Slot.when)
  /\ \E c \in Eligible :
       /\ bound' = With(bound, Slot.alias, c)
       /\ IF Slot.into = "pointer"
          THEN pointer' = c /\ UNCHANGED ids
          ELSE ids' = With(ids, Slot.name, c) /\ UNCHANGED pointer
  /\ at' = at + 1
  /\ UNCHANGED <<template, stage, draw, tries, facts, verdict>>

SkipSlot ==
  /\ Binding
  /\ ~Cond(Slot.when)
  /\ at' = at + 1
  /\ UNCHANGED <<template, stage, draw, tries, bound, ids, pointer, facts, verdict>>

BindRaises ==
  /\ Binding
  /\ Cond(Slot.when)
  /\ Eligible = {}
  /\ Raise

-----------------------------------------------------------------------------
(* assemble: no draw is left; one environment serves world and grader.     *)

(* The block authored for the drawn type, or the generic one.             *)
Content ==
  LET type == draw["blocker.type"]
  IN template.blockers[IF type \in DOMAIN template.blockers THEN type ELSE "_default"]

(* Without a second hop the agent stands in for the pointer.               *)
Env == [a \in DOMAIN bound \cup {"agent", "pointer", "blocker"} |->
          CASE a = "agent" -> Agent
            [] a = "pointer" -> IF pointer = Nobody THEN Agent ELSE pointer
            [] a = "blocker" -> Content.id
            [] OTHER -> bound[a]]

(* Slip: the flag is taken after the stand-in.                             *)
HasPointerAfterDefault == Env["pointer"] # Nobody

HasPointer == pointer # Nobody

Manager(p) == IF p \in DOMAIN People THEN People[p].boss ELSE Nobody

Subst(token) == CASE token[2] = "id"  -> Env[token[1]]
                  [] token[2] = "mgr" -> Manager(Env[token[1]])
                  [] token[2] = "lit" -> token[1]

(* The active set, from bind's own bindings: an absent pointer is None and *)
(* left out, as is the manager of one who has none.                        *)
Activated ==
  LET value(t) == IF t = <<"pointer", "id">> THEN pointer ELSE Subst(t)
  IN {value(t) : t \in Range(template.activate)} \ {Nobody}

Tasks == {[id |-> t.id, owner |-> Subst(t.owner), project |-> Subst(t.project),
           class |-> t.class] : t \in template.tasks}

(* The template's blocker and as many distractors as were drawn.           *)
Blockers ==
  LET n == IF template.repeat = "" THEN 0 ELSE draw[template.repeat]
  IN {[id |-> Content.id, known |-> {Subst(t) : t \in Content.known},
       class |-> Content.class, surfaced |-> Content.surfaced]}
     \cup {[id |-> template.distractors[i], known |-> {Agent}, class |-> "minor",
            surfaced |-> FALSE] : i \in 1 .. n}

(* Persona -> the blocker its knowledge reveals; of two entries for one    *)
(* persona the later stands.                                               *)
Overlay ==
  LET kept == {i \in DOMAIN Content.overlays :
                 Content.overlays[i].when = "has_pointer" => HasPointer}
      who(i) == Subst(Content.overlays[i].who)
  IN [p \in {who(i) : i \in kept} |->
        Content.overlays[Max({i \in kept : who(i) = p})].reveals]

Assemble ==
  /\ stage = "bind" /\ at > Len(template.slots)
  /\ facts' = [active |-> Activated, tasks |-> Tasks, blockers |-> Blockers,
               overlay |-> Overlay,
               senders |-> {Subst(e.from) : e \in {e \in template.script : Cond(e.when)}}]
  /\ stage' = "project"
  /\ UNCHANGED <<template, draw, tries, at, bound, ids, pointer, verdict>>

-----------------------------------------------------------------------------
(* project_eval: the weights sum to one, and what the grader mentions of   *)
(* the bound ids and of the dotted bindings exists in the world.           *)

WorldIds == {Agent} \cup facts.active \cup template.projects
              \cup {t.id : t \in facts.tasks} \cup {b.id : b \in facts.blockers}

Mentioned == {Subst(t) : t \in UNION {s.refs : s \in Range(template.shapes)}}

Bindings == Range(Env) \cup {Manager(Env[a]) : a \in DOMAIN Env \ {"agent"}}

(* Slip: only the ids of the slots are looked up.                          *)
MissingSlots == (Mentioned \cap Range(ids)) \ WorldIds

Missing == (Mentioned \cap (Range(ids) \cup (Bindings \cap Dotted))) \ WorldIds

Weight == SumFunction([i \in DOMAIN template.shapes |-> template.shapes[i].w])

ProjectEval ==
  /\ stage = "project"
  /\ Weight = 100 /\ Missing = {}
  /\ stage' = "gate"
  /\ UNCHANGED <<template, draw, tries, at, bound, ids, pointer, facts, verdict>>

ProjectRaises ==
  /\ stage = "project"
  /\ Weight # 100 \/ Missing # {}
  /\ Raise

-----------------------------------------------------------------------------
(* check_coherence: the template's invariants, over the first item of a    *)
(* class; none of them holds of a class with no item.                      *)

Items(class) == {e \in facts.blockers \cup facts.tasks : e.class = class}

One(class) == CHOOSE e \in Items(class) : TRUE

InvariantOk(inv) ==
  CASE inv.kind = "count"    -> Cardinality(Items(inv.of)) = inv.eq
    [] inv.kind = "projects" -> Cardinality(template.projects) = inv.eq
    [] inv.kind = "weights"  -> Weight = inv.eq
    [] inv.kind = "known_to" -> Items(inv.of) # {} /\ Cardinality(One(inv.of).known) = inv.eq
    [] inv.kind = "active"   -> /\ Items(inv.of) # {} /\ One(inv.of).known # {}
                                /\ \A p \in One(inv.of).known : People[p].tier = "active"
    [] inv.kind = "reveal"   -> /\ Items(inv.of) # {}
                                /\ One(inv.of).id \in Range(facts.overlay)
    [] inv.kind = "project"  -> Items(inv.of) # {} /\ One(inv.of).project = inv.eq

Coherent == \A i \in DOMAIN template.coherence : InvariantOk(template.coherence[i])

CheckCoherence ==
  /\ stage = "gate"
  /\ verdict' = IF Coherent THEN "coherent" ELSE "incoherent"
  /\ stage' = "done"
  /\ UNCHANGED <<template, draw, tries, at, bound, ids, pointer, facts>>

-----------------------------------------------------------------------------
ResolveNext ==
  \/ Sample
  \/ BindSlot \/ SkipSlot \/ BindRaises
  \/ Assemble
  \/ ProjectEval \/ ProjectRaises
  \/ CheckCoherence

(* The pipeline is one call that nothing interrupts.                       *)
ResolveSpec == ResolveInit /\ [][ResolveNext]_resolveVars /\ WF_resolveVars(ResolveNext)

-----------------------------------------------------------------------------
(* Properties *)

ResolveTypeOK ==
  /\ template \in Templates
  /\ stage \in {"sample", "bind", "project", "gate", "done", "raised"}
  /\ DOMAIN draw \subseteq {s.name : s \in Range(template.samples)}
  /\ tries \in 0 .. MaxTries
  /\ at \in 1 .. Len(template.slots) + 1
  /\ Range(bound) \subseteq DOMAIN People \cup template.projects
  /\ Range(ids) \subseteq Range(bound)
  /\ pointer \in DOMAIN People \cup {Nobody}
  /\ verdict \in {"none", "coherent", "incoherent"}

(* What an archetype has to be written like for its instances to be        *)
(* playable whatever is drawn; no code asks for it.                        *)

(* A part that is always cast, by a selector of one of these kinds.        *)
AlwaysCast(t, alias, kinds) ==
  \E i \in DOMAIN t.slots : /\ t.slots[i].alias = alias /\ t.slots[i].into = "ids"
                            /\ t.slots[i].when = {} /\ t.slots[i].from.kind \in kinds

(* Two parts draw from different candidates, or the later is told to       *)
(* differ from the earlier.                                                *)
PartsApart(t) ==
  /\ Agent \notin t.projects
  /\ \A i \in DOMAIN t.slots :
       /\ t.slots[i].alias \notin {"agent", "blocker"}
       /\ t.slots[i].alias = "pointer" <=> t.slots[i].into = "pointer"
  /\ \A i, j \in DOMAIN t.slots : i < j =>
       \/ Candidates(t, t.slots[i].from) \cap Candidates(t, t.slots[j].from) = {}
       \/ [rhs |-> t.slots[i].alias, eq |-> FALSE] \in t.slots[j].rule

(* Whoever has a line, an overlay, a task or a secret is a person always   *)
(* cast and activated, or the pointer where there may be none.             *)
Activates(t, token) == token \in Range(t.activate)

Plays(t, token) ==
  Activates(t, token) /\ token[2] = "id" /\ AlwaysCast(t, token[1], {"role", "reports"})

MayPlay(t, token) == \/ Plays(t, token)
                     \/ token = <<"agent", "id">>
                     \/ token = <<"pointer", "id">> /\ Activates(t, token)

PlayersActivated(t) ==
  /\ \A k \in t.tasks : MayPlay(t, k.owner)
  /\ \A e \in t.script : Plays(t, e.from)
  /\ "_default" \in DOMAIN t.blockers
  /\ \A b \in Range(t.blockers) :
       /\ \A token \in b.known : MayPlay(t, token)
       /\ b.overlays \in Seq(Range(b.overlays))
       /\ \A o \in Range(b.overlays) :
            \/ Plays(t, o.who)
            \/ /\ o.who = <<"pointer", "id">> /\ Activates(t, o.who)
               /\ o.when = "has_pointer"

(* The grader mentions what is cast, the manager of one who has a manager, *)
(* and literally what any instance has.                                    *)
MentionsKnown(t) ==
  \A token \in UNION {s.refs : s \in Range(t.shapes)} :
    CASE token[2] = "id"  -> \/ token[1] \in {"agent", "pointer", "blocker"}
                             \/ AlwaysCast(t, token[1], {"role", "reports", "projects"})
      [] token[2] = "mgr" -> /\ AlwaysCast(t, token[1], {"role", "reports"})
                             /\ \A p \in DOMAIN People : Live(p) => People[p].boss \in DOMAIN People
      [] token[2] = "lit" -> \/ token[1] \in {k.id : k \in t.tasks}
                             \/ \A b \in Range(t.blockers) : b.id = token[1]
      [] OTHER -> FALSE

(* A critical fact that is hidden is told by those who know it, and the    *)
(* checks ask that it is, and that one person knows it.                    *)
Checks(t, kind, of) ==
  \E i \in DOMAIN t.coherence : t.coherence[i].kind = kind /\ t.coherence[i].of = of

SecretsTold(t) ==
  \A b \in Range(t.blockers) : b.class = "critical" /\ ~b.surfaced =>
    /\ \A k \in t.tasks : k.class # "critical"
    /\ \A o \in Range(b.overlays) : o.reveals = b.id => o.who \in b.known
    /\ Checks(t, "active", "critical") /\ Checks(t, "reveal", "critical")
    /\ \E i \in DOMAIN t.coherence :
         t.coherence[i] = [kind |-> "known_to", of |-> "critical", eq |-> 1]

(* The checks ask that the target is the project bound as critical.        *)
TargetChecked(t) ==
  t.target # "" =>
    /\ AlwaysCast(t, "critical_project", {"role", "reports", "projects"})
    /\ \E i \in DOMAIN t.coherence :
         /\ t.coherence[i].kind = "project" /\ t.coherence[i].eq = t.target
         /\ \A k \in t.tasks : k.class = t.coherence[i].of => k.project = <<"critical_project", "id">>
         /\ t.coherence[i].of \notin {"minor"} \cup {b.class : b \in Range(t.blockers)}

Authored(t) == /\ PartsApart(t) /\ PlayersActivated(t) /\ MentionsKnown(t)
               /\ SecretsTold(t) /\ TargetChecked(t)

(* Whatever is drawn, the parts of an assembled scenario are played by     *)
(* different people, none of them the agent, and everyone who has an       *)
(* overlay, a scripted line, the blocker's secret or a task is in the      *)
(* active set with a persona pack, so that the loader brings them to life  *)
(* (the rules relate only some of the slots, loader.load skips the rest).  *)
Assembled == stage \in {"project", "gate", "done"}

OnStage(p) == p \in facts.active /\ Live(p)

CastIsReady ==
  Assembled =>
    /\ \A a, b \in DOMAIN bound : bound[a] = bound[b] => a = b
    /\ Agent \notin Range(bound)
    /\ \A p \in DOMAIN facts.overlay \cup facts.senders : OnStage(p)
    /\ \A t \in facts.tasks : t.owner = Agent \/ OnStage(t.owner)
    /\ \A b \in facts.blockers : \A p \in b.known \ {Agent} : OnStage(p)

(* A coherent scenario can be won: its grader mentions nothing the world   *)
(* lacks, literal ids included; a critical fact that is still hidden is    *)
(* known to one person, who is on stage and whose overlay reveals it; and  *)
(* if the archetype has a target project, that is the one to decide about. *)
CoherentIsWinnable ==
  verdict = "coherent" =>
    /\ Mentioned \subseteq WorldIds
    /\ \A b \in facts.blockers : b.class = "critical" /\ ~b.surfaced =>
         \E p \in DOMAIN facts.overlay :
           b.known = {p} /\ OnStage(p) /\ facts.overlay[p] = b.id
    /\ template.target # "" => bound["critical_project"] = template.target

(* Both: what is delivered can be played by the people it names, and won.  *)
InstanceIsPlayable == CastIsReady /\ CoherentIsWinnable

(* Every resolution comes to an end, with an instance or an exception.     *)
ResolutionEnds == <>(stage \in {"done", "raised"})
=============================================================================
