----------------------------- MODULE MCEvaluator -----------------------------
(* A small cast of argument records for the evaluator's log. *)
EXTENDS Evaluator

Decide(about, type, action, new_date, owner) ==
  [about |-> Atom(about), type |-> Atom(type), action |-> action,
   new_date |-> new_date, owner |-> owner]

\* A full go/no-go, one with a wrong action and a stranger as owner, a note of another type
\* with no claim, and a go/no-go about another project.
SomeDecisions ==
  {Decide(About, "gonogo", Atom("reschedule"), Atom("d2"), Atom("holder")),
   Decide(About, "gonogo", Atom("ship"), Atom("d2"), Atom("stranger")),
   Decide(About, "note", None, None, None),
   Decide("proj.other", "gonogo", Atom("reschedule"), Atom("d2"), Atom("cto"))}

SomeTellings ==
  {[to |-> Atom("cto"), refs |-> List(<<Atom("psp_cert")>>)],
   [to |-> Atom("cto"), refs |-> None]}

OneTelling == {[to |-> Atom("cto"), refs |-> List(<<Atom("psp_cert")>>)]}
=============================================================================
