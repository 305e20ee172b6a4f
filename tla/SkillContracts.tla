-------------------------- MODULE SkillContracts --------------------------
(***************************************************************************)
(* Robot evidence and declarative skills: the pure part of                 *)
(* models/robot_state.py, skills/base_skill.py and skills/registry.py.     *)
(*                                                                         *)
(* A RobotState is a record                                                *)
(*   val        what each field reads; None is UNKNOWN (a field outside    *)
(*              the domain reads None too)                                 *)
(*   stale      the fields the backend marked stale                        *)
(*   aged       the fields whose observation is older than the maximum age *)
(*              a precondition tolerates (the age is read as a verdict:    *)
(*              the clock itself is not modelled)                          *)
(*   conflicts  the fields with contradictory readings                     *)
(*   busy       the active resources                                       *)
(* Python's booleans are its integers 0 and 1, and so are they here;       *)
(* measured floats are grid points, equal when within the tolerance.       *)
(***************************************************************************)
EXTENDS Integers, Sequences, FiniteSets, SequencesExt

CONSTANTS
    None,       \* Python's None: no value, no argument, no plan
    Contracts   \* the registered SkillContracts, in order of registration

Yes == 1
No == 0

\* The members of a sequence that are in "chosen", in their order.
Only(seq, chosen) ==
    FoldLeft(LAMBDA acc, x : IF x \in chosen THEN Append(acc, x) ELSE acc, <<>>, seq)

(***************************************************************************)
(* Evidence.                                                               *)
(***************************************************************************)
RawValue(s, f) == IF f \in DOMAIN s.val THEN s.val[f] ELSE None

\* A field that reads a value is known (a mutation of Knowledge).
KnowledgeByValue(s, f, ages) ==
    IF f \in s.conflicts THEN "CONTRADICTORY"
    ELSE IF RawValue(s, f) = None THEN "UNKNOWN" ELSE "KNOWN"

\* RobotState.epistemic_value: contradiction before absence before age.
\* Only a caller that passes max_age_s looks at the age.
Knowledge(s, f, ages) ==
    IF f \in s.conflicts THEN "CONTRADICTORY"
    ELSE IF RawValue(s, f) = None THEN "UNKNOWN"
    ELSE IF f \in s.stale \/ (ages /\ f \in s.aged) THEN "STALE"
    ELSE "KNOWN"

\* RobotState.copy(**changes), changes being a sequence of [field, value]:
\* the marks on the evidence stay as they were.
With(s, changes) ==
    LET changed == {changes[i].field : i \in DOMAIN changes}
        new(f)  == changes[CHOOSE i \in DOMAIN changes :
                              /\ changes[i].field = f
                              /\ \A j \in i+1 .. Len(changes) : changes[j].field # f].value
    IN  [s EXCEPT !.val = [f \in DOMAIN s.val \cup changed |->
                              IF f \in changed THEN new(f) ELSE s.val[f]]]

(***************************************************************************)
(* Contracts.  A field template such as "{arm}_arm_safe" is a record:      *)
(* "by" names the argument that selects the field (None for a plain name)  *)
(* and "at" maps the argument's values to the field names.                 *)
(***************************************************************************)
Plain(f) == [by |-> None, at |-> [b \in {None} |-> f]]

Resolve(t, args) == t.at[IF t.by = None THEN None ELSE args[t.by]]

SkillNames == {Contracts[i].name : i \in DOMAIN Contracts}

Contract(name) == Contracts[CHOOSE i \in DOMAIN Contracts : Contracts[i].name = name]

\* RobotSkill.validate_arguments; "some" is SetHeadSkill's extra check.
ValidArguments(c, args) ==
    /\ DOMAIN args \subseteq DOMAIN c.params
    /\ \A n \in DOMAIN c.params :
          IF n \in DOMAIN args THEN args[n] \in c.params[n].domain
                               ELSE ~c.params[n].required
    /\ c.some => DOMAIN args # {}

ValidStep(step) ==
    /\ step.skill \in SkillNames
    /\ ValidArguments(Contract(step.skill), step.args)

\* The step's preconditions, their fields resolved, in contract order.
Preconditions(step) ==
    LET pre == Contract(step.skill).pre
    IN  [i \in DOMAIN pre |-> [field    |-> Resolve(pre[i].field, step.args),
                               expected |-> pre[i].expected,
                               ages     |-> pre[i].ages]]

\* StatePredicate.evaluate: TRUE only on known evidence.
Satisfied(s, p) ==
    /\ Knowledge(s, p.field, p.ages) = "KNOWN"
    /\ RawValue(s, p.field) = p.expected

Failures(s, step) ==
    Only(Preconditions(step), {p \in ToSet(Preconditions(step)) : ~Satisfied(s, p)})

\* EffectSpec.expected_value.
ExpectedValue(e, args, s) ==
    LET operand == IF e.argument = None THEN e.value ELSE args[e.argument]
        current == RawValue(s, Resolve(e.field, args))
    IN  IF e.operation = "assign" THEN operand
        ELSE IF current = None THEN None
        ELSE current + operand

\* EffectSpec.active: the effects these arguments ask for.
Active(c, args) ==
    Only(c.effects, {e \in ToSet(c.effects) : e.when = None \/ e.when \in DOMAIN args})

Predicted(effects, args, s) ==
    [i \in DOMAIN effects |-> [field |-> Resolve(effects[i].field, args),
                               value |-> ExpectedValue(effects[i], args, s)]]

\* RobotSkill.expected_effects, as a sequence of [field, value].
ExpectedEffects(step, s) == Predicted(Active(Contract(step.skill), step.args), step.args, s)

\* RobotSkill.verify_outcome: every declared effect is known to hold.
VerifyOutcome(step, before, after) ==
    LET expected == ExpectedEffects(step, before)
    IN  \A i \in DOMAIN expected :
           /\ Knowledge(after, expected[i].field, FALSE) = "KNOWN"
           /\ expected[i].value # None
           /\ RawValue(after, expected[i].field) = expected[i].value

(***************************************************************************)
(* Inverting effects: EffectSpec.synthesize_arguments and                  *)
(* SkillRegistry.synthesize_candidates.                                    *)
(***************************************************************************)
Bind(name, value, args) ==
    [n \in DOMAIN args \cup {name} |-> IF n = name THEN value ELSE args[n]]

\* The arguments (at most one set of them) that make effect e establish
\* f = target from state s.
Inversions(e, f, target, s) ==
    {args \in
        {LET bound == IF e.field.by = None THEN <<>> ELSE Bind(e.field.by, b, <<>>)
             current == RawValue(s, f)
         IN  IF e.operation = "assign"
             THEN IF e.argument # None THEN Bind(e.argument, target, bound)
                  ELSE IF e.value = target THEN bound ELSE None
             ELSE IF e.argument = None \/ current = None \/ target = None THEN None
                  ELSE Bind(e.argument, target - current, bound)
           : b \in {x \in DOMAIN e.field.at : e.field.at[x] = f}}
       : args # None}

\* One step per skill, by its first effect that fits, in registration order.
Candidates(f, target, s, excluded) ==
    LET fits(c, i) == {a \in Inversions(c.effects[i], f, target, s) : ValidArguments(c, a)}
        usable(c)  == {i \in DOMAIN c.effects : fits(c, i) # {}}
        first(c)   == CHOOSE i \in usable(c) : \A j \in usable(c) : i <= j
        chosen     == Only(Contracts, {c \in ToSet(Contracts) :
                                          c.name \notin excluded /\ usable(c) # {}})
    IN  [n \in DOMAIN chosen |->
           [id     |-> <<"candidate", 0, 0, f>>,
            skill  |-> chosen[n].name,
            args   |-> CHOOSE a \in fits(chosen[n], first(chosen[n])) : TRUE,
            effect |-> <<[field |-> f, value |-> target]>>,
            group  |-> None]]
===========================================================================
