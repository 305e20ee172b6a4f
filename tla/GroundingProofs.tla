-------------------------- MODULE GroundingProofs --------------------------
(***************************************************************************)
(* What is proved of the pure algorithms, for every registry, plan and     *)
(* evidence: what a repair and a replan are made of, and that a repaired   *)
(* plan establishes the preconditions of its steps one after the other.    *)
(***************************************************************************)
EXTENDS Grounding, SequenceTheorems, TLAPS

(***************************************************************************)
(* Sequences.  A sequence is told by its members.                          *)
(***************************************************************************)
IsSequence(seq) == seq \in Seq(ToSet(seq))

LEMMA SequenceIsSequence ==
  ASSUME NEW S, NEW seq \in Seq(S)
  PROVE  /\ IsSequence(seq) /\ ToSet(seq) \subseteq S
         /\ Len(seq) \in Nat /\ DOMAIN seq = 1 .. Len(seq)
<1>1. seq \in [1 .. Len(seq) -> S] /\ Len(seq) \in Nat
  BY LenProperties
<1>2. seq \in [1 .. Len(seq) -> ToSet(seq)]
  BY <1>1 DEF ToSet
<1>3. seq \in Seq(ToSet(seq))
  BY <1>1, <1>2, SeqDef
<1> QED
  BY <1>1, <1>3 DEF IsSequence, ToSet

\* A function over 1 .. n is a sequence of its values.
LEMMA FunctionIsSequence ==
  ASSUME NEW n \in Nat, NEW seq, DOMAIN seq = 1 .. n, seq = [i \in 1 .. n |-> seq[i]]
  PROVE  IsSequence(seq) /\ Len(seq) = n
<1>1. seq \in [1 .. n -> ToSet(seq)]
  BY DEF ToSet
<1>2. seq \in Seq(ToSet(seq))
  BY <1>1, SeqDef
<1>3. DOMAIN seq = 1 .. Len(seq) /\ Len(seq) \in Nat
  BY <1>2, LenProperties
<1> QED
  BY <1>2, <1>3 DEF IsSequence

LEMMA AppendMembers ==
  ASSUME NEW seq, IsSequence(seq), NEW e
  PROVE  /\ IsSequence(Append(seq, e)) /\ ToSet(Append(seq, e)) = ToSet(seq) \cup {e}
         /\ Len(Append(seq, e)) = Len(seq) + 1 /\ Append(seq, e)[Len(seq) + 1] = e
         /\ \A i \in 1 .. Len(seq) : Append(seq, e)[i] = seq[i]
<1> DEFINE S == ToSet(seq) \cup {e}
<1>1. seq \in Seq(S) /\ e \in S
  BY SeqMonotonic DEF IsSequence
<1> HIDE DEF S
<1>2. /\ Append(seq, e) \in Seq(S) /\ Len(Append(seq, e)) = Len(seq) + 1
      /\ Append(seq, e)[Len(seq) + 1] = e
      /\ \A i \in 1 .. Len(seq) : Append(seq, e)[i] = seq[i]
  BY <1>1, AppendProperties
<1>3. DOMAIN seq = 1 .. Len(seq) /\ DOMAIN Append(seq, e) = 1 .. Len(seq) + 1
      /\ Len(seq) \in Nat
  BY <1>1, <1>2, LenProperties
<1>4. 1 .. Len(seq) + 1 = (1 .. Len(seq)) \cup {Len(seq) + 1}
  BY <1>3
<1>5. ToSet(Append(seq, e)) = ToSet(seq) \cup {e}
  BY <1>2, <1>3, <1>4 DEF ToSet
<1> QED
  BY <1>2, <1>5, SequenceIsSequence

LEMMA ConcatMembers ==
  ASSUME NEW a, NEW b, IsSequence(a), IsSequence(b)
  PROVE  /\ IsSequence(a \o b) /\ ToSet(a \o b) = ToSet(a) \cup ToSet(b)
         /\ Len(a \o b) = Len(a) + Len(b)
         /\ \A i \in 1 .. Len(a) : (a \o b)[i] = a[i]
         /\ \A i \in 1 .. Len(b) : (a \o b)[Len(a) + i] = b[i]
<1> DEFINE S == ToSet(a) \cup ToSet(b)
<1>1. a \in Seq(S) /\ b \in Seq(S)
  BY SeqMonotonic DEF IsSequence
<1>2. /\ Len(a) \in Nat /\ DOMAIN a = 1 .. Len(a)
      /\ Len(b) \in Nat /\ DOMAIN b = 1 .. Len(b)
  BY <1>1, LenProperties
<1>3. /\ a \o b \in Seq(S) /\ Len(a \o b) = Len(a) + Len(b)
      /\ \A i \in 1 .. Len(a) + Len(b) :
            (a \o b)[i] = IF i <= Len(a) THEN a[i] ELSE b[i - Len(a)]
  BY <1>1, ConcatProperties
<1>4. IsSequence(a \o b) /\ ToSet(a \o b) \subseteq S /\ DOMAIN (a \o b) = 1 .. Len(a) + Len(b)
  BY <1>3, SequenceIsSequence
<1>5. \A i \in 1 .. Len(a) : (a \o b)[i] = a[i] /\ i \in 1 .. Len(a) + Len(b)
  BY <1>2, <1>3
<1>6. \A i \in 1 .. Len(b) : (a \o b)[Len(a) + i] = b[i] /\ Len(a) + i \in 1 .. Len(a) + Len(b)
  BY <1>2, <1>3
<1>7. S \subseteq ToSet(a \o b)
  BY <1>2, <1>4, <1>5, <1>6 DEF ToSet
<1> QED
  BY <1>3, <1>4, <1>5, <1>6, <1>7

\* Only keeps the chosen members and nothing else.
OnlyStep(chosen, none, acc, x) == IF x \in chosen THEN Append(acc, x) ELSE acc

OnlySoFar(ctx, n, acc) ==
    /\ acc \in Seq(ctx.chosen)
    /\ ToSet(acc) = {ctx.seq[i] : i \in 1 .. n} \cap ctx.chosen

Selecting == INSTANCE Folding WITH Op <- OnlyStep, Inv <- OnlySoFar

LEMMA OnlyKept ==
  ASSUME NEW seq, IsSequence(seq), NEW chosen
  PROVE  LET ctx == [seq |-> seq, chosen |-> chosen]
         IN  /\ OnlySoFar(ctx, 0, <<>>)
             /\ \A i \in 1 .. Len(seq) : \A acc :
                   OnlySoFar(ctx, i-1, acc) => OnlySoFar(ctx, i, OnlyStep(chosen, None, acc, seq[i]))
<1> DEFINE ctx == [seq |-> seq, chosen |-> chosen]
<1>1. DOMAIN seq = 1 .. Len(seq) /\ Len(seq) \in Nat
  BY SequenceIsSequence DEF IsSequence
<1>2. OnlySoFar(ctx, 0, <<>>)
  <2>1. 1 .. 0 = {} /\ ToSet(<<>>) = {}
    BY DEF ToSet
  <2> QED
    BY <2>1 DEF OnlySoFar
<1>3. ASSUME NEW i \in 1 .. Len(seq), NEW acc, OnlySoFar(ctx, i-1, acc)
      PROVE  OnlySoFar(ctx, i, OnlyStep(chosen, None, acc, seq[i]))
  <2>1. acc \in Seq(chosen) /\ ToSet(acc) = {seq[j] : j \in 1 .. i-1} \cap chosen
    BY <1>3 DEF OnlySoFar
  <2>2. 1 .. i = (1 .. i-1) \cup {i}
    BY <1>1
  <2>3. {seq[j] : j \in 1 .. i} = {seq[j] : j \in 1 .. i-1} \cup {seq[i]}
    BY <2>2
  <2>4. CASE seq[i] \in chosen
    <3>1. ToSet(Append(acc, seq[i])) = ToSet(acc) \cup {seq[i]}
      BY <2>1, AppendMembers, SequenceIsSequence
    <3> QED
      BY <2>1, <2>3, <2>4, <3>1 DEF OnlySoFar, OnlyStep
  <2>5. CASE seq[i] \notin chosen
    BY <2>1, <2>3, <2>5 DEF OnlySoFar, OnlyStep
  <2> QED
    BY <2>4, <2>5
<1> QED
  BY <1>2, <1>3

LEMMA OnlyFolded ==
  ASSUME NEW seq, NEW chosen
  PROVE  Selecting!Folded(chosen, None, <<>>, seq) = Only(seq, chosen)
BY DEF Only, OnlyStep, Selecting!Folded, FoldLeft, Selecting!FoldLeft,
       MapThenFoldSet, Selecting!MapThenFoldSet, Max, Selecting!Max

LEMMA OnlyChosen ==
  ASSUME NEW seq, IsSequence(seq), NEW chosen
  PROVE  /\ Only(seq, chosen) \in Seq(ToSet(seq) \cap chosen)
         /\ ToSet(Only(seq, chosen)) = ToSet(seq) \cap chosen
<1> DEFINE ctx == [seq |-> seq, chosen |-> chosen]
<1>1. DOMAIN seq = 1 .. Len(seq) /\ Len(seq) \in Nat
  BY SequenceIsSequence DEF IsSequence
<1>2. /\ OnlySoFar(ctx, 0, <<>>)
      /\ \A i \in 1 .. Len(seq) : \A acc :
            OnlySoFar(ctx, i-1, acc) => OnlySoFar(ctx, i, OnlyStep(chosen, None, acc, seq[i]))
  BY OnlyKept
<1> HIDE DEF ctx
<1>3. OnlySoFar(ctx, Len(seq), Selecting!Folded(chosen, None, <<>>, seq))
  BY <1>1, <1>2, Selecting!FoldInduction
<1>4. Only(seq, chosen) \in Seq(chosen)
  BY <1>3, OnlyFolded DEF OnlySoFar, ctx
<1>5. ToSet(Only(seq, chosen)) = ToSet(seq) \cap chosen
  BY <1>1, <1>3, OnlyFolded DEF OnlySoFar, ctx, ToSet
<1> QED
  BY <1>4, <1>5, SequenceIsSequence DEF IsSequence

LEMMA OnlyAppend ==
  ASSUME NEW seq, IsSequence(seq), NEW x, NEW chosen
  PROVE  Only(Append(seq, x), chosen)
           = IF x \in chosen THEN Append(Only(seq, chosen), x) ELSE Only(seq, chosen)
<1> DEFINE longer == Append(seq, x)
           n == Len(seq)
<1>1. /\ DOMAIN seq = 1 .. n /\ n \in Nat
      /\ DOMAIN longer = 1 .. n+1 /\ longer[n+1] = x /\ \A i \in 1 .. n : longer[i] = seq[i]
  BY AppendMembers, SequenceIsSequence DEF IsSequence
<1> HIDE DEF longer, n
<1>2. Selecting!Folded(chosen, None, <<>>, longer)
        = OnlyStep(chosen, None, Selecting!Folded(chosen, None, <<>>, seq), x)
  BY <1>1, Selecting!FoldAppend
<1> QED
  BY <1>2, OnlyFolded DEF OnlyStep, longer

\* Only the members of the sequence matter to what is chosen.
LEMMA OnlyAlike ==
  ASSUME NEW seq, IsSequence(seq), NEW a, NEW b, ToSet(seq) \cap a = ToSet(seq) \cap b
  PROVE  Only(seq, a) = Only(seq, b)
<1> DEFINE ctx == [seq |-> seq, chosen |-> a]
<1>1. DOMAIN seq = 1 .. Len(seq) /\ Len(seq) \in Nat
  BY SequenceIsSequence DEF IsSequence
<1>2. /\ OnlySoFar(ctx, 0, <<>>)
      /\ \A i \in 1 .. Len(seq) : \A acc :
            OnlySoFar(ctx, i-1, acc) => OnlySoFar(ctx, i, OnlyStep(a, None, acc, seq[i]))
  BY OnlyKept
<1>3. \A i \in 1 .. Len(seq) : \A acc :
         OnlyStep(a, None, acc, seq[i]) = OnlyStep(b, None, acc, seq[i])
  BY <1>1 DEF OnlyStep, ToSet
<1> HIDE DEF ctx
<1>4. Selecting!Folded(a, None, <<>>, seq) = Selecting!Folded(b, None, <<>>, seq)
  BY <1>1, <1>2, <1>3, Selecting!FoldAgreement
<1> QED
  BY <1>4, OnlyFolded

(***************************************************************************)
(* Steps.  A step the registry accepts has the contract's preconditions    *)
(* and effects, over fields and values.                                    *)
(***************************************************************************)
LEMMA ContractFound ==
  ASSUME NEW c \in ToSet(Contracts)
  PROVE  c.name \in SkillNames /\ Contract(c.name) = c
<1>1. PICK i \in DOMAIN Contracts : Contracts[i] = c
  BY DEF ToSet
<1>2. \A j \in DOMAIN Contracts : Contracts[j].name = c.name => j = i
  BY <1>1, RegistryAssumption
<1>3. (CHOOSE j \in DOMAIN Contracts : Contracts[j].name = c.name) = i
  BY <1>1, <1>2
<1> QED
  BY <1>1, <1>3 DEF SkillNames, Contract

LEMMA ContractOfSkill ==
  ASSUME NEW name \in SkillNames
  PROVE  Contract(name) \in ToSet(Contracts) /\ IsContract(Contract(name))
<1>1. Contract(name) \in ToSet(Contracts)
  BY DEF SkillNames, Contract, ToSet
<1> QED
  BY <1>1, RegistryAssumption

\* A template resolves to a field.
LEMMA Resolves ==
  ASSUME NEW c, NEW args, ValidArguments(c, args), NEW t, IsTemplate(c, t)
  PROVE  Resolve(t, args) \in Fields
<1>1. CASE t.by = None
  BY <1>1 DEF IsTemplate, Resolve
<1>2. CASE t.by # None
  <2>1. t.by \in DOMAIN args /\ args[t.by] \in c.params[t.by].domain
    BY <1>2 DEF IsTemplate, ValidArguments
  <2> QED
    BY <1>2, <2>1 DEF IsTemplate, Resolve
<1> QED
  BY <1>1, <1>2

Condition == [field : Fields, expected : Value, ages : BOOLEAN]

\* The preconditions that fail are conditions on fields.
LEMMA FailuresTyped ==
  ASSUME NEW step, ValidStep(step), NEW s
  PROVE  /\ IsSequence(Preconditions(step)) /\ ToSet(Preconditions(step)) \subseteq Condition
         /\ Failures(s, step) \in Seq(Condition)
         /\ ToSet(Failures(s, step)) = {p \in ToSet(Preconditions(step)) : ~Satisfied(s, p)}
<1> DEFINE c == Contract(step.skill)
           pre == Preconditions(step)
<1>1. IsContract(c) /\ ValidArguments(c, step.args)
  BY ContractOfSkill DEF ValidStep
<1>2. IsSequence(c.pre) /\ DOMAIN c.pre = 1 .. Len(c.pre) /\ Len(c.pre) \in Nat
  BY <1>1, SequenceIsSequence DEF IsContract
<1>3. pre = [i \in 1 .. Len(c.pre) |-> [field    |-> Resolve(c.pre[i].field, step.args),
                                       expected |-> c.pre[i].expected,
                                       ages     |-> c.pre[i].ages]]
  BY <1>2 DEF Preconditions
<1>4. \A i \in 1 .. Len(c.pre) : pre[i] \in Condition
  <2> SUFFICES ASSUME NEW i \in 1 .. Len(c.pre) PROVE pre[i] \in Condition
    OBVIOUS
  <2>1. IsPrecondition(c, c.pre[i])
    BY <1>1, <1>2 DEF IsContract, ToSet
  <2>2. Resolve(c.pre[i].field, step.args) \in Fields
    BY <1>1, <2>1, Resolves DEF IsPrecondition
  <2> QED
    BY <1>3, <2>1, <2>2 DEF IsPrecondition, Condition
<1> HIDE DEF pre
<1>5. IsSequence(pre) /\ ToSet(pre) \subseteq Condition
  <2>1. pre = [i \in 1 .. Len(c.pre) |-> pre[i]] /\ DOMAIN pre = 1 .. Len(c.pre)
    BY <1>3
  <2> QED
    BY <1>2, <1>4, <2>1, FunctionIsSequence DEF ToSet
<1>6. Failures(s, step) = Only(pre, {p \in ToSet(pre) : ~Satisfied(s, p)})
  BY DEF Failures, pre
<1>7. Failures(s, step) \in Seq(ToSet(pre))
      /\ ToSet(Failures(s, step)) = {p \in ToSet(pre) : ~Satisfied(s, p)}
  <2> DEFINE failing == {p \in ToSet(pre) : ~Satisfied(s, p)}
  <2>1. ToSet(pre) \cap failing = failing /\ failing \subseteq ToSet(pre)
    OBVIOUS
  <2> HIDE DEF failing
  <2>2. Only(pre, failing) \in Seq(failing) /\ ToSet(Only(pre, failing)) = failing
    BY <1>5, <2>1, OnlyChosen
  <2> QED
    BY <1>6, <2>1, <2>2, SeqMonotonic DEF failing
<1> QED
  BY <1>5, <1>7, SeqMonotonic DEF pre

\* The effects are values for fields.
LEMMA EffectsTyped ==
  ASSUME NEW step, ValidStep(step), NEW s, s.val \in [Fields -> Value]
  PROVE  ExpectedEffects(step, s) \in Seq(Effect)
<1> DEFINE c == Contract(step.skill)
           chosen == {e \in ToSet(c.effects) : e.when = None \/ e.when \in DOMAIN step.args}
           active == Only(c.effects, chosen)
<1>1. IsContract(c) /\ ValidArguments(c, step.args)
  BY ContractOfSkill DEF ValidStep
<1>2. active \in Seq(chosen)
  <2>1. IsSequence(c.effects) /\ ToSet(c.effects) \cap chosen = chosen
    BY <1>1 DEF IsContract, IsSequence
  <2> HIDE DEF chosen
  <2> QED
    BY <2>1, OnlyChosen
<1>3. ExpectedEffects(step, s) =
        [i \in DOMAIN active |-> [field |-> Resolve(active[i].field, step.args),
                                 value |-> ExpectedValue(active[i], step.args, s)]]
  BY DEF ExpectedEffects, Active, Predicted
<1>4. ASSUME NEW e \in chosen
      PROVE  Resolve(e.field, step.args) \in Fields /\ ExpectedValue(e, step.args, s) \in Value
  <2>1. IsEffect(c, e)
    BY <1>1 DEF IsContract
  <2>2. Resolve(e.field, step.args) \in Fields
    BY <1>1, <2>1, Resolves DEF IsEffect
  <2>3. s.val[Resolve(e.field, step.args)] \in Value
    BY <2>2
  <2> DEFINE operand == IF e.argument = None THEN e.value ELSE step.args[e.argument]
  <2>4. operand \in IF e.operation = "assign" THEN Value ELSE Int
    <3>1. CASE e.argument = None
      BY <2>1, <3>1 DEF IsEffect
    <3>2. CASE e.argument # None
      <4>1. e.argument \in DOMAIN step.args
        BY <1>1, <2>1, <3>2 DEF IsEffect, ValidArguments
      <4>2. step.args[e.argument] \in c.params[e.argument].domain
        BY <1>1, <4>1 DEF ValidArguments
      <4> QED
        BY <2>1, <3>2, <4>2 DEF IsEffect
    <3> QED
      BY <3>1, <3>2
  <2> HIDE DEF operand
  <2>5. ExpectedValue(e, step.args, s) =
           IF e.operation = "assign" THEN operand
           ELSE IF s.val[Resolve(e.field, step.args)] = None THEN None
           ELSE s.val[Resolve(e.field, step.args)] + operand
    BY <2>2 DEF ExpectedValue, RawValue, operand
  <2> QED
    BY <2>2, <2>3, <2>4, <2>5 DEF Value
<1> HIDE DEF chosen, active
<1>5. Len(active) \in Nat /\ DOMAIN active = 1 .. Len(active)
      /\ \A i \in 1 .. Len(active) : active[i] \in chosen
  BY <1>2, LenProperties, ElementOfSeq
<1>6. ExpectedEffects(step, s) \in [1 .. Len(active) -> Effect]
  BY <1>3, <1>4, <1>5 DEF Effect
<1> QED
  BY <1>5, <1>6, SeqDef

\* The state a change leads to: the last value given for a field is its value.
LEMMA WithTyped ==
  ASSUME NEW s \in States, NEW changes \in Seq(Effect)
  PROVE  /\ With(s, changes) \in States
         /\ With(s, changes) = [s EXCEPT !.val = With(s, changes).val]
         /\ \A i \in DOMAIN changes : \E j \in DOMAIN changes :
               /\ changes[j].field = changes[i].field
               /\ changes[j].value = RawValue(With(s, changes), changes[i].field)
         /\ \A f \in Fields : \/ \E i \in DOMAIN changes : changes[i].field = f
                              \/ With(s, changes).val[f] = s.val[f]
<1> DEFINE changed == {changes[i].field : i \in DOMAIN changes}
           last(f) == CHOOSE i \in DOMAIN changes :
                         /\ changes[i].field = f
                         /\ \A j \in i+1 .. Len(changes) : changes[j].field # f
           val == [f \in DOMAIN s.val \cup changed |->
                      IF f \in changed THEN changes[last(f)].value ELSE s.val[f]]
<1>1. With(s, changes) = [s EXCEPT !.val = val]
  BY DEF With
<1>2. /\ DOMAIN changes = 1 .. Len(changes) /\ Len(changes) \in Nat
      /\ \A i \in 1 .. Len(changes) : changes[i].field \in Fields /\ changes[i].value \in Value
  <2>1. DOMAIN changes = 1 .. Len(changes) /\ Len(changes) \in Nat
    BY LenProperties
  <2>2. \A i \in 1 .. Len(changes) : changes[i] \in Effect
    BY ElementOfSeq
  <2> QED
    BY <2>1, <2>2 DEF Effect
<1>3. s.val \in [Fields -> Value] /\ changed \subseteq Fields
  BY <1>2 DEF States
<1>4. ASSUME NEW f \in changed
      PROVE  last(f) \in 1 .. Len(changes) /\ changes[last(f)].field = f
  <2> DEFINE at == {i \in 1 .. Len(changes) : changes[i].field = f}
  <2>1. at # {} /\ at \subseteq 1 .. Len(changes)
    BY <1>2
  <2>2. PICK m \in at : \A i \in at : i <= m
    BY <1>2, <2>1, Selecting!MaxInRange
  <2>3. \A j \in m+1 .. Len(changes) : changes[j].field # f
    <3> SUFFICES ASSUME NEW j \in m+1 .. Len(changes), changes[j].field = f PROVE FALSE
      OBVIOUS
    <3>1. m \in 1 .. Len(changes) /\ j \in 1 .. Len(changes) /\ j > m
      BY <1>2, <2>2
    <3> QED
      BY <2>2, <3>1
  <2> QED
    BY <1>2, <2>2, <2>3
<1>5. val \in [Fields -> Value]
  <2> HIDE DEF changed, last
  <2>1. DOMAIN s.val \cup changed = Fields
    BY <1>3
  <2>2. \A f \in Fields : (IF f \in changed THEN changes[last(f)].value ELSE s.val[f]) \in Value
    BY <1>2, <1>3, <1>4
  <2> QED
    BY <2>1, <2>2
<1>6. ASSUME NEW i \in DOMAIN changes
      PROVE  \E j \in DOMAIN changes : /\ changes[j].field = changes[i].field
                                       /\ changes[j].value = val[changes[i].field]
  <2> DEFINE f == changes[i].field
  <2>1. f \in changed /\ f \in DOMAIN s.val \cup changed
    OBVIOUS
  <2> HIDE DEF last
  <2>2. val[f] = changes[last(f)].value
    BY <2>1
  <2> QED
    BY <1>2, <1>4, <2>1, <2>2
<1> HIDE DEF val
<1>7. With(s, changes).val = val
  BY <1>1 DEF States
<1>8. \A i \in DOMAIN changes : RawValue(With(s, changes), changes[i].field)
                                  = val[changes[i].field]
  BY <1>2, <1>5, <1>7 DEF RawValue
<1>9. With(s, changes) \in States
  BY <1>1, <1>5 DEF States
<1>10. With(s, changes) = [s EXCEPT !.val = With(s, changes).val]
  BY <1>1, <1>7
<1>11. \A f \in Fields : f \in changed \/ val[f] = s.val[f]
  BY <1>3 DEF val
<1> QED
  BY <1>6, <1>7, <1>8, <1>9, <1>10, <1>11

\* A valid step leads from states to states.
LEMMA StepLeads ==
  ASSUME NEW s \in States, NEW step, ValidStep(step)
  PROVE  /\ ExpectedEffects(step, s) \in Seq(Effect)
         /\ With(s, ExpectedEffects(step, s)) \in States
<1>1. s.val \in [Fields -> Value]
  BY DEF States
<1> QED
  BY <1>1, EffectsTyped, WithTyped

(***************************************************************************)
(* Candidates.                                                             *)
(***************************************************************************)
\* A step that a repair may insert: valid, of no blocked skill, on its own.
Usable(step, excluded) ==
    IsStep(step) /\ ValidStep(step) /\ step.skill \notin excluded /\ step.group = None

\* Every candidate inverts an effect of a skill that is not excluded.
IsCandidate(step, c, e, f, target, s, excluded) ==
    /\ step = [id |-> <<"candidate", 0, 0, f>>, skill |-> c.name, args |-> step.args,
               effect |-> <<[field |-> f, value |-> target]>>, group |-> None]
    /\ c.name \notin excluded
    /\ ValidArguments(c, step.args)
    /\ step.args \in Inversions(e, f, target, s)

LEMMA CandidatesInvert ==
  ASSUME NEW f, NEW target, NEW s, NEW excluded
  PROVE  /\ IsSequence(Candidates(f, target, s, excluded))
         /\ \A step \in ToSet(Candidates(f, target, s, excluded)) :
               \E c \in ToSet(Contracts) : \E e \in ToSet(c.effects) :
                  IsCandidate(step, c, e, f, target, s, excluded)
<1> DEFINE fits(c, i) == {a \in Inversions(c.effects[i], f, target, s) : ValidArguments(c, a)}
           usable(c)  == {i \in DOMAIN c.effects : fits(c, i) # {}}
           first(c)   == CHOOSE i \in usable(c) : \A j \in usable(c) : i <= j
           right      == {c \in ToSet(Contracts) : c.name \notin excluded /\ usable(c) # {}}
           chosen     == Only(Contracts, right)
           args(c)    == CHOOSE a \in fits(c, first(c)) : TRUE
           all        == Candidates(f, target, s, excluded)
<1>1. all = [n \in DOMAIN chosen |->
                [id     |-> <<"candidate", 0, 0, f>>,
                 skill  |-> chosen[n].name,
                 args   |-> args(chosen[n]),
                 effect |-> <<[field |-> f, value |-> target]>>,
                 group  |-> None]]
  BY DEF Candidates
<1>2. chosen \in Seq(right)
  <2>1. IsSequence(Contracts) /\ ToSet(Contracts) \cap right = right
    BY RegistryAssumption DEF IsSequence
  <2> HIDE DEF right
  <2> QED
    BY <2>1, OnlyChosen
<1>3. ASSUME NEW c \in right
      PROVE  /\ c.name \notin excluded /\ c \in ToSet(Contracts) /\ ValidArguments(c, args(c))
             /\ \E e \in ToSet(c.effects) : args(c) \in Inversions(e, f, target, s)
  <2>1. usable(c) # {} /\ c \in ToSet(Contracts) /\ c.name \notin excluded
    OBVIOUS
  <2>2. IsSequence(c.effects)
    BY <2>1, RegistryAssumption DEF IsContract, IsSequence
  <2>3. DOMAIN c.effects = 1 .. Len(c.effects) /\ Len(c.effects) \in Nat
    BY <2>2, SequenceIsSequence DEF IsSequence
  <2>4. usable(c) \subseteq Nat
    BY <2>3
  <2> HIDE DEF fits
  <2>5. \E i \in usable(c) : \A j \in usable(c) : i <= j
    <3> HIDE DEF usable
    <3> QED
      BY <2>1, <2>4, Selecting!LeastNumber
  <2>6. first(c) \in usable(c)
    <3> HIDE DEF usable
    <3> QED
      BY <2>5
  <2>7. fits(c, first(c)) # {} /\ first(c) \in DOMAIN c.effects
    BY <2>6
  <2>8. args(c) \in fits(c, first(c))
    BY <2>7
  <2>9. ValidArguments(c, args(c)) /\ args(c) \in Inversions(c.effects[first(c)], f, target, s)
    <3> HIDE DEF args, first
    <3> QED
      BY <2>8 DEF fits
  <2>10. c.effects[first(c)] \in ToSet(c.effects)
    <3> HIDE DEF first
    <3> QED
      BY <2>7 DEF ToSet
  <2> QED
    BY <2>1, <2>9, <2>10
<1> HIDE DEF right, args, chosen
<1>4. Len(chosen) \in Nat /\ DOMAIN chosen = 1 .. Len(chosen)
      /\ \A n \in 1 .. Len(chosen) : chosen[n] \in right
  BY <1>2, LenProperties, ElementOfSeq
<1>5. ASSUME NEW n \in 1 .. Len(chosen)
      PROVE  \E c \in ToSet(Contracts) : \E e \in ToSet(c.effects) :
                IsCandidate(all[n], c, e, f, target, s, excluded)
  <2> DEFINE c == chosen[n]
  <2>1. all[n] = [id |-> <<"candidate", 0, 0, f>>, skill |-> c.name, args |-> args(c),
                  effect |-> <<[field |-> f, value |-> target]>>, group |-> None]
    BY <1>1, <1>4
  <2>2. c.name \notin excluded /\ c \in ToSet(Contracts) /\ ValidArguments(c, args(c))
    BY <1>3, <1>4
  <2>3. PICK e \in ToSet(c.effects) : args(c) \in Inversions(e, f, target, s)
    BY <1>3, <1>4
  <2> HIDE DEF c
  <2>4. all[n].args = args(c)
    BY <2>1
  <2>5. IsCandidate(all[n], c, e, f, target, s, excluded)
    BY <2>1, <2>2, <2>3, <2>4 DEF IsCandidate
  <2> QED
    BY <2>2, <2>3, <2>5
<1>6. DOMAIN all = 1 .. Len(chosen) /\ all = [n \in 1 .. Len(chosen) |-> all[n]]
  BY <1>1, <1>4
<1> HIDE DEF all
<1>7. IsSequence(all)
  BY <1>4, <1>6, FunctionIsSequence
<1> QED
  BY <1>5, <1>6, <1>7 DEF all, ToSet

\* The registry synthesizes usable steps only.
LEMMA CandidatesUsable ==
  ASSUME NEW f, NEW target, NEW s, NEW excluded
  PROVE  /\ IsSequence(Candidates(f, target, s, excluded))
         /\ \A step \in ToSet(Candidates(f, target, s, excluded)) : Usable(step, excluded)
<1> SUFFICES ASSUME NEW step \in ToSet(Candidates(f, target, s, excluded))
             PROVE  Usable(step, excluded)
  BY CandidatesInvert
<1>1. PICK c \in ToSet(Contracts) : \E e \in ToSet(c.effects) :
              IsCandidate(step, c, e, f, target, s, excluded)
  BY CandidatesInvert
<1>2. c.name \in SkillNames /\ Contract(c.name) = c
  BY ContractFound
<1>3. IsStep(step) /\ step.skill = c.name /\ step.group = None
  BY <1>1 DEF IsCandidate, IsStep, StepFields
<1> QED
  BY <1>1, <1>2, <1>3 DEF Usable, ValidStep, IsCandidate

\* An effect that depends on an argument is chosen by that argument alone.
Inverting ==
    \A c \in ToSet(Contracts) : \A e \in ToSet(c.effects) :
        e.when \in {None, e.argument} /\ (e.argument # None => e.argument # e.field.by)

Declares(step, f, target) == step.effect = <<[field |-> f, value |-> target]>>

ActsOn(step, s, f) ==
    \E j \in DOMAIN ExpectedEffects(step, s) : ExpectedEffects(step, s)[j].field = f

\* A candidate acts on the field it was synthesized for.
LEMMA CandidatesAct ==
  ASSUME Inverting, NEW f, NEW target, NEW s, NEW excluded,
         NEW step \in ToSet(Candidates(f, target, s, excluded)), NEW t
  PROVE  Declares(step, f, target) /\ ActsOn(step, t, f)
<1>0. PICK c \in ToSet(Contracts) : \E e \in ToSet(c.effects) :
              IsCandidate(step, c, e, f, target, s, excluded)
  BY CandidatesInvert
<1>1. PICK e \in ToSet(c.effects) : IsCandidate(step, c, e, f, target, s, excluded)
  BY <1>0
<1>2. /\ step.skill = c.name /\ step.effect = <<[field |-> f, value |-> target]>>
      /\ ValidArguments(c, step.args) /\ step.args \in Inversions(e, f, target, s)
  BY <1>1 DEF IsCandidate
<1>3. Contract(step.skill) = c /\ IsContract(c) /\ IsEffect(c, e)
  BY <1>2, ContractFound, RegistryAssumption DEF IsContract
<1>4. PICK b \in DOMAIN e.field.at :
         /\ e.field.at[b] = f
         /\ LET bound == IF e.field.by = None THEN <<>> ELSE Bind(e.field.by, b, <<>>)
            IN  \/ step.args = bound /\ e.argument = None
                \/ /\ e.argument # None
                   /\ \E v : step.args = Bind(e.argument, v, bound)
  BY <1>2 DEF Inversions
<1>5. Resolve(e.field, step.args) = f
  <2>1. CASE e.field.by = None
    BY <1>3, <1>4, <2>1 DEF Resolve, IsEffect, IsTemplate
  <2>2. CASE e.field.by # None
    <3>1. step.args[e.field.by] = b
      BY <1>4, <2>2 DEF Bind, Inverting
    <3> QED
      BY <1>4, <2>2, <3>1 DEF Resolve
  <2> QED
    BY <2>1, <2>2
<1>6. e.when = None \/ e.when \in DOMAIN step.args
  BY <1>4 DEF Bind, Inverting
<1> DEFINE chosen == {d \in ToSet(c.effects) : d.when = None \/ d.when \in DOMAIN step.args}
           active == Only(c.effects, chosen)
<1>7. ExpectedEffects(step, t) =
        [i \in DOMAIN active |-> [field |-> Resolve(active[i].field, step.args),
                                 value |-> ExpectedValue(active[i], step.args, t)]]
  BY <1>3 DEF ExpectedEffects, Active, Predicted
<1>8. ToSet(active) = chosen /\ e \in chosen
  <2>1. IsSequence(c.effects) /\ ToSet(c.effects) \cap chosen = chosen
    BY <1>3 DEF IsContract, IsSequence
  <2>2. e \in chosen
    BY <1>6
  <2> HIDE DEF chosen
  <2> QED
    BY <2>1, <2>2, OnlyChosen
<1> HIDE DEF active, chosen
<1>9. PICK j \in DOMAIN active : active[j] = e
  BY <1>8 DEF ToSet
<1> QED
  BY <1>2, <1>5, <1>7, <1>9 DEF ActsOn, Declares

(***************************************************************************)
(* Paths.  The steps of a path are taken one after the other: the          *)
(* preconditions of each hold in the state the one before it leads to.     *)
(* The rules of a path say which skills are excluded and whether the steps *)
(* are exact: whether each has the effects it declares.                    *)
(***************************************************************************)
Exact(step, s) ==
    \A i \in DOMAIN step.effect :
        \E j \in DOMAIN ExpectedEffects(step, s) : ExpectedEffects(step, s)[j] = step.effect[i]

Taken(step, s, t, rules) ==
    /\ Usable(step, rules.excluded)
    /\ Failures(s, step) = <<>>
    /\ t = With(s, ExpectedEffects(step, s))
    /\ rules.exact => Exact(step, s)

IsTrace(tr, s, steps, t, rules) ==
    /\ tr[0] = s /\ tr[Len(steps)] = t
    /\ \A i \in 1 .. Len(steps) : Taken(steps[i], tr[i-1], tr[i], rules)

Leads(s, steps, t, rules) ==
    /\ IsSequence(steps)
    /\ \E tr \in [0 .. Len(steps) -> States] : IsTrace(tr, s, steps, t, rules)

LEMMA LeadsBetween ==
  ASSUME NEW s, NEW steps, NEW t, NEW rules, Leads(s, steps, t, rules)
  PROVE  /\ s \in States /\ t \in States
         /\ IsSequence(steps) /\ Len(steps) \in Nat /\ DOMAIN steps = 1 .. Len(steps)
         /\ \A step \in ToSet(steps) : Usable(step, rules.excluded)
<1>1. IsSequence(steps) /\ Len(steps) \in Nat /\ DOMAIN steps = 1 .. Len(steps)
  BY SequenceIsSequence DEF Leads, IsSequence
<1>2. PICK tr \in [0 .. Len(steps) -> States] : IsTrace(tr, s, steps, t, rules)
  BY DEF Leads
<1>3. s \in States /\ t \in States
  BY <1>1, <1>2 DEF IsTrace
<1>4. \A i \in 1 .. Len(steps) : Usable(steps[i], rules.excluded)
  BY <1>2 DEF IsTrace, Taken
<1> QED
  BY <1>1, <1>3, <1>4 DEF ToSet

LEMMA LeadsNowhere ==
  ASSUME NEW s \in States, NEW rules
  PROVE  Leads(s, <<>>, s, rules)
<1> DEFINE tr == [i \in 0 .. Len(<<>>) |-> s]
<1>1. IsSequence(<<>>) /\ Len(<<>>) = 0
  BY DEF IsSequence
<1>2. tr \in [0 .. Len(<<>>) -> States] /\ IsTrace(tr, s, <<>>, s, rules)
  BY <1>1 DEF IsTrace
<1> QED
  BY <1>1, <1>2 DEF Leads

LEMMA LeadsOn ==
  ASSUME NEW s, NEW steps, NEW t, NEW rules, Leads(s, steps, t, rules),
         NEW step, Usable(step, rules.excluded), Failures(t, step) = <<>>,
         rules.exact => Exact(step, t)
  PROVE  Leads(s, Append(steps, step), With(t, ExpectedEffects(step, t)), rules)
<1> DEFINE more == Append(steps, step)
           last == With(t, ExpectedEffects(step, t))
           m == Len(steps)
<1>1. /\ t \in States /\ m \in Nat
      /\ IsSequence(more) /\ Len(more) = m + 1 /\ more[m + 1] = step
      /\ \A i \in 1 .. m : more[i] = steps[i]
  BY LeadsBetween, AppendMembers
<1>2. last \in States
  BY <1>1, StepLeads DEF Usable
<1>3. PICK tr \in [0 .. m -> States] : IsTrace(tr, s, steps, t, rules)
  BY DEF Leads
<1> DEFINE on == [i \in 0 .. m + 1 |-> IF i <= m THEN tr[i] ELSE last]
<1>4. Taken(step, t, last, rules)
  BY DEF Taken
<1> HIDE DEF more, last, m
<1>5. on \in [0 .. m + 1 -> States]
  BY <1>1, <1>2, <1>3
<1>6. /\ on[0] = s /\ on[m + 1] = last /\ on[m] = t
      /\ \A i \in 1 .. m : on[i] = tr[i] /\ on[i-1] = tr[i-1]
  BY <1>1, <1>3 DEF IsTrace, m
<1> HIDE DEF on
<1>7. ASSUME NEW i \in 1 .. m + 1 PROVE Taken(more[i], on[i-1], on[i], rules)
  <2>1. CASE i = m + 1
    <3>1. i - 1 = m
      BY <1>1, <2>1
    <3> QED
      BY <1>1, <1>4, <1>6, <2>1, <3>1
  <2>2. CASE i \in 1 .. m
    BY <1>1, <1>3, <1>6, <2>2 DEF IsTrace, m
  <2> QED
    BY <1>1, <2>1, <2>2
<1>8. IsTrace(on, s, more, last, rules)
  BY <1>1, <1>6, <1>7 DEF IsTrace
<1> QED
  BY <1>1, <1>5, <1>8 DEF Leads, more, last

LEMMA LeadsFurther ==
  ASSUME NEW s, NEW a, NEW t, NEW b, NEW u, NEW rules,
         Leads(s, a, t, rules), Leads(t, b, u, rules)
  PROVE  Leads(s, a \o b, u, rules)
<1> DEFINE m == Len(a)
           n == Len(b)
           all == a \o b
<1>1. /\ m \in Nat /\ n \in Nat /\ IsSequence(all) /\ Len(all) = m + n
      /\ \A i \in 1 .. m : all[i] = a[i]
      /\ \A i \in 1 .. n : all[m + i] = b[i]
  BY LeadsBetween, ConcatMembers
<1>2. PICK f \in [0 .. m -> States] : IsTrace(f, s, a, t, rules)
  BY DEF Leads
<1>3. PICK g \in [0 .. n -> States] : IsTrace(g, t, b, u, rules)
  BY DEF Leads
<1>4. /\ f[0] = s /\ f[m] = t /\ g[0] = t /\ g[n] = u
      /\ \A i \in 1 .. m : Taken(a[i], f[i-1], f[i], rules)
      /\ \A i \in 1 .. n : Taken(b[i], g[i-1], g[i], rules)
  BY <1>2, <1>3 DEF IsTrace
<1> DEFINE tr == [i \in 0 .. m + n |-> IF i <= m THEN f[i] ELSE g[i - m]]
<1> HIDE DEF m, n, all
<1>5. tr \in [0 .. m + n -> States]
  BY <1>1, <1>2, <1>3
<1>6. /\ \A i \in 0 .. m : tr[i] = f[i]
      /\ \A i \in 0 .. n : tr[m + i] = g[i]
  <2>1. \A i \in 0 .. m : tr[i] = f[i]
    BY <1>1
  <2>2. tr[m + 0] = g[0]
    BY <1>1, <1>4, <2>1
  <2>3. \A i \in 1 .. n : tr[m + i] = g[i]
    BY <1>1
  <2> QED
    BY <1>1, <2>1, <2>2, <2>3
<1> HIDE DEF tr
<1>7. ASSUME NEW i \in 1 .. m + n PROVE Taken(all[i], tr[i-1], tr[i], rules)
  <2>1. CASE i <= m
    <3>1. i \in 1 .. m /\ i \in 0 .. m /\ i - 1 \in 0 .. m
      BY <1>1, <2>1
    <3> QED
      BY <1>1, <1>4, <1>6, <3>1
  <2>2. CASE i > m
    <3> DEFINE j == i - m
    <3>1. /\ j \in 1 .. n /\ j \in 0 .. n /\ j - 1 \in 0 .. n
          /\ i = m + j /\ i - 1 = m + (j - 1)
      BY <1>1, <2>2
    <3> HIDE DEF j
    <3>2. all[i] = b[j] /\ tr[i-1] = g[j-1] /\ tr[i] = g[j]
      BY <1>1, <1>6, <3>1
    <3> QED
      BY <1>4, <3>1, <3>2
  <2> QED
    BY <1>1, <2>1, <2>2
<1>8. IsTrace(tr, s, all, u, rules)
  <2>1. 0 \in 0 .. m /\ n \in 0 .. n
    BY <1>1
  <2> QED
    BY <1>1, <1>4, <1>6, <1>7, <2>1 DEF IsTrace
<1> QED
  BY <1>1, <1>5, <1>8 DEF Leads, all

\* A path is told by the skills, arguments and declared effects of its steps.
LEMMA LeadsAlike ==
  ASSUME NEW s, NEW a, NEW t, NEW rules, Leads(s, a, t, rules),
         NEW b, IsSequence(b), Len(b) = Len(a),
         \A i \in 1 .. Len(a) :
            /\ IsStep(b[i]) /\ b[i].group = None
            /\ b[i].skill = a[i].skill /\ b[i].args = a[i].args /\ b[i].effect = a[i].effect
  PROVE  Leads(s, b, t, rules)
<1>1. PICK tr \in [0 .. Len(a) -> States] : IsTrace(tr, s, a, t, rules)
  BY DEF Leads
<1>2. ASSUME NEW i \in 1 .. Len(a) PROVE Taken(b[i], tr[i-1], tr[i], rules)
  <2>1. Taken(a[i], tr[i-1], tr[i], rules)
    BY <1>1 DEF IsTrace
  <2>2. Preconditions(b[i]) = Preconditions(a[i])
    BY DEF Preconditions
  <2>3. Failures(tr[i-1], b[i]) = Failures(tr[i-1], a[i])
    BY <2>2 DEF Failures
  <2>4. ExpectedEffects(b[i], tr[i-1]) = ExpectedEffects(a[i], tr[i-1])
    BY DEF ExpectedEffects, Active, Predicted
  <2> QED
    BY <2>1, <2>3, <2>4 DEF Taken, Usable, ValidStep, Exact
<1>3. IsTrace(tr, s, b, t, rules)
  BY <1>1, <1>2 DEF IsTrace
<1> QED
  BY <1>1, <1>3 DEF Leads

\* A path stays one when the rules are relaxed.
LEMMA LeadsLoosely ==
  ASSUME NEW s, NEW steps, NEW t, NEW strict, NEW loose, Leads(s, steps, t, strict),
         loose.excluded = strict.excluded, loose.exact => strict.exact
  PROVE  Leads(s, steps, t, loose)
BY DEF Leads, IsTrace, Taken

(***************************************************************************)
(* The search.  Whatever it answers are steps of a path from the state it  *)
(* was asked about; when it has found one, the path ends where the fact is *)
(* known.  It never spends more than the shared budget.                    *)
(***************************************************************************)
Spends(before, after) ==
    /\ after \in Nat /\ before <= after
    /\ after = before \/ after <= MaxExpansions

Rules(q) == [excluded |-> q.excluded, exact |-> Inverting]

Sound(q, r) ==
    /\ r = Answer(r.found, r.steps, r.s, r.spent)
    /\ r.found \in BOOLEAN
    /\ Spends(q.spent, r.spent)
    /\ Leads(q.s, r.steps, r.s, Rules(q))
    /\ r.found => KnownFact(r.s, q.field, q.target)

LEMMA SoundAnswer ==
  ASSUME NEW q, NEW found \in BOOLEAN, NEW steps, NEW s, NEW spent,
         Spends(q.spent, spent), Leads(q.s, steps, s, Rules(q)),
         found => KnownFact(s, q.field, q.target)
  PROVE  Sound(q, Answer(found, steps, s, spent))
<1> DEFINE r == Answer(found, steps, s, spent)
<1>1. r.found = found /\ r.steps = steps /\ r.s = s /\ r.spent = spent
  BY DEF Answer
<1> HIDE DEF r
<1>2. r = Answer(r.found, r.steps, r.s, r.spent)
  BY <1>1 DEF r
<1>3. Sound(q, r)
  BY <1>1, <1>2 DEF Sound
<1> QED
  BY <1>3 DEF r

\* The preparation of a candidate step, and what it has come to.
Prepared(search, q, best, step) ==
    FoldLeft(LAMBDA acc, p : Establish(search, q, acc, p),
             Answer(TRUE, <<>>, q.s, best.spent), Failures(q.s, step))

EstablishedSoFar(q, n, acc) ==
    /\ acc = Answer(acc.found, acc.steps, acc.s, acc.spent)
    /\ acc.found \in BOOLEAN
    /\ Spends(q.spent, acc.spent)
    /\ Leads(q.s, acc.steps, acc.s, Rules(q))

SoundSoFar(q, n, best) == Sound(q, best)

Establishing == INSTANCE Folding WITH Op <- Establish, Inv <- EstablishedSoFar

Trying == INSTANCE Folding WITH Op <- Try, Inv <- SoundSoFar

\* The requests one level below q.
Below(q) == {r \in Requests : r.depth = q.depth + 1}

LEMMA EstablishSound ==
  ASSUME NEW q \in Requests, NEW best, Sound(q, best),
         NEW g, NEW h, \A r \in Below(q) : Sound(r, g[r]) /\ g[r] = h[r],
         NEW step, ValidStep(step)
  PROVE  /\ EstablishedSoFar(q, 0, Prepared(g, q, best, step))
         /\ Prepared(g, q, best, step) = Prepared(h, q, best, step)
<1> DEFINE base == Answer(TRUE, <<>>, q.s, best.spent)
           seq  == Failures(q.s, step)
<1>1. /\ q.s \in States /\ q.field \in Fields /\ q.target \in Value /\ q.path \in SUBSET Fact
      /\ q.depth \in Nat /\ q.spent \in Nat /\ q.excluded \in SUBSET STRING
  BY DEF Requests
<1>2. EstablishedSoFar(q, 0, base)
  BY <1>1, LeadsNowhere DEF EstablishedSoFar, Answer, Sound
<1>3. /\ Len(seq) \in Nat /\ DOMAIN seq = 1 .. Len(seq)
      /\ \A i \in 1 .. Len(seq) : seq[i] \in Condition
  BY FailuresTyped, LenProperties, ElementOfSeq
<1>4. ASSUME NEW p \in Condition, NEW acc, EstablishedSoFar(q, 0, acc)
      PROVE  /\ EstablishedSoFar(q, 0, Establish(g, q, acc, p))
             /\ Establish(g, q, acc, p) = Establish(h, q, acc, p)
  <2>1. CASE ~acc.found
    BY <1>4, <2>1 DEF Establish
  <2>2. CASE acc.found
    <3> DEFINE r == [q EXCEPT !.field = p.field, !.target = p.expected, !.s = acc.s,
                              !.path = @ \cup {<<q.field, q.target>>},
                              !.depth = @ + 1, !.spent = acc.spent]
    <3>1. acc.s \in States /\ acc.spent \in Nat
      BY <1>4, LeadsBetween DEF EstablishedSoFar, Spends
    <3>2. p.field \in Fields /\ p.expected \in Value
      BY DEF Condition
    <3>3. q.path \cup {<<q.field, q.target>>} \in SUBSET Fact /\ q.depth + 1 \in Nat
      BY <1>1 DEF Fact
    <3>4. r \in Requests
      BY <1>1, <3>1, <3>2, <3>3 DEF Requests
    <3>5. r.s = acc.s /\ r.spent = acc.spent /\ r.excluded = q.excluded /\ r.depth = q.depth + 1
      BY DEF Requests
    <3>6. Establish(g, q, acc, p) = Joined(acc, g[r]) /\ Establish(h, q, acc, p) = Joined(acc, h[r])
      BY <2>2 DEF Establish
    <3>13. Rules(r) = Rules(q)
      BY <3>5 DEF Rules
    <3> HIDE DEF r
    <3>7. Sound(r, g[r]) /\ g[r] = h[r]
      BY <3>4, <3>5 DEF Below
    <3> DEFINE nested == g[r]
    <3>8. Leads(q.s, acc.steps, acc.s, Rules(q)) /\ Spends(q.spent, acc.spent)
      BY <1>4 DEF EstablishedSoFar
    <3>9. /\ Leads(acc.s, nested.steps, nested.s, Rules(q)) /\ Spends(acc.spent, nested.spent)
          /\ nested.found \in BOOLEAN
      BY <3>5, <3>7, <3>13 DEF Sound
    <3> HIDE DEF nested
    <3>10. Leads(q.s, acc.steps \o nested.steps, nested.s, Rules(q))
      BY <3>8, <3>9, LeadsFurther
    <3>11. Spends(q.spent, nested.spent)
      BY <1>1, <3>1, <3>8, <3>9, SearchBounds DEF Spends
    <3>12. EstablishedSoFar(q, 0, Joined(acc, nested))
      BY <3>9, <3>10, <3>11 DEF EstablishedSoFar, Joined, Answer
    <3> QED
      BY <3>6, <3>7, <3>12 DEF nested
  <2> QED
    BY <2>1, <2>2
<1>5. \A n, acc : EstablishedSoFar(q, n, acc) <=> EstablishedSoFar(q, 0, acc)
  BY DEF EstablishedSoFar
<1> HIDE DEF base, seq
<1>6. EstablishedSoFar(q, Len(seq), Establishing!Folded(g, q, base, seq))
  BY <1>2, <1>3, <1>4, <1>5, Establishing!FoldInduction
<1>7. Establishing!Folded(g, q, base, seq) = Establishing!Folded(h, q, base, seq)
  BY <1>2, <1>3, <1>4, <1>5, Establishing!FoldAgreement
<1>8. \A search : Establishing!Folded(search, q, base, seq)
                    = Prepared(search, q, best, step)
  BY DEF base, seq, Prepared, Establishing!Folded, FoldLeft, Establishing!FoldLeft,
         MapThenFoldSet, Establishing!MapThenFoldSet, Max, Establishing!Max
<1> QED
  BY <1>5, <1>6, <1>7, <1>8

LEMMA TrySound ==
  ASSUME NEW q \in Requests, NEW best, Sound(q, best),
         NEW g, NEW h, \A r \in Below(q) : Sound(r, g[r]) /\ g[r] = h[r],
         NEW step \in ToSet(Candidates(q.field, q.target, q.s, q.excluded))
  PROVE  Sound(q, Try(g, q, best, step)) /\ Try(g, q, best, step) = Try(h, q, best, step)
<1> DEFINE prefix  == Prepared(g, q, best, step)
           reached == With(prefix.s, ExpectedEffects(step, prefix.s))
<1>1. Usable(step, q.excluded) /\ ValidStep(step)
  BY CandidatesUsable DEF Usable
<1>2. EstablishedSoFar(q, 0, prefix) /\ prefix = Prepared(h, q, best, step)
  BY <1>1, EstablishSound
<1>3. /\ Try(g, q, best, step) = Better(best, step, q, prefix)
      /\ Try(h, q, best, step) = Better(best, step, q, Prepared(h, q, best, step))
  BY DEF Try, Prepared
<1>4. Better(best, step, q, prefix) =
        IF /\ prefix.found
           /\ Failures(prefix.s, step) = <<>>
           /\ KnownFact(reached, q.field, q.target)
           /\ best.found => Len(prefix.steps) + 1 < Len(best.steps)
        THEN Answer(TRUE, Append(prefix.steps, step), reached, prefix.spent)
        ELSE [best EXCEPT !.spent = prefix.spent]
  <2> HIDE DEF prefix
  <2> QED
    BY DEF Better
<1>5. /\ Spends(q.spent, prefix.spent)
      /\ Leads(q.s, prefix.steps, prefix.s, Rules(q))
  BY <1>2 DEF EstablishedSoFar
<1>6. Failures(prefix.s, step) = <<>> /\ KnownFact(reached, q.field, q.target)
        => Leads(q.s, Append(prefix.steps, step), reached, Rules(q))
  <2> SUFFICES ASSUME Failures(prefix.s, step) = <<>>, KnownFact(reached, q.field, q.target)
               PROVE  Leads(q.s, Append(prefix.steps, step), reached, Rules(q))
    OBVIOUS
  <2> DEFINE effects == ExpectedEffects(step, prefix.s)
  <2>1. prefix.s \in States /\ effects \in Seq(Effect)
    BY <1>1, <1>5, LeadsBetween, StepLeads
  <2>2. ASSUME Inverting PROVE Exact(step, prefix.s)
    <3>1. step.effect = <<[field |-> q.field, value |-> q.target]>>
      <4>1. Declares(step, q.field, q.target)
        BY <2>2, CandidatesAct
      <4> QED
        BY <4>1 DEF Declares
    <3>2. PICK i \in DOMAIN effects : effects[i].field = q.field
      <4> HIDE DEF prefix
      <4>1. ActsOn(step, prefix.s, q.field)
        BY <2>2, CandidatesAct
      <4> QED
        BY <4>1 DEF ActsOn
    <3>3. RawValue(reached, q.field) = q.target
      BY DEF KnownFact
    <3> HIDE DEF prefix, effects
    <3>4. PICK j \in DOMAIN effects : effects[j].field = q.field /\ effects[j].value = q.target
      BY <2>1, <3>2, <3>3, WithTyped DEF effects
    <3>5. effects[j] \in Effect
      BY <2>1, LenProperties, ElementOfSeq
    <3>6. effects[j] = [field |-> q.field, value |-> q.target]
      BY <3>4, <3>5 DEF Effect
    <3> QED
      BY <3>1, <3>6 DEF Exact, effects
  <2> HIDE DEF prefix
  <2> QED
    BY <1>1, <1>5, <2>2, LeadsOn DEF Rules
<1>7. [best EXCEPT !.spent = prefix.spent]
        = Answer(best.found, best.steps, best.s, prefix.spent)
  BY DEF Sound, Answer
<1>8. Sound(q, Answer(best.found, best.steps, best.s, prefix.spent))
  <2> HIDE DEF prefix
  <2> QED
    BY <1>5, SoundAnswer DEF Sound
<1> HIDE DEF prefix, reached
<1>9. Sound(q, Better(best, step, q, prefix))
  <2>1. CASE /\ Failures(prefix.s, step) = <<>> /\ KnownFact(reached, q.field, q.target)
             /\ Better(best, step, q, prefix)
                  = Answer(TRUE, Append(prefix.steps, step), reached, prefix.spent)
    BY <1>5, <1>6, <2>1, SoundAnswer
  <2> QED
    BY <1>4, <1>7, <1>8, <2>1
<1> QED
  BY <1>2, <1>3, <1>9

LEMMA SearchedSound ==
  ASSUME NEW q \in Requests,
         NEW g, NEW h, q.depth <= MaxDepth => \A r \in Below(q) : Sound(r, g[r]) /\ g[r] = h[r]
  PROVE  Sound(q, Searched(g, q)) /\ Searched(g, q) = Searched(h, q)
<1>1. q.s \in States /\ q.depth \in Nat /\ q.spent \in Nat
  BY DEF Requests
<1>2. Leads(q.s, <<>>, q.s, Rules(q)) /\ Spends(q.spent, q.spent)
  BY <1>1, LeadsNowhere DEF Spends
<1>3. CASE KnownFact(q.s, q.field, q.target)
  <2>1. Sound(q, Answer(TRUE, <<>>, q.s, q.spent))
    BY <1>2, <1>3, SoundAnswer, TRUE \in BOOLEAN
  <2> QED
    BY <1>3, <2>1 DEF Searched
<1>4. CASE /\ ~KnownFact(q.s, q.field, q.target)
           /\ <<q.field, q.target>> \in q.path \/ q.depth > MaxDepth \/ q.spent >= MaxExpansions
  <2>1. Sound(q, Answer(FALSE, <<>>, q.s, q.spent))
    BY <1>2, SoundAnswer, FALSE \in BOOLEAN
  <2> QED
    BY <1>4, <2>1 DEF Searched
<1>5. CASE /\ ~KnownFact(q.s, q.field, q.target)
           /\ ~(<<q.field, q.target>> \in q.path \/ q.depth > MaxDepth
                   \/ q.spent >= MaxExpansions)
  <2> DEFINE base == Answer(FALSE, <<>>, q.s, q.spent + 1)
             seq  == Candidates(q.field, q.target, q.s, q.excluded)
  <2>1. \A r \in Below(q) : Sound(r, g[r]) /\ g[r] = h[r]
    BY <1>1, <1>5, SearchBounds
  <2>2. Sound(q, base)
    <3>1. Spends(q.spent, q.spent + 1)
      BY <1>1, <1>5, SearchBounds DEF Spends
    <3> QED
      BY <1>2, <3>1, SoundAnswer
  <2>3. IsSequence(seq) /\ seq = Candidates(q.field, q.target, q.s, q.excluded)
    BY CandidatesInvert
  <2> HIDE DEF base, seq
  <2>4. Len(seq) \in Nat /\ DOMAIN seq = 1 .. Len(seq)
    BY <2>3, SequenceIsSequence DEF IsSequence
  <2>5. ASSUME NEW i \in 1 .. Len(seq), NEW best, SoundSoFar(q, i-1, best)
        PROVE  /\ SoundSoFar(q, i, Try(g, q, best, seq[i]))
               /\ Try(g, q, best, seq[i]) = Try(h, q, best, seq[i])
    <3>1. seq[i] \in ToSet(Candidates(q.field, q.target, q.s, q.excluded))
      BY <2>3, <2>4 DEF ToSet
    <3> QED
      BY <2>1, <2>5, <3>1, TrySound DEF SoundSoFar
  <2>6. SoundSoFar(q, Len(seq), Trying!Folded(g, q, base, seq))
    BY <2>2, <2>4, <2>5, Trying!FoldInduction DEF SoundSoFar
  <2>7. Trying!Folded(g, q, base, seq) = Trying!Folded(h, q, base, seq)
    BY <2>2, <2>4, <2>5, Trying!FoldAgreement DEF SoundSoFar
  <2>8. /\ Trying!Folded(g, q, base, seq)
             = FoldLeft(LAMBDA best, step : Try(g, q, best, step), base, seq)
        /\ Trying!Folded(h, q, base, seq)
             = FoldLeft(LAMBDA best, step : Try(h, q, best, step), base, seq)
    BY DEF Trying!Folded, FoldLeft, Trying!FoldLeft,
           MapThenFoldSet, Trying!MapThenFoldSet, Max, Trying!Max
  <2>9. /\ Searched(g, q) = FoldLeft(LAMBDA best, step : Try(g, q, best, step), base, seq)
        /\ Searched(h, q) = FoldLeft(LAMBDA best, step : Try(h, q, best, step), base, seq)
    BY <1>5 DEF Searched, base, seq
  <2> QED
    BY <2>6, <2>7, <2>8, <2>9 DEF SoundSoFar
<1> QED
  BY <1>3, <1>4, <1>5

\* The recursion is well founded: below MaxDepth nothing is asked.
LEMMA SearchDefined ==
  Search = [q \in Requests |-> Searched(Search, q)]
<1> DEFINE within(k) == {q \in Requests : q.depth + k > MaxDepth}
           good(g, k) == /\ g = [q \in within(k) |-> Searched(g, q)]
                         /\ \A q \in within(k) : Sound(q, g[q])
           S == {k \in Nat : \E g : good(g, k)}
<1>0. \A q \in Requests : q.depth \in Nat
  BY DEF Requests
<1>1. 0 \in S
  <2> DEFINE g == [q \in within(0) |-> Searched(<<>>, q)]
  <2>1. ASSUME NEW q \in within(0)
        PROVE  Sound(q, Searched(<<>>, q)) /\ Searched(<<>>, q) = Searched(g, q)
    <3>1. q \in Requests /\ ~(q.depth <= MaxDepth)
      BY <1>0, SearchBounds
    <3> HIDE DEF g
    <3> QED
      BY <3>1, SearchedSound
  <2>2. g = [q \in within(0) |-> Searched(g, q)] /\ \A q \in within(0) : Sound(q, g[q])
    BY <2>1
  <2> QED
    BY <2>2
<1>2. ASSUME NEW k \in Nat, k \in S PROVE k + 1 \in S
  <2>1. PICK f : good(f, k)
    BY <1>2
  <2> DEFINE g == [q \in within(k + 1) |-> Searched(f, q)]
  <2>2. ASSUME NEW q \in within(k + 1), q.depth <= MaxDepth
        PROVE  Below(q) \subseteq within(k)
    <3>1. \A r \in Below(q) : r.depth + k > MaxDepth /\ r \in Requests
      BY <1>0, SearchBounds DEF Below
    <3> QED
      BY <3>1
  <2>3. within(k) \subseteq within(k + 1)
    BY <1>0, SearchBounds
  <2>4. ASSUME NEW q \in within(k) PROVE Searched(f, q) = f[q] /\ Sound(q, f[q])
    BY <2>1
  <2> HIDE DEF within
  <2>5. \A q \in within(k) : g[q] = f[q]
    BY <2>3, <2>4
  <2>6. ASSUME NEW q \in within(k + 1)
        PROVE  Sound(q, Searched(f, q)) /\ Searched(f, q) = Searched(g, q)
    <3>1. q \in Requests
      BY DEF within
    <3>2. q.depth <= MaxDepth => \A r \in Below(q) : Sound(r, f[r]) /\ f[r] = g[r]
      BY <2>2, <2>4, <2>5
    <3> HIDE DEF g
    <3> QED
      BY <3>1, <3>2, SearchedSound
  <2>7. good(g, k + 1)
    BY <2>6
  <2> HIDE DEF good, g
  <2> QED
    BY <2>7
<1> HIDE DEF S
<1>3. MaxDepth + 1 \in S
  BY <1>1, <1>2, SearchBounds, Trying!SetInduction
<1>4. within(MaxDepth + 1) = Requests
  BY <1>0, SearchBounds
<1>5. PICK g : g = [q \in Requests |-> Searched(g, q)]
  BY <1>3, <1>4 DEF S
<1> QED
  BY <1>5 DEF Search

\* A path the search finds establishes what it was asked for, from evidence
\* it was given, by steps that are valid, of no excluded skill, and each of
\* whose preconditions hold when its turn comes; what it says of the budget
\* never exceeds max_expansions.
THEOREM SearchSound ==
  \A q \in Requests : Sound(q, Search[q])
<1> DEFINE S == {k \in Nat : \A q \in Requests : q.depth + k > MaxDepth => Sound(q, Search[q])}
<1>0. \A q \in Requests : q.depth \in Nat /\ Search[q] = Searched(Search, q)
  BY SearchDefined DEF Requests
<1>1. 0 \in S
  <2> SUFFICES ASSUME NEW q \in Requests, q.depth + 0 > MaxDepth PROVE Sound(q, Search[q])
    OBVIOUS
  <2>1. ~(q.depth <= MaxDepth)
    BY <1>0, SearchBounds
  <2>2. Sound(q, Searched(Search, q))
    BY <2>1, SearchedSound
  <2> QED
    BY <1>0, <2>2
<1>2. ASSUME NEW k \in Nat, k \in S PROVE k + 1 \in S
  <2> SUFFICES ASSUME NEW q \in Requests, q.depth + (k + 1) > MaxDepth
               PROVE  Sound(q, Search[q])
    OBVIOUS
  <2>1. \A r \in Below(q) : r \in Requests /\ r.depth + k > MaxDepth
    BY <1>0, SearchBounds DEF Below
  <2>2. \A r \in Below(q) : Sound(r, Search[r])
    BY <1>2, <2>1
  <2>3. Sound(q, Searched(Search, q))
    BY <2>2, SearchedSound
  <2> QED
    BY <1>0, <2>3
<1> HIDE DEF S
<1>3. MaxDepth + 1 \in S
  BY <1>1, <1>2, SearchBounds, Trying!SetInduction
<1>4. \A q \in Requests : q.depth + (MaxDepth + 1) > MaxDepth
  BY <1>0, SearchBounds
<1> QED
  BY <1>3, <1>4 DEF S

(***************************************************************************)
(* Goals.  Updating goal facts keeps them goal facts.                      *)
(***************************************************************************)
UpdateGoal(none1, none2, acc, e) ==
    IF e.value = None THEN acc
    ELSE IF \E i \in DOMAIN acc : acc[i].field = e.field
         THEN [i \in DOMAIN acc |-> IF acc[i].field = e.field THEN e ELSE acc[i]]
         ELSE Append(acc, e)

GoalsSoFar(ctx, n, acc) == acc \in Seq(Effect)

Updating == INSTANCE Folding WITH Op <- UpdateGoal, Inv <- GoalsSoFar

LEMMA GoalsTyped ==
  ASSUME NEW goals \in Seq(Effect), NEW effects \in Seq(Effect)
  PROVE  UpdateGoals(goals, effects) \in Seq(Effect)
<1>1. /\ Len(effects) \in Nat /\ DOMAIN effects = 1 .. Len(effects)
      /\ \A i \in 1 .. Len(effects) : effects[i] \in Effect
  BY LenProperties, ElementOfSeq
<1>2. ASSUME NEW e \in Effect, NEW acc \in Seq(Effect)
      PROVE  UpdateGoal(None, None, acc, e) \in Seq(Effect)
  <2> DEFINE replaced == [i \in DOMAIN acc |-> IF acc[i].field = e.field THEN e ELSE acc[i]]
  <2>1. /\ Len(acc) \in Nat /\ DOMAIN acc = 1 .. Len(acc)
        /\ \A i \in 1 .. Len(acc) : acc[i] \in Effect
    BY LenProperties, ElementOfSeq
  <2>2. replaced \in [1 .. Len(acc) -> Effect]
    BY <2>1
  <2>3. replaced \in Seq(Effect)
    BY <2>1, <2>2, SeqDef
  <2>4. Append(acc, e) \in Seq(Effect)
    BY AppendProperties
  <2> QED
    BY <2>3, <2>4 DEF UpdateGoal
<1>3. GoalsSoFar(None, Len(effects), Updating!Folded(None, None, goals, effects))
  <2>1. GoalsSoFar(None, 0, goals)
    BY DEF GoalsSoFar
  <2>2. \A i \in 1 .. Len(effects) : \A acc :
           GoalsSoFar(None, i-1, acc) => GoalsSoFar(None, i, UpdateGoal(None, None, acc, effects[i]))
    BY <1>1, <1>2 DEF GoalsSoFar
  <2> QED
    BY <1>1, <2>1, <2>2, Updating!FoldInduction
<1>4. Updating!Folded(None, None, goals, effects) = UpdateGoals(goals, effects)
  BY DEF UpdateGoals, UpdateGoal, Updating!Folded, FoldLeft, Updating!FoldLeft,
         MapThenFoldSet, Updating!MapThenFoldSet, Max, Updating!Max
<1> QED
  BY <1>3, <1>4 DEF GoalsSoFar

(***************************************************************************)
(* Repair.  The steps a repair inserts are told by their ids.              *)
(***************************************************************************)
FromRepair(step) == step.id[1] = "repair"

Own(steps) == Only(steps, {step \in ToSet(steps) : ~FromRepair(step)})
Inserts(steps) == Only(steps, {step \in ToSet(steps) : FromRepair(step)})

LEMMA OwnAndInserts ==
  ASSUME NEW steps, IsSequence(steps), NEW step
  PROVE  /\ FromRepair(step) => /\ Own(Append(steps, step)) = Own(steps)
                                /\ Len(Inserts(Append(steps, step))) = Len(Inserts(steps)) + 1
         /\ ~FromRepair(step) => /\ Own(Append(steps, step)) = Append(Own(steps), step)
                                 /\ Inserts(Append(steps, step)) = Inserts(steps)
<1> DEFINE more   == Append(steps, step)
           own    == {x \in ToSet(more) : ~FromRepair(x)}
           insert == {x \in ToSet(more) : FromRepair(x)}
<1>1. ToSet(more) = ToSet(steps) \cup {step}
  BY AppendMembers
<1>2. /\ Own(steps) = Only(steps, own) /\ Inserts(steps) = Only(steps, insert)
      /\ Own(more) = Only(more, own) /\ Inserts(more) = Only(more, insert)
  <2>1. /\ ToSet(steps) \cap own = ToSet(steps) \cap {x \in ToSet(steps) : ~FromRepair(x)}
        /\ ToSet(steps) \cap insert = ToSet(steps) \cap {x \in ToSet(steps) : FromRepair(x)}
    BY <1>1
  <2> QED
    BY <2>1, OnlyAlike DEF Own, Inserts
<1>3. /\ FromRepair(step) => step \in insert /\ step \notin own
      /\ ~FromRepair(step) => step \in own /\ step \notin insert
  BY <1>1
<1> HIDE DEF own, insert
<1>4. /\ Only(more, own) = IF step \in own THEN Append(Only(steps, own), step)
                           ELSE Only(steps, own)
      /\ Only(more, insert) = IF step \in insert THEN Append(Only(steps, insert), step)
                              ELSE Only(steps, insert)
  BY OnlyAppend
<1>5. Len(Append(Only(steps, insert), step)) = Len(Only(steps, insert)) + 1
  <2>1. Only(steps, insert) \in Seq(ToSet(steps) \cap insert)
    BY OnlyChosen
  <2>2. IsSequence(Only(steps, insert))
    BY <2>1, SequenceIsSequence
  <2> QED
    BY <2>2, AppendMembers
<1> QED
  BY <1>2, <1>3, <1>4, <1>5

Ungrouped(step) == [step EXCEPT !.group = None]

UngroupedSteps(steps, m) == [i \in 1 .. m |-> Ungrouped(steps[i])]

\* The plan is given with ids of its own.
Fresh(plan) ==
    /\ \A i \in DOMAIN plan.steps : ~FromRepair(plan.steps[i])
    /\ \A i, j \in DOMAIN plan.steps : plan.steps[i].id = plan.steps[j].id => i = j

\* The steps' ids tell them apart; they come from the plan's first m steps and
\* from the repair's serial numbers so far.
Identified(plan, m, steps, serial) ==
    /\ \A i \in 1 .. Len(steps) :
          \/ \E n \in 1 .. m : steps[i].id = plan.steps[n].id
          \/ \E n \in 1 .. serial, f \in Fields : steps[i].id = <<"repair", n, 0, f>>
    /\ \A i, j \in 1 .. Len(steps) : steps[i].id = steps[j].id => i = j

LEMMA IdentifiedInsert ==
  ASSUME NEW plan, Fresh(plan), NEW m \in Nat, 1 .. m \subseteq DOMAIN plan.steps,
         NEW steps, IsSequence(steps), NEW serial \in Nat, Identified(plan, m, steps, serial),
         NEW step, NEW f \in Fields, step.id = <<"repair", serial + 1, 0, f>>
  PROVE  Identified(plan, m, Append(steps, step), serial + 1)
<1> DEFINE more == Append(steps, step)
<1>1. /\ Len(steps) \in Nat /\ Len(more) = Len(steps) + 1 /\ more[Len(steps) + 1] = step
      /\ \A i \in 1 .. Len(steps) : more[i] = steps[i]
  BY AppendMembers, SequenceIsSequence DEF IsSequence
<1> HIDE DEF more
<1>2. ASSUME NEW i \in 1 .. Len(steps) PROVE steps[i].id # step.id
  <2>1. CASE \E n \in 1 .. m : steps[i].id = plan.steps[n].id
    <3>1. steps[i].id[1] # "repair"
      BY <2>1 DEF Fresh, FromRepair
    <3> QED
      BY <3>1
  <2>2. CASE \E n \in 1 .. serial, g \in Fields : steps[i].id = <<"repair", n, 0, g>>
    <3>1. PICK n \in 1 .. serial : \E g \in Fields : steps[i].id = <<"repair", n, 0, g>>
      BY <2>2
    <3>2. n # serial + 1
      OBVIOUS
    <3> QED
      BY <3>1, <3>2
  <2> QED
    BY <2>1, <2>2 DEF Identified
<1>3. \A i \in 1 .. Len(steps) : \A j \in 1 .. Len(steps) :
         steps[i].id = steps[j].id => i = j
  BY DEF Identified
<1>4. \A i, j \in 1 .. Len(more) : more[i].id = more[j].id => i = j
  <2> SUFFICES ASSUME NEW i \in 1 .. Len(more), NEW j \in 1 .. Len(more),
                      more[i].id = more[j].id
               PROVE  i = j
    OBVIOUS
  <2>1. i \in 1 .. Len(steps) \/ i = Len(steps) + 1
    BY <1>1
  <2>2. j \in 1 .. Len(steps) \/ j = Len(steps) + 1
    BY <1>1
  <2> QED
    BY <1>1, <1>2, <1>3, <2>1, <2>2
<1>5. ASSUME NEW i \in 1 .. Len(more)
      PROVE  \/ \E n \in 1 .. m : more[i].id = plan.steps[n].id
             \/ \E n \in 1 .. serial + 1, g \in Fields : more[i].id = <<"repair", n, 0, g>>
  <2>1. CASE i = Len(steps) + 1
    <3>1. serial + 1 \in 1 .. serial + 1
      OBVIOUS
    <3> QED
      BY <1>1, <2>1, <3>1
  <2>2. CASE i \in 1 .. Len(steps)
    <3>1. 1 .. serial \subseteq 1 .. serial + 1
      OBVIOUS
    <3> QED
      BY <1>1, <2>2, <3>1 DEF Identified
  <2> QED
    BY <1>1, <2>1, <2>2
<1> QED
  BY <1>4, <1>5 DEF Identified, more

LEMMA IdentifiedOwn ==
  ASSUME NEW plan, Fresh(plan), NEW m \in Nat, 1 .. m+1 \subseteq DOMAIN plan.steps,
         NEW steps, IsSequence(steps), NEW serial \in Nat, Identified(plan, m, steps, serial),
         NEW step, step.id = plan.steps[m+1].id
  PROVE  Identified(plan, m+1, Append(steps, step), serial)
<1> DEFINE more == Append(steps, step)
<1>1. /\ Len(steps) \in Nat /\ Len(more) = Len(steps) + 1 /\ more[Len(steps) + 1] = step
      /\ \A i \in 1 .. Len(steps) : more[i] = steps[i]
  BY AppendMembers, SequenceIsSequence DEF IsSequence
<1> HIDE DEF more
<1>2. m + 1 \in DOMAIN plan.steps
  OBVIOUS
<1>3. ASSUME NEW i \in 1 .. Len(steps) PROVE steps[i].id # step.id
  <2>1. CASE \E n \in 1 .. m : steps[i].id = plan.steps[n].id
    <3>1. PICK n \in 1 .. m : steps[i].id = plan.steps[n].id
      BY <2>1
    <3>2. n \in DOMAIN plan.steps /\ n # m + 1
      OBVIOUS
    <3> QED
      BY <1>2, <3>1, <3>2 DEF Fresh
  <2>2. CASE \E n \in 1 .. serial, g \in Fields : steps[i].id = <<"repair", n, 0, g>>
    <3>1. steps[i].id[1] = "repair"
      BY <2>2
    <3>2. step.id[1] # "repair"
      BY <1>2 DEF Fresh, FromRepair
    <3> QED
      BY <3>1, <3>2
  <2> QED
    BY <2>1, <2>2 DEF Identified
<1>4. \A i \in 1 .. Len(steps) : \A j \in 1 .. Len(steps) :
         steps[i].id = steps[j].id => i = j
  BY DEF Identified
<1>5. \A i, j \in 1 .. Len(more) : more[i].id = more[j].id => i = j
  <2> SUFFICES ASSUME NEW i \in 1 .. Len(more), NEW j \in 1 .. Len(more),
                      more[i].id = more[j].id
               PROVE  i = j
    OBVIOUS
  <2>1. i \in 1 .. Len(steps) \/ i = Len(steps) + 1
    BY <1>1
  <2>2. j \in 1 .. Len(steps) \/ j = Len(steps) + 1
    BY <1>1
  <2> QED
    BY <1>1, <1>3, <1>4, <2>1, <2>2
<1>6. ASSUME NEW i \in 1 .. Len(more)
      PROVE  \/ \E n \in 1 .. m+1 : more[i].id = plan.steps[n].id
             \/ \E n \in 1 .. serial, g \in Fields : more[i].id = <<"repair", n, 0, g>>
  <2>1. CASE i = Len(steps) + 1
    <3>1. m + 1 \in 1 .. m+1
      OBVIOUS
    <3> QED
      BY <1>1, <2>1, <3>1
  <2>2. CASE i \in 1 .. Len(steps)
    <3>1. 1 .. m \subseteq 1 .. m+1
      OBVIOUS
    <3> QED
      BY <1>1, <2>2, <3>1 DEF Identified
  <2> QED
    BY <1>1, <2>1, <2>2
<1> QED
  BY <1>5, <1>6 DEF Identified, more

(***************************************************************************)
(* A repair job is a plan and the evidence it is repaired for; it is exact *)
(* when the paths it takes are to be.  "mending" is what the repairer has  *)
(* come to after the first m steps of the plan: they are on a path from    *)
(* the evidence to the state it has reached, in their order, with what was *)
(* inserted.                                                               *)
(***************************************************************************)
MendingFields == {"ok", "steps", "s", "goals", "serial", "spent"}

IsMending(acc) ==
    /\ acc = [field \in MendingFields |-> acc[field]]
    /\ acc.ok \in BOOLEAN
    /\ acc.goals \in Seq(Effect)
    /\ acc.serial \in Nat /\ acc.serial <= MaxInsertions
    /\ acc.spent \in Nat

IsJob(job) ==
    /\ WellFormed(job.plan) /\ Unblocked(job.plan)
    /\ \A step \in ToSet(job.plan.steps) : ValidStep(step)
    /\ job.s \in States
    /\ job.exact => /\ Inverting
                    /\ \A step \in ToSet(job.plan.steps) : step.effect = <<>>

Allowing(job) == [excluded |-> job.plan.blocked, exact |-> job.exact]

Traced(job, m, steps, serial) ==
    /\ Own(steps) = UngroupedSteps(job.plan.steps, m)
    /\ Len(Inserts(steps)) = serial
    /\ Identified(job.plan, m, steps, serial)

\* What a repair does not insert is one of the plan's first m steps.
Drawn(plan, m, steps) ==
    \A step \in ToSet(steps) : FromRepair(step) \/ \E n \in 1 .. m : step = Ungrouped(plan.steps[n])

LEMMA DrawnOn ==
  ASSUME NEW plan, NEW m \in Nat, NEW steps, IsSequence(steps), Drawn(plan, m, steps), NEW step
  PROVE  /\ FromRepair(step) => Drawn(plan, m, Append(steps, step))
         /\ step = Ungrouped(plan.steps[m + 1]) => Drawn(plan, m + 1, Append(steps, step))
<1>1. ToSet(Append(steps, step)) = ToSet(steps) \cup {step}
  BY AppendMembers
<1>2. 1 .. m \subseteq 1 .. m + 1 /\ m + 1 \in 1 .. m + 1
  OBVIOUS
<1> QED
  BY <1>1, <1>2 DEF Drawn

Mending(job, m, acc) ==
    /\ IsMending(acc)
    /\ Leads(job.s, acc.steps, acc.s, Allowing(job))
    /\ acc.ok => Drawn(job.plan, m, acc.steps)
    /\ acc.ok /\ Fresh(job.plan) => Traced(job, m, acc.steps, acc.serial)

\* Giving up.
LEMMA GivesUp ==
  ASSUME NEW job, NEW m, NEW acc, Mending(job, m, acc), NEW n
  PROVE  Mending(job, n, [acc EXCEPT !.ok = FALSE])
<1> DEFINE b == [acc EXCEPT !.ok = FALSE]
<1>1. acc = [field \in MendingFields |-> acc[field]]
  BY DEF Mending, IsMending
<1>2. /\ b = [field \in MendingFields |-> b[field]]
      /\ b.ok = FALSE /\ b.steps = acc.steps /\ b.s = acc.s /\ b.goals = acc.goals
      /\ b.serial = acc.serial /\ b.spent = acc.spent
  BY <1>1 DEF MendingFields
<1> HIDE DEF b
<1>3. IsMending(b)
  BY <1>2 DEF Mending, IsMending
<1>4. Mending(job, n, b)
  BY <1>2, <1>3 DEF Mending
<1> QED
  BY <1>4 DEF b

LEMMA ProjectFields ==
  ASSUME NEW acc, IsMending(acc), NEW step, NEW effects
  PROVE  LET b == Project(acc, step, effects)
         IN  /\ b = [field \in MendingFields |-> b[field]]
             /\ b.ok = acc.ok /\ b.steps = Append(acc.steps, step)
             /\ b.s = With(acc.s, effects) /\ b.goals = UpdateGoals(acc.goals, effects)
             /\ b.serial = acc.serial /\ b.spent = acc.spent
<1> DEFINE b == Project(acc, step, effects)
<1>1. acc = [field \in MendingFields |-> acc[field]]
  BY DEF IsMending
<1>2. b = [acc EXCEPT !.s = With(acc.s, effects), !.goals = UpdateGoals(acc.goals, effects),
                      !.steps = Append(acc.steps, step)]
  BY <1>1 DEF Project, MendingFields
<1> HIDE DEF b
<1> QED
  BY <1>1, <1>2 DEF MendingFields, b

\* Taking a step out of its parallel group changes nothing else.
LEMMA UngroupedAlike ==
  ASSUME NEW step, IsStep(step)
  PROVE  LET u == Ungrouped(step)
         IN  /\ IsStep(u) /\ u.group = None
             /\ u.id = step.id /\ u.skill = step.skill /\ u.args = step.args
             /\ u.effect = step.effect
             /\ ValidStep(step) => ValidStep(u)
             /\ \A s : /\ Failures(s, u) = Failures(s, step)
                       /\ ExpectedEffects(u, s) = ExpectedEffects(step, s)
<1> DEFINE u == Ungrouped(step)
<1>1. /\ IsStep(u) /\ u.group = None
      /\ u.id = step.id /\ u.skill = step.skill /\ u.args = step.args /\ u.effect = step.effect
  BY DEF IsStep, StepFields, Ungrouped
<1> HIDE DEF u
<1>2. Preconditions(u) = Preconditions(step)
  BY <1>1 DEF Preconditions
<1>3. \A s : Failures(s, u) = Failures(s, step)
  BY <1>2 DEF Failures
<1>4. \A s : ExpectedEffects(u, s) = ExpectedEffects(step, s)
  BY <1>1 DEF ExpectedEffects, Active, Predicted
<1>5. ValidStep(step) => ValidStep(u)
  BY <1>1 DEF ValidStep
<1> QED
  BY <1>1, <1>3, <1>4, <1>5 DEF u

LEMMA MendKeeps ==
  ASSUME NEW job, IsJob(job), NEW m \in Nat, 1 .. m+1 \subseteq DOMAIN job.plan.steps,
         NEW acc, Mending(job, m, acc)
  PROVE  Mending(job, m + 1, Mend(acc, job.plan.steps[m + 1]))
<1> DEFINE step    == job.plan.steps[m + 1]
           u       == Ungrouped(step)
           effects == ExpectedEffects(step, acc.s)
           b       == Project(acc, u, effects)
<1>1. /\ m + 1 \in DOMAIN job.plan.steps /\ step \in ToSet(job.plan.steps)
      /\ IsStep(step) /\ ValidStep(step) /\ step.skill \notin job.plan.blocked
      /\ job.exact => step.effect = <<>>
  <2>1. m + 1 \in DOMAIN job.plan.steps
    OBVIOUS
  <2>2. step \in ToSet(job.plan.steps)
    BY <2>1 DEF ToSet
  <2> QED
    BY <2>1, <2>2 DEF IsJob, WellFormed, Unblocked
<1>2. /\ IsStep(u) /\ u.group = None
      /\ u.id = step.id /\ u.skill = step.skill /\ u.effect = step.effect /\ ValidStep(u)
      /\ Failures(acc.s, u) = Failures(acc.s, step)
      /\ ExpectedEffects(u, acc.s) = effects
  BY <1>1, UngroupedAlike
<1>3. CASE ~acc.ok \/ Failures(acc.s, step) # <<>>
  <2>1. Mend(acc, step) = [acc EXCEPT !.ok = FALSE]
    BY <1>3 DEF Mend
  <2> HIDE DEF step
  <2> QED
    BY <2>1, GivesUp DEF step
<1>4. CASE acc.ok /\ Failures(acc.s, step) = <<>>
  <2>1. Mend(acc, step) = b
    BY <1>4 DEF Mend, Ungrouped
  <2> HIDE DEF u
  <2>2. IsMending(acc) /\ Leads(job.s, acc.steps, acc.s, Allowing(job))
    BY DEF Mending
  <2>3. acc.s \in States /\ IsSequence(acc.steps)
    BY <2>2, LeadsBetween
  <2>4. effects \in Seq(Effect)
    BY <1>1, <2>3, StepLeads
  <2>5. /\ b = [field \in MendingFields |-> b[field]]
        /\ b.ok = acc.ok /\ b.steps = Append(acc.steps, u)
        /\ b.s = With(acc.s, effects) /\ b.goals = UpdateGoals(acc.goals, effects)
        /\ b.serial = acc.serial /\ b.spent = acc.spent
    BY <2>2, ProjectFields
  <2> HIDE DEF b, effects, step
  <2>6. Usable(u, Allowing(job).excluded) /\ (Allowing(job).exact => Exact(u, acc.s))
    BY <1>1, <1>2 DEF Usable, Allowing, Exact
  <2>7. Leads(job.s, b.steps, b.s, Allowing(job))
    BY <1>2, <1>4, <2>2, <2>5, <2>6, LeadsOn
  <2>8. IsMending(b)
    BY <2>2, <2>4, <2>5, GoalsTyped DEF IsMending
  <2>9. ASSUME Fresh(job.plan) PROVE Traced(job, m + 1, b.steps, b.serial)
    <3>1. Traced(job, m, acc.steps, acc.serial)
      BY <1>4, <2>9 DEF Mending
    <3>2. ~FromRepair(u)
      BY <1>1, <1>2, <2>9 DEF Fresh, FromRepair, step
    <3>3. Own(b.steps) = Append(Own(acc.steps), u) /\ Inserts(b.steps) = Inserts(acc.steps)
      BY <2>3, <2>5, <3>2, OwnAndInserts
    <3>4. Append(UngroupedSteps(job.plan.steps, m), u) = UngroupedSteps(job.plan.steps, m + 1)
      <4> DEFINE before == UngroupedSteps(job.plan.steps, m)
      <4>1. before = [i \in 1 .. m |-> before[i]] /\ DOMAIN before = 1 .. m
        BY DEF UngroupedSteps
      <4>2. Len(before) = m /\ IsSequence(before)
        BY <4>1, FunctionIsSequence
      <4>3. /\ IsSequence(Append(before, u)) /\ Len(Append(before, u)) = m + 1
            /\ Append(before, u)[m + 1] = u
            /\ \A i \in 1 .. m : Append(before, u)[i] = before[i]
        BY <4>2, AppendMembers
      <4>4. \A i \in 1 .. m : before[i] = Ungrouped(job.plan.steps[i])
        BY DEF UngroupedSteps
      <4> HIDE DEF before
      <4>5. Append(before, u) = [i \in 1 .. m+1 |-> Append(before, u)[i]]
        <5>1. Append(before, u) \in Seq(ToSet(Append(before, u)))
          BY <4>3 DEF IsSequence
        <5>2. Append(before, u) \in [1 .. m+1 -> ToSet(Append(before, u))]
          BY <4>3, <5>1, LenProperties
        <5> QED
          BY <5>2
      <4>6. \A i \in 1 .. m+1 : Append(before, u)[i] = Ungrouped(job.plan.steps[i])
        BY <4>3, <4>4 DEF u, step
      <4> QED
        BY <4>5, <4>6 DEF UngroupedSteps, before
    <3>5. Identified(job.plan, m + 1, b.steps, b.serial)
      <4>1. acc.serial \in Nat /\ u.id = job.plan.steps[m + 1].id
        BY <1>2, <2>2 DEF IsMending, step
      <4>2. Identified(job.plan, m, acc.steps, acc.serial)
        BY <3>1 DEF Traced
      <4>3. Identified(job.plan, m + 1, Append(acc.steps, u), acc.serial)
        BY <2>3, <2>9, <4>1, <4>2, IdentifiedOwn
      <4> QED
        BY <2>5, <4>3
    <3> QED
      BY <2>5, <3>1, <3>3, <3>4, <3>5 DEF Traced
  <2>10. Drawn(job.plan, m + 1, b.steps)
    BY <1>4, <2>3, <2>5, DrawnOn DEF Mending, u, step
  <2>11. Mending(job, m + 1, b)
    BY <2>7, <2>8, <2>9, <2>10 DEF Mending
  <2> QED
    BY <2>1, <2>11 DEF step
<1> QED
  BY <1>3, <1>4

\* What a search for a precondition answers a repair.
LEMMA PathToSound ==
  ASSUME NEW job, IsJob(job), NEW m, NEW acc, Mending(job, m, acc), NEW p \in Condition
  PROVE  LET r == PathTo(p.field, p.expected, acc, job.plan.blocked)
         IN  /\ r.spent \in Nat
             /\ Leads(acc.s, r.steps, r.s, Allowing(job))
<1> DEFINE q == [field |-> p.field, target |-> p.expected, s |-> acc.s, path |-> {}, depth |-> 1,
                 spent |-> acc.spent, excluded |-> job.plan.blocked]
           r == Search[q]
<1>1. /\ acc.s \in States /\ acc.spent \in Nat /\ job.plan.blocked \in SUBSET STRING
      /\ p.field \in Fields /\ p.expected \in Value
  BY LeadsBetween DEF Mending, IsMending, IsJob, WellFormed, Condition
<1>2. q \in Requests
  BY <1>1 DEF Requests
<1>3. Sound(q, r)
  BY <1>2, SearchSound
<1>4. Leads(q.s, r.steps, r.s, Rules(q)) /\ r.spent \in Nat
  BY <1>3 DEF Sound, Spends
<1>5. q.s = acc.s /\ Rules(q).excluded = Allowing(job).excluded
      /\ (Allowing(job).exact => Rules(q).exact)
  BY DEF Rules, Allowing, IsJob
<1>6. PathTo(p.field, p.expected, acc, job.plan.blocked) = r
  BY DEF PathTo
<1> HIDE DEF q, r
<1>7. Leads(acc.s, r.steps, r.s, Allowing(job))
  BY <1>4, <1>5, LeadsLoosely
<1> QED
  BY <1>4, <1>6, <1>7

(***************************************************************************)
(* Inserting a path.                                                       *)
(***************************************************************************)
InsertStep(none1, none2, acc, step) == Project(acc, step, ExpectedEffects(step, acc.s))

\* ctx: the job and how far it is, the inserted steps, the states along them,
\* the serial number before them, and the counters of the accumulator.
InsertedSoFar(ctx, n, a) ==
    /\ a = [field \in MendingFields |-> a[field]]
    /\ a.ok /\ a.ok \in BOOLEAN
    /\ a.goals \in Seq(Effect) /\ a.serial = ctx.serial /\ a.spent = ctx.spent
    /\ a.s = ctx.tr[n]
    /\ Leads(ctx.job.s, a.steps, ctx.tr[n], Allowing(ctx.job))
    /\ Drawn(ctx.job.plan, ctx.m, a.steps)
    /\ Fresh(ctx.job.plan) => Traced(ctx.job, ctx.m, a.steps, ctx.seed + n)

Inserting == INSTANCE Folding WITH Op <- InsertStep, Inv <- InsertedSoFar

\* The numbered steps make up the same path.
LEMMA NumberedLeads ==
  ASSUME NEW s, NEW steps, NEW t, NEW rules, Leads(s, steps, t, rules),
         NEW serial \in Nat, NEW f
  PROVE  LET added == Numbered(steps, serial, f)
         IN  /\ Leads(s, added, t, rules) /\ Len(added) = Len(steps)
             /\ \A i \in 1 .. Len(steps) : added[i].id = <<"repair", serial + i, 0, f>>
<1> DEFINE added == Numbered(steps, serial, f)
           n == Len(steps)
<1>1. /\ n \in Nat /\ DOMAIN steps = 1 .. n
      /\ \A step \in ToSet(steps) : Usable(step, rules.excluded)
  BY LeadsBetween
<1>2. added = [i \in 1 .. n |-> [steps[i] EXCEPT !.id = <<"repair", serial + i, 0, f>>]]
  BY <1>1 DEF Numbered
<1>3. ASSUME NEW i \in 1 .. n
      PROVE  /\ IsStep(added[i]) /\ added[i].group = None
             /\ added[i].skill = steps[i].skill /\ added[i].args = steps[i].args
             /\ added[i].effect = steps[i].effect
             /\ added[i].id = <<"repair", serial + i, 0, f>>
  <2>1. IsStep(steps[i]) /\ steps[i].group = None
    BY <1>1 DEF Usable, ToSet
  <2>2. added[i] = [steps[i] EXCEPT !.id = <<"repair", serial + i, 0, f>>]
    BY <1>2
  <2> HIDE DEF added
  <2> QED
    BY <2>1, <2>2 DEF IsStep, StepFields
<1>4. IsSequence(added) /\ Len(added) = n
  <2>1. DOMAIN added = 1 .. n /\ added = [i \in 1 .. n |-> added[i]]
    BY <1>2
  <2> HIDE DEF added
  <2> QED
    BY <1>1, <2>1, FunctionIsSequence
<1> HIDE DEF added
<1>5. Leads(s, added, t, rules)
  BY <1>3, <1>4, LeadsAlike
<1> QED
  BY <1>3, <1>4, <1>5 DEF added

LEMMA InsertKeeps ==
  ASSUME NEW job, IsJob(job), NEW m \in Nat, 1 .. m \subseteq DOMAIN job.plan.steps,
         NEW acc, Mending(job, m, acc), acc.ok,
         NEW f \in Fields, NEW r, r.spent \in Nat, Leads(acc.s, r.steps, r.s, Allowing(job))
  PROVE  Mending(job, m, Insert(acc, f, r))
<1> DEFINE base  == [acc EXCEPT !.serial = @ + Len(r.steps), !.spent = r.spent]
           added == Numbered(r.steps, acc.serial, f)
           n     == Len(added)
<1>1. IsMending(acc) /\ Leads(job.s, acc.steps, acc.s, Allowing(job))
      /\ acc.serial \in Nat /\ Len(r.steps) \in Nat /\ acc.s \in States
  BY LeadsBetween DEF Mending, IsMending
<1>2. /\ Leads(acc.s, added, r.s, Allowing(job)) /\ n = Len(r.steps)
      /\ \A i \in 1 .. n : added[i].id = <<"repair", acc.serial + i, 0, f>>
  BY <1>1, NumberedLeads
<1>3. n \in Nat /\ DOMAIN added = 1 .. n
  BY <1>2, LeadsBetween
<1>4. PICK tr \in [0 .. n -> States] : IsTrace(tr, acc.s, added, r.s, Allowing(job))
  BY <1>2 DEF Leads
<1>5. CASE ~r.found \/ acc.serial + Len(r.steps) > MaxInsertions
  <2>1. Insert(acc, f, r) = [acc EXCEPT !.ok = FALSE]
    BY <1>5 DEF Insert
  <2> QED
    BY <2>1, GivesUp
<1>6. CASE r.found /\ ~(acc.serial + Len(r.steps) > MaxInsertions)
  <2> DEFINE ctx == [job |-> job, m |-> m, tr |-> tr, seed |-> acc.serial,
                     serial |-> acc.serial + n, spent |-> r.spent]
             result == Inserting!Folded(None, None, base, added)
  <2>1. acc = [field \in MendingFields |-> acc[field]]
    BY <1>1 DEF IsMending
  <2>2. /\ base = [field \in MendingFields |-> base[field]]
        /\ base.ok = acc.ok /\ base.steps = acc.steps /\ base.s = acc.s
        /\ base.goals = acc.goals /\ base.serial = acc.serial + n /\ base.spent = r.spent
    BY <1>2, <2>1 DEF MendingFields
  <2>3. /\ ctx.job = job /\ ctx.m = m /\ ctx.tr = tr /\ ctx.seed = acc.serial
        /\ ctx.serial = acc.serial + n /\ ctx.spent = r.spent
    OBVIOUS
  <2> HIDE DEF ctx, base, added, n
  <2>4. InsertedSoFar(ctx, 0, base)
    <3>1. tr[0] = acc.s
      BY <1>4 DEF IsTrace
    <3>2. Fresh(job.plan) => Traced(job, m, acc.steps, acc.serial + 0)
      BY <1>1 DEF Mending
    <3>3. acc.ok \in BOOLEAN /\ acc.goals \in Seq(Effect)
      BY <1>1 DEF IsMending
    <3>4. Drawn(job.plan, m, acc.steps)
      BY DEF Mending
    <3> QED
      BY <1>1, <2>2, <2>3, <3>1, <3>2, <3>3, <3>4 DEF InsertedSoFar
  <2>5. ASSUME NEW i \in 1 .. n, NEW a, InsertedSoFar(ctx, i-1, a)
        PROVE  InsertedSoFar(ctx, i, InsertStep(None, None, a, added[i]))
    <3> DEFINE step == added[i]
               effects == ExpectedEffects(step, a.s)
               b == Project(a, step, effects)
    <3>1. Taken(step, tr[i-1], tr[i], Allowing(job)) /\ step.id = <<"repair", acc.serial + i, 0, f>>
      BY <1>2, <1>4 DEF IsTrace, n
    <3>2. /\ a = [field \in MendingFields |-> a[field]]
          /\ a.ok /\ a.ok \in BOOLEAN
          /\ a.goals \in Seq(Effect) /\ a.serial = ctx.serial /\ a.spent = ctx.spent
          /\ a.s = tr[i-1] /\ Leads(job.s, a.steps, tr[i-1], Allowing(job))
          /\ Drawn(job.plan, m, a.steps)
          /\ Fresh(job.plan) => Traced(job, m, a.steps, acc.serial + (i-1))
      BY <2>3, <2>5 DEF InsertedSoFar
    <3>3. a.s \in States /\ IsSequence(a.steps)
      BY <3>2, LeadsBetween
    <3>4. effects \in Seq(Effect) /\ tr[i] = With(a.s, effects)
      BY <3>1, <3>2, <3>3, StepLeads DEF Taken, Usable
    <3> HIDE DEF step, effects
    <3>5. /\ b = [field \in MendingFields |-> b[field]]
          /\ b.ok = a.ok /\ b.steps = Append(a.steps, step)
          /\ b.s = With(a.s, effects) /\ b.goals = UpdateGoals(a.goals, effects)
          /\ b.serial = a.serial /\ b.spent = a.spent
      <4>1. b = [a EXCEPT !.s = With(a.s, effects), !.goals = UpdateGoals(a.goals, effects),
                          !.steps = Append(a.steps, step)]
        BY <3>2 DEF Project, MendingFields
      <4> HIDE DEF b
      <4> QED
        BY <3>2, <4>1 DEF MendingFields
    <3> HIDE DEF b
    <3>6. Leads(job.s, b.steps, tr[i], Allowing(job))
      BY <3>1, <3>2, <3>4, <3>5, LeadsOn DEF Taken, effects
    <3>7. b.goals \in Seq(Effect)
      BY <3>2, <3>4, <3>5, GoalsTyped
    <3>8. ASSUME Fresh(job.plan) PROVE Traced(job, m, b.steps, acc.serial + i)
      <4>1. Traced(job, m, a.steps, acc.serial + (i-1))
        BY <3>2, <3>8
      <4>2. FromRepair(step)
        BY <3>1 DEF FromRepair
      <4>3. Own(b.steps) = Own(a.steps) /\ Len(Inserts(b.steps)) = Len(Inserts(a.steps)) + 1
        BY <3>3, <3>5, <4>2, OwnAndInserts
      <4>4. acc.serial + (i-1) \in Nat /\ (acc.serial + (i-1)) + 1 = acc.serial + i
        BY <1>1, <1>3
      <4>5. Identified(job.plan, m, a.steps, acc.serial + (i-1))
        BY <4>1 DEF Traced
      <4>6. step.id = <<"repair", (acc.serial + (i-1)) + 1, 0, f>>
        BY <3>1, <4>4
      <4>7. Identified(job.plan, m, Append(a.steps, step), (acc.serial + (i-1)) + 1)
        <5> DEFINE k == acc.serial + (i-1)
        <5>1. k \in Nat /\ Identified(job.plan, m, a.steps, k) /\ step.id = <<"repair", k + 1, 0, f>>
          BY <4>4, <4>5, <4>6
        <5> HIDE DEF k
        <5>2. Identified(job.plan, m, Append(a.steps, step), k + 1)
          BY <3>3, <3>8, <5>1, IdentifiedInsert
        <5> QED
          BY <5>2 DEF k
      <4> QED
        BY <3>5, <4>1, <4>3, <4>4, <4>7 DEF Traced
    <3>9. Drawn(job.plan, m, b.steps)
      <4>1. FromRepair(step)
        BY <3>1 DEF FromRepair
      <4> QED
        BY <3>2, <3>3, <3>5, <4>1, DrawnOn
    <3>10. InsertedSoFar(ctx, i, b)
      BY <2>3, <3>2, <3>4, <3>5, <3>6, <3>7, <3>8, <3>9 DEF InsertedSoFar
    <3> QED
      BY <3>10 DEF InsertStep, b, effects, step
  <2>6. InsertedSoFar(ctx, n, result)
    BY <1>3, <2>4, <2>5, Inserting!FoldInduction
  <2>7. result = FoldLeft(LAMBDA a, step : Project(a, step, ExpectedEffects(step, a.s)),
                          base, added)
    BY DEF InsertStep, Inserting!Folded, FoldLeft, Inserting!FoldLeft,
           MapThenFoldSet, Inserting!MapThenFoldSet, Max, Inserting!Max
  <2>8. Insert(acc, f, r) = [result EXCEPT !.s = r.s]
    BY <1>6, <2>7 DEF Insert, base, added
  <2> HIDE DEF result
  <2>9. tr[n] = r.s
    BY <1>4 DEF IsTrace, n
  <2>10. /\ result = [field \in MendingFields |-> result[field]]
         /\ result.ok /\ result.ok \in BOOLEAN
         /\ result.goals \in Seq(Effect) /\ result.serial = acc.serial + n
         /\ result.spent = r.spent /\ result.s = r.s
         /\ Leads(job.s, result.steps, r.s, Allowing(job))
         /\ Drawn(job.plan, m, result.steps)
         /\ Fresh(job.plan) => Traced(job, m, result.steps, acc.serial + n)
    BY <2>3, <2>6, <2>9 DEF InsertedSoFar
  <2>11. Insert(acc, f, r) = result
    BY <2>8, <2>10 DEF MendingFields
  <2>12. acc.serial + n \in Nat /\ acc.serial + n <= MaxInsertions
    BY <1>1, <1>2, <1>3, <1>6, SearchBounds
  <2>13. Mending(job, m, result)
    BY <2>10, <2>12 DEF Mending, IsMending
  <2> QED
    BY <2>11, <2>13
<1> QED
  BY <1>5, <1>6

(***************************************************************************)
(* Preparing one step, and the whole repair.                               *)
(***************************************************************************)
PrepareStep(excluded, none, acc, p) ==
    IF ~acc.ok THEN acc ELSE Insert(acc, p.field, PathTo(p.field, p.expected, acc, excluded))

PreparedSoFar(ctx, n, acc) == Mending(ctx.job, ctx.m, acc)

Preparing == INSTANCE Folding WITH Op <- PrepareStep, Inv <- PreparedSoFar

LEMMA PrepareKeeps ==
  ASSUME NEW job, IsJob(job), NEW m \in Nat, 1 .. m \subseteq DOMAIN job.plan.steps,
         NEW acc, Mending(job, m, acc), NEW step, ValidStep(step)
  PROVE  Mending(job, m, Prepare(acc, step, job.plan.blocked))
<1> DEFINE seq == Failures(acc.s, step)
           ctx == [job |-> job, m |-> m]
           excluded == job.plan.blocked
<1>1. /\ Len(seq) \in Nat /\ DOMAIN seq = 1 .. Len(seq)
      /\ \A i \in 1 .. Len(seq) : seq[i] \in Condition
  BY FailuresTyped, LenProperties, ElementOfSeq
<1>2. ASSUME NEW p \in Condition, NEW a, Mending(job, m, a)
      PROVE  Mending(job, m, PrepareStep(excluded, None, a, p))
  <2> DEFINE r == PathTo(p.field, p.expected, a, excluded)
  <2>1. r.spent \in Nat /\ Leads(a.s, r.steps, r.s, Allowing(job)) /\ p.field \in Fields
    BY <1>2, PathToSound DEF Condition
  <2>2. CASE ~a.ok
    BY <1>2, <2>2 DEF PrepareStep
  <2>3. CASE a.ok
    <3> HIDE DEF r
    <3>1. Mending(job, m, Insert(a, p.field, r))
      BY <1>2, <2>1, <2>3, InsertKeeps
    <3> QED
      BY <2>3, <3>1 DEF PrepareStep, r
  <2> QED
    BY <2>2, <2>3
<1> HIDE DEF seq
<1>3. PreparedSoFar(ctx, Len(seq), Preparing!Folded(excluded, None, acc, seq))
  <2>1. PreparedSoFar(ctx, 0, acc)
    BY DEF PreparedSoFar
  <2>2. \A i \in 1 .. Len(seq) : \A a :
           PreparedSoFar(ctx, i-1, a)
             => PreparedSoFar(ctx, i, PrepareStep(excluded, None, a, seq[i]))
    BY <1>1, <1>2 DEF PreparedSoFar
  <2> HIDE DEF ctx, excluded
  <2> QED
    BY <1>1, <2>1, <2>2, Preparing!FoldInduction
<1>4. Preparing!Folded(excluded, None, acc, seq) = Prepare(acc, step, excluded)
  BY DEF seq, Prepare, PrepareStep, Preparing!Folded, FoldLeft, Preparing!FoldLeft,
         MapThenFoldSet, Preparing!MapThenFoldSet, Max, Preparing!Max
<1> QED
  BY <1>3, <1>4 DEF PreparedSoFar

MendStep(excluded, none, acc, step) == Mend(Prepare(acc, step, excluded), step)

MendedSoFar(job, n, acc) == Mending(job, n, acc)

Mended == INSTANCE Folding WITH Op <- MendStep, Inv <- MendedSoFar

\* What the repair of a plan works out from the evidence s.
Mends(plan, s) ==
    FoldLeft(LAMBDA acc, step : Mend(Prepare(acc, step, plan.blocked), step),
             [ok |-> TRUE, steps |-> <<>>, s |-> s, goals |-> <<>>, serial |-> 0, spent |-> 0],
             plan.steps)

LEMMA MendingStarts ==
  ASSUME NEW job, IsJob(job)
  PROVE  Mending(job, 0, [ok |-> TRUE, steps |-> <<>>, s |-> job.s, goals |-> <<>>,
                          serial |-> 0, spent |-> 0])
<1> DEFINE base == [ok |-> TRUE, steps |-> <<>>, s |-> job.s, goals |-> <<>>,
                    serial |-> 0, spent |-> 0]
<1>1. /\ base = [field \in MendingFields |-> base[field]]
      /\ base.ok = TRUE /\ base.steps = <<>> /\ base.s = job.s /\ base.goals = <<>>
      /\ base.serial = 0 /\ base.spent = 0
  BY DEF MendingFields
<1> HIDE DEF base
<1>2. <<>> \in Seq(Effect) /\ 0 \in Nat /\ 0 <= MaxInsertions /\ TRUE \in BOOLEAN
  BY SearchBounds
<1>3. IsMending(base)
  BY <1>1, <1>2 DEF IsMending
<1>4. Leads(job.s, base.steps, base.s, Allowing(job))
  BY <1>1, LeadsNowhere DEF IsJob
<1>5. Traced(job, 0, base.steps, base.serial)
  <2>1. /\ IsSequence(<<>>) /\ ToSet(<<>>) = {} /\ Len(<<>>) = 0 /\ 1 .. 0 = {}
    BY DEF IsSequence, ToSet
  <2>2. Own(<<>>) \in Seq({}) /\ Inserts(<<>>) \in Seq({})
    BY <2>1, OnlyChosen DEF Own, Inserts
  <2>3. Own(<<>>) = <<>> /\ Inserts(<<>>) = <<>>
    BY <2>2
  <2>4. UngroupedSteps(job.plan.steps, 0) = <<>>
    BY <2>1 DEF UngroupedSteps
  <2> QED
    BY <1>1, <2>1, <2>3, <2>4 DEF Traced, Identified
<1>6. Drawn(job.plan, 0, base.steps)
  BY <1>1 DEF Drawn, ToSet
<1>7. Mending(job, 0, base)
  BY <1>3, <1>4, <1>5, <1>6 DEF Mending
<1> QED
  BY <1>7 DEF base

LEMMA MendsKeeps ==
  ASSUME NEW job, IsJob(job)
  PROVE  Mending(job, Len(job.plan.steps), Mends(job.plan, job.s))
<1> DEFINE steps == job.plan.steps
           base == [ok |-> TRUE, steps |-> <<>>, s |-> job.s, goals |-> <<>>,
                    serial |-> 0, spent |-> 0]
           excluded == job.plan.blocked
<1>1. Len(steps) \in Nat /\ DOMAIN steps = 1 .. Len(steps)
  BY SequenceIsSequence DEF IsJob, WellFormed
<1>2. Mending(job, 0, base)
  BY MendingStarts
<1>3. ASSUME NEW i \in 1 .. Len(steps), NEW acc, Mending(job, i-1, acc)
      PROVE  Mending(job, i, MendStep(excluded, None, acc, steps[i]))
  <2>1. /\ i - 1 \in Nat /\ (i - 1) + 1 = i
        /\ 1 .. i - 1 \subseteq DOMAIN steps /\ 1 .. i \subseteq DOMAIN steps
    BY <1>1
  <2>2. ValidStep(steps[i])
    BY <1>1 DEF IsJob, ToSet
  <2> DEFINE m == i - 1
  <2>3. m \in Nat /\ m + 1 = i /\ 1 .. m \subseteq DOMAIN steps /\ 1 .. m+1 \subseteq DOMAIN steps
        /\ Mending(job, m, acc)
    BY <1>3, <2>1
  <2> HIDE DEF m
  <2>4. Mending(job, m, Prepare(acc, steps[i], excluded))
    BY <2>2, <2>3, PrepareKeeps
  <2>5. Mending(job, m + 1, Mend(Prepare(acc, steps[i], excluded), steps[m + 1]))
    BY <2>3, <2>4, MendKeeps
  <2> QED
    BY <2>3, <2>5 DEF MendStep
<1> HIDE DEF base, steps
<1>4. MendedSoFar(job, Len(steps), Mended!Folded(excluded, None, base, steps))
  <2>1. MendedSoFar(job, 0, base)
    BY <1>2 DEF MendedSoFar
  <2>2. \A i \in 1 .. Len(steps) : \A acc :
           MendedSoFar(job, i-1, acc)
             => MendedSoFar(job, i, MendStep(excluded, None, acc, steps[i]))
    BY <1>3 DEF MendedSoFar
  <2> HIDE DEF excluded
  <2> QED
    BY <1>1, <2>1, <2>2, Mended!FoldInduction
<1>5. Mended!Folded(excluded, None, base, steps) = Mends(job.plan, job.s)
  BY DEF base, steps, Mends, MendStep, Mended!Folded, FoldLeft, Mended!FoldLeft,
         MapThenFoldSet, Mended!MapThenFoldSet, Max, Mended!Max
<1> QED
  BY <1>4, <1>5 DEF MendedSoFar, steps

\* The repaired plan carries what was mended.
LEMMA RepairMends ==
  ASSUME NEW plan, IsPlan(plan), NEW s, NEW issues, Repair(plan, s, issues) # None
  PROVE  LET fixed  == Repair(plan, s, issues)
             mended == Mends(plan, s)
         IN  /\ mended.ok /\ IsPlan(fixed)
             /\ fixed.steps = mended.steps /\ fixed.blocked = plan.blocked
             /\ fixed.goals = IF plan.projected THEN mended.goals ELSE plan.goals
<1> DEFINE mended == Mends(plan, s)
<1>1. Repair(plan, s, issues) = Repaired(plan, mended)
  BY DEF Repair, Mends
<1> HIDE DEF mended
<1>2. mended.ok
  BY <1>1 DEF Repaired
<1> DEFINE fixed == [plan EXCEPT !.steps    = mended.steps,
                                 !.goals    = IF plan.projected THEN mended.goals ELSE @,
                                 !.revision = @ + 1]
<1>3. Repaired(plan, mended) = fixed
  BY <1>2 DEF Repaired
<1>4. /\ IsPlan(fixed) /\ fixed.steps = mended.steps /\ fixed.blocked = plan.blocked
      /\ fixed.goals = IF plan.projected THEN mended.goals ELSE plan.goals
  BY DEF IsPlan, PlanFields
<1> QED
  BY <1>1, <1>2, <1>3, <1>4 DEF mended

\* A repair follows a job when its steps are on a path from the evidence and
\* are the plan's own or inserted; and, when no repair came before, consist of
\* all of the plan's own steps, out of their groups and in their order, and of
\* no more insertions than allowed.
Follows(job, fixed) ==
    /\ \E t \in States : Leads(job.s, fixed.steps, t, Allowing(job))
    /\ Drawn(job.plan, Len(job.plan.steps), fixed.steps)
    /\ Fresh(job.plan) => /\ Own(fixed.steps) = UngroupedSteps(job.plan.steps, Len(job.plan.steps))
                          /\ Len(Inserts(fixed.steps)) <= MaxInsertions
                          /\ \A i, j \in 1 .. Len(fixed.steps) :
                                fixed.steps[i].id = fixed.steps[j].id => i = j

LEMMA RepairFollows ==
  ASSUME NEW job, IsJob(job), IsPlan(job.plan), NEW issues, Repair(job.plan, job.s, issues) # None
  PROVE  LET fixed == Repair(job.plan, job.s, issues)
         IN  /\ IsPlan(fixed) /\ WellFormed(fixed) /\ Unblocked(fixed)
             /\ \A step \in ToSet(fixed.steps) : ValidStep(step)
             /\ fixed.blocked = job.plan.blocked
             /\ Follows(job, fixed)
<1> DEFINE fixed  == Repair(job.plan, job.s, issues)
           mended == Mends(job.plan, job.s)
           n      == Len(job.plan.steps)
<1>1. /\ mended.ok /\ IsPlan(fixed)
      /\ fixed.steps = mended.steps /\ fixed.blocked = job.plan.blocked
      /\ fixed.goals = IF job.plan.projected THEN mended.goals ELSE job.plan.goals
  BY RepairMends
<1>2. Mending(job, n, mended)
  BY MendsKeeps
<1> HIDE DEF fixed, mended, n
<1>3. /\ IsMending(mended) /\ Leads(job.s, mended.steps, mended.s, Allowing(job))
      /\ Drawn(job.plan, n, mended.steps)
      /\ Fresh(job.plan) => Traced(job, n, mended.steps, mended.serial)
  BY <1>1, <1>2 DEF Mending
<1>4. /\ IsSequence(fixed.steps) /\ mended.s \in States
      /\ \A step \in ToSet(fixed.steps) : Usable(step, job.plan.blocked)
  BY <1>1, <1>3, LeadsBetween DEF Allowing
<1>5. WellFormed(fixed)
  <2>1. mended.goals \in Seq(Effect)
    BY <1>3 DEF IsMending
  <2>2. job.plan.blocked \subseteq STRING
        /\ (job.plan.goals = None \/ job.plan.goals \in Seq(Effect))
    BY DEF IsJob, WellFormed
  <2> QED
    BY <1>1, <1>4, <2>1, <2>2 DEF WellFormed, IsSequence, Usable
<1>6. Unblocked(fixed) /\ \A step \in ToSet(fixed.steps) : ValidStep(step)
  BY <1>1, <1>4 DEF Unblocked, Usable
<1>7. Follows(job, fixed)
  BY <1>1, <1>3, <1>4 DEF Follows, Traced, Identified, IsMending, n
<1> QED
  BY <1>1, <1>5, <1>6, <1>7 DEF fixed

(***************************************************************************)
(* What a repair returns.                                                  *)
(***************************************************************************)
\* A plan the repairer can be asked to repair: the grounder found no step of
\* it invalid.
Repairable(plan, s) ==
    /\ IsPlan(plan) /\ WellFormed(plan) /\ Unblocked(plan)
    /\ \A step \in ToSet(plan.steps) : ValidStep(step)
    /\ s \in States

RepairJob(plan, s) == [plan |-> plan, s |-> s, exact |-> FALSE]

\* For every registry, plan and evidence: what the repairer returns is a plan
\* whose steps, taken one after the other from that evidence, each find their
\* preconditions established; no skill it blocks is among them; and when the
\* plan was not repaired before, they are the plan's own steps in their order,
\* and no more than max_insertions others, under ids of their own.
THEOREM RepairSound ==
  ASSUME NEW plan, NEW s, Repairable(plan, s), NEW issues, Repair(plan, s, issues) # None
  PROVE  /\ Repairable(Repair(plan, s, issues), s)
         /\ Repair(plan, s, issues).blocked = plan.blocked
         /\ Follows(RepairJob(plan, s), Repair(plan, s, issues))
<1> DEFINE job == RepairJob(plan, s)
<1>1. job.plan = plan /\ job.s = s /\ job.exact = FALSE
  BY DEF RepairJob
<1> HIDE DEF job
<1>2. IsJob(job)
  BY <1>1 DEF IsJob, Repairable
<1> QED
  BY <1>1, <1>2, RepairFollows DEF Repairable, job

(***************************************************************************)
(* Grounding.                                                              *)
(***************************************************************************)
GroundedFields == {"s", "issues"}

GroundOne(caps, none, acc, step) == GroundStep(acc, step, caps)

\* The steps folded over, and the state after each of them when known.
GroundFold(plan, s, caps) ==
    FoldLeft(LAMBDA acc, step : GroundStep(acc, step, caps), [s |-> s, issues |-> {}], plan.steps)

Duplicated(steps) ==
    {Issue("DUPLICATE_STEP_ID", steps[j].id, FALSE, None, None)
        : j \in {k \in DOMAIN steps : \E i \in 1 .. k-1 : steps[i].id = steps[k].id}}

LEMMA GroundParts ==
  ASSUME NEW plan, NEW s, NEW caps
  PROVE  Ground(plan, s, caps)
           = GroundFold(plan, s, caps).issues \cup ParallelIssues(plan.steps, s)
               \cup Duplicated(plan.steps)
BY DEF Ground, GroundFold, Duplicated

\* An invalid step is an issue no repair removes.
LEMMA InvalidRejected ==
  ASSUME NEW acc, acc = [field \in GroundedFields |-> acc[field]], NEW step, NEW caps
  PROVE  LET b == GroundStep(acc, step, caps)
         IN  /\ b = [field \in GroundedFields |-> b[field]]
             /\ RequiresStop(acc.issues) \/ ~ValidStep(step) => RequiresStop(b.issues)
<1> DEFINE b == GroundStep(acc, step, caps)
           rejected(code) == [acc EXCEPT !.issues = @ \cup {Issue(code, step.id, FALSE, None, None)}]
           effects == ExpectedEffects(step, acc.s)
           projected == [s      |-> With(acc.s, effects),
                         issues |-> acc.issues \cup StepIssues(step, acc.s, effects, caps)]
<1>1. ASSUME NEW code
      PROVE  /\ rejected(code) = [field \in GroundedFields |-> rejected(code)[field]]
             /\ RequiresStop(rejected(code).issues)
  <2> DEFINE i == Issue(code, step.id, FALSE, None, None)
  <2>1. rejected(code) = [field \in GroundedFields |-> rejected(code)[field]]
        /\ rejected(code).issues = acc.issues \cup {i}
    BY DEF GroundedFields
  <2>2. ~i.repairable /\ i \in acc.issues \cup {i}
    BY DEF Issue
  <2> HIDE DEF i
  <2> QED
    BY <2>1, <2>2 DEF RequiresStop
<1>2. /\ projected = [field \in GroundedFields |-> projected[field]]
      /\ acc.issues \subseteq projected.issues
  BY DEF GroundedFields
<1>3. \/ b = rejected("UNKNOWN_SKILL")
      \/ b = rejected("BACKEND_SKILL_UNSUPPORTED")
      \/ b = rejected("INVALID_ARGUMENTS")
      \/ (b = projected /\ ValidStep(step))
  <2>1. CASE step.skill \notin SkillNames
    BY <2>1 DEF GroundStep
  <2>2. CASE step.skill \in SkillNames /\ caps # None /\ step.skill \notin caps.supported
    BY <2>2 DEF GroundStep
  <2>3. CASE /\ step.skill \in SkillNames /\ ~(caps # None /\ step.skill \notin caps.supported)
             /\ ~ValidStep(step)
    BY <2>3 DEF GroundStep
  <2>4. CASE /\ step.skill \in SkillNames /\ ~(caps # None /\ step.skill \notin caps.supported)
             /\ ValidStep(step)
    BY <2>4 DEF GroundStep
  <2> QED
    BY <2>1, <2>2, <2>3, <2>4
<1> HIDE DEF b, rejected, projected
<1>4. CASE b = projected /\ ValidStep(step)
  BY <1>2, <1>4 DEF RequiresStop, b
<1>5. CASE \/ b = rejected("UNKNOWN_SKILL") \/ b = rejected("BACKEND_SKILL_UNSUPPORTED")
           \/ b = rejected("INVALID_ARGUMENTS")
  BY <1>1, <1>5 DEF b
<1> QED
  BY <1>3, <1>4, <1>5

RejectedSoFar(steps, n, acc) ==
    /\ acc = [field \in GroundedFields |-> acc[field]]
    /\ \A j \in 1 .. n : ~ValidStep(steps[j]) => RequiresStop(acc.issues)

Rejecting == INSTANCE Folding WITH Op <- GroundOne, Inv <- RejectedSoFar

LEMMA InvalidReported ==
  ASSUME NEW plan, IsSequence(plan.steps), NEW s, NEW caps, ~RequiresStop(Ground(plan, s, caps))
  PROVE  \A step \in ToSet(plan.steps) : ValidStep(step)
<1> DEFINE steps == plan.steps
           base  == [s |-> s, issues |-> {}]
           all   == Rejecting!Folded(caps, None, base, steps)
<1>1. Len(steps) \in Nat /\ DOMAIN steps = 1 .. Len(steps)
  BY SequenceIsSequence DEF IsSequence
<1>2. RejectedSoFar(steps, 0, base)
  <2>1. base = [field \in GroundedFields |-> base[field]]
    BY DEF GroundedFields
  <2> QED
    BY <2>1 DEF RejectedSoFar
<1>3. ASSUME NEW i \in 1 .. Len(steps), NEW acc, RejectedSoFar(steps, i-1, acc)
      PROVE  RejectedSoFar(steps, i, GroundOne(caps, None, acc, steps[i]))
  <2> DEFINE b == GroundStep(acc, steps[i], caps)
  <2>1. /\ b = [field \in GroundedFields |-> b[field]]
        /\ RequiresStop(acc.issues) \/ ~ValidStep(steps[i]) => RequiresStop(b.issues)
    BY <1>3, InvalidRejected DEF RejectedSoFar
  <2> HIDE DEF b
  <2>2. \A j \in 1 .. i : j \in 1 .. i-1 \/ j = i
    BY <1>1
  <2>3. RejectedSoFar(steps, i, b)
    BY <1>3, <2>1, <2>2 DEF RejectedSoFar
  <2> QED
    BY <2>3 DEF GroundOne, b
<1>4. all = GroundFold(plan, s, caps)
  BY DEF GroundFold, GroundOne, Rejecting!Folded, FoldLeft, Rejecting!FoldLeft,
         MapThenFoldSet, Rejecting!MapThenFoldSet, Max, Rejecting!Max
<1> HIDE DEF base
<1>5. RejectedSoFar(steps, Len(steps), all)
  <2> HIDE DEF steps
  <2> QED
    BY <1>1, <1>2, <1>3, Rejecting!FoldInduction
<1> HIDE DEF all
<1>6. ~RequiresStop(all.issues)
  BY <1>4, GroundParts DEF RequiresStop
<1> QED
  BY <1>1, <1>5, <1>6 DEF RejectedSoFar, ToSet

(***************************************************************************)
(* Goals and replanning.                                                   *)
(***************************************************************************)
ProjectedFields == {"goals", "s"}

ProjectStep(none1, none2, acc, step) ==
    IF ~ValidStep(step) THEN acc
    ELSE LET effects == ExpectedEffects(step, acc.s)
         IN  [goals |-> UpdateGoals(acc.goals, effects), s |-> With(acc.s, effects)]

ProjectedSoFar(ctx, n, acc) == acc.goals \in Seq(Effect) /\ acc.s \in States

Projecting == INSTANCE Folding WITH Op <- ProjectStep, Inv <- ProjectedSoFar

\* A plan stays well formed when its goals are projected.
LEMMA GoalsProjected ==
  ASSUME NEW plan, IsPlan(plan), WellFormed(plan), NEW s \in States
  PROVE  LET p == WithGoalState(plan, s)
         IN  /\ IsPlan(p) /\ WellFormed(p)
             /\ p.steps = plan.steps /\ p.blocked = plan.blocked
<1> DEFINE steps == plan.steps
           base  == [goals |-> <<>>, s |-> s]
           all   == Projecting!Folded(None, None, base, steps)
           p     == [plan EXCEPT !.goals = all.goals, !.projected = TRUE]
<1>1. Len(steps) \in Nat /\ DOMAIN steps = 1 .. Len(steps)
  BY SequenceIsSequence DEF WellFormed
<1>2. ProjectedSoFar(None, 0, base)
  BY DEF ProjectedSoFar
<1>3. ASSUME NEW i \in 1 .. Len(steps), NEW acc, ProjectedSoFar(None, i-1, acc)
      PROVE  ProjectedSoFar(None, i, ProjectStep(None, None, acc, steps[i]))
  <2>1. CASE ~ValidStep(steps[i])
    BY <1>3, <2>1 DEF ProjectedSoFar, ProjectStep
  <2>2. CASE ValidStep(steps[i])
    <3> DEFINE effects == ExpectedEffects(steps[i], acc.s)
    <3>1. effects \in Seq(Effect) /\ With(acc.s, effects) \in States
      BY <1>3, <2>2, StepLeads DEF ProjectedSoFar
    <3>2. ProjectStep(None, None, acc, steps[i])
            = [goals |-> UpdateGoals(acc.goals, effects), s |-> With(acc.s, effects)]
      BY <2>2 DEF ProjectStep
    <3> HIDE DEF effects
    <3>3. UpdateGoals(acc.goals, effects) \in Seq(Effect)
      BY <1>3, <3>1, GoalsTyped DEF ProjectedSoFar
    <3> QED
      BY <3>1, <3>2, <3>3 DEF ProjectedSoFar
  <2> QED
    BY <2>1, <2>2
<1>4. CASE plan.goals # None
  BY <1>4 DEF WithGoalState
<1>5. CASE plan.goals = None
  <2>1. WithGoalState(plan, s) = p
    BY <1>5 DEF WithGoalState, ProjectStep, Projecting!Folded, FoldLeft, Projecting!FoldLeft,
           MapThenFoldSet, Projecting!MapThenFoldSet, Max, Projecting!Max
  <2> HIDE DEF base
  <2>2. ProjectedSoFar(None, Len(steps), all)
    <3> HIDE DEF steps
    <3> QED
      BY <1>1, <1>2, <1>3, Projecting!FoldInduction
  <2>3. all.goals \in Seq(Effect)
    BY <2>2 DEF ProjectedSoFar
  <2> HIDE DEF all
  <2>4. /\ IsPlan(p) /\ p.steps = plan.steps /\ p.blocked = plan.blocked /\ p.goals = all.goals
    BY DEF IsPlan, PlanFields
  <2> HIDE DEF p
  <2> QED
    BY <2>1, <2>3, <2>4 DEF WellFormed
<1> QED
  BY <1>4, <1>5

DraftFields == {"ok", "steps", "s"}

AchieveGoal(plan, none, acc, goal) ==
    IF ~acc.ok \/ RawValue(acc.s, goal.field) = goal.value THEN acc
    ELSE Achieve(acc, goal, Candidates(goal.field, goal.value, acc.s, plan.blocked))

AchievedSoFar(plan, n, acc) ==
    /\ acc = [field \in DraftFields |-> acc[field]]
    /\ IsSequence(acc.steps)
    /\ \A step \in ToSet(acc.steps) : Usable(step, plan.blocked)

Achieving == INSTANCE Folding WITH Op <- AchieveGoal, Inv <- AchievedSoFar

Drafted(plan, s) ==
    FoldLeft(LAMBDA acc, goal :
                IF ~acc.ok \/ RawValue(acc.s, goal.field) = goal.value THEN acc
                ELSE Achieve(acc, goal, Candidates(goal.field, goal.value, acc.s, plan.blocked)),
             [ok |-> TRUE, steps |-> <<>>, s |-> s], plan.goals)

LEMMA DraftedUsable ==
  ASSUME NEW plan, plan.goals \in Seq(Effect), NEW s
  PROVE  AchievedSoFar(plan, Len(plan.goals), Drafted(plan, s))
<1> DEFINE goals == plan.goals
           base  == [ok |-> TRUE, steps |-> <<>>, s |-> s]
           all   == Achieving!Folded(plan, None, base, goals)
<1>1. Len(goals) \in Nat /\ DOMAIN goals = 1 .. Len(goals)
  BY LenProperties
<1>2. AchievedSoFar(plan, 0, base)
  <2>1. /\ base = [field \in DraftFields |-> base[field]] /\ base.steps = <<>>
        /\ IsSequence(<<>>) /\ ToSet(<<>>) = {}
    BY DEF DraftFields, IsSequence, ToSet
  <2> HIDE DEF base
  <2> QED
    BY <2>1 DEF AchievedSoFar
<1>3. ASSUME NEW goal, NEW acc, AchievedSoFar(plan, 0, acc)
      PROVE  AchievedSoFar(plan, 0, AchieveGoal(plan, None, acc, goal))
  <2> DEFINE options == Candidates(goal.field, goal.value, acc.s, plan.blocked)
             s2 == With(acc.s, ExpectedEffects(options[1], acc.s))
             missed == [acc EXCEPT !.ok = FALSE]
             more == [acc EXCEPT !.steps = Append(@, options[1]), !.s = s2]
  <2>1. /\ IsSequence(options)
        /\ \A step \in ToSet(options) : Usable(step, plan.blocked)
    BY CandidatesUsable
  <2>2. \/ AchieveGoal(plan, None, acc, goal) = acc
        \/ (options = <<>> /\ AchieveGoal(plan, None, acc, goal) = missed)
        \/ (options # <<>> /\ AchieveGoal(plan, None, acc, goal) = more)
    BY DEF AchieveGoal, Achieve
  <2>3. /\ acc = [field \in DraftFields |-> acc[field]] /\ IsSequence(acc.steps)
        /\ \A step \in ToSet(acc.steps) : Usable(step, plan.blocked)
    BY <1>3 DEF AchievedSoFar
  <2> HIDE DEF options, s2
  <2>4. /\ missed = [field \in DraftFields |-> missed[field]] /\ missed.steps = acc.steps
    BY <2>3 DEF DraftFields
  <2>5. /\ more = [field \in DraftFields |-> more[field]]
        /\ more.steps = Append(acc.steps, options[1])
    BY <2>3 DEF DraftFields
  <2> HIDE DEF missed, more
  <2>6. AchievedSoFar(plan, 0, missed)
    BY <2>3, <2>4 DEF AchievedSoFar
  <2>7. ASSUME options # <<>> PROVE AchievedSoFar(plan, 0, more)
    <3>1. options[1] \in ToSet(options)
      <4>1. Len(options) \in Nat /\ DOMAIN options = 1 .. Len(options) /\ Len(options) # 0
        BY <2>1, <2>7, LenProperties, EmptySeq DEF IsSequence
      <4>2. 1 \in DOMAIN options
        BY <4>1
      <4> QED
        BY <4>2 DEF ToSet
    <3>2. IsSequence(more.steps) /\ ToSet(more.steps) = ToSet(acc.steps) \cup {options[1]}
      <4>1. /\ IsSequence(Append(acc.steps, options[1]))
            /\ ToSet(Append(acc.steps, options[1])) = ToSet(acc.steps) \cup {options[1]}
        BY <2>3, AppendMembers
      <4> QED
        BY <2>5, <4>1
    <3> QED
      BY <2>1, <2>3, <2>5, <3>1, <3>2 DEF AchievedSoFar
  <2> QED
    BY <1>3, <2>2, <2>6, <2>7
<1>4. \A i \in 1 .. Len(goals) : \A acc :
         AchievedSoFar(plan, i-1, acc)
           => AchievedSoFar(plan, i, AchieveGoal(plan, None, acc, goals[i]))
  BY <1>3 DEF AchievedSoFar
<1> HIDE DEF base
<1>5. AchievedSoFar(plan, Len(goals), all)
  <2> HIDE DEF goals
  <2> QED
    BY <1>1, <1>2, <1>4, Achieving!FoldInduction
<1>6. all = Drafted(plan, s)
  BY DEF base, Drafted, AchieveGoal, Achieving!Folded, FoldLeft, Achieving!FoldLeft,
         MapThenFoldSet, Achieving!MapThenFoldSet, Max, Achieving!Max
<1> QED
  BY <1>5, <1>6

\* For every registry, plan and evidence: a replanned plan consists of steps
\* the registry accepts, none of a skill it blocks.
THEOREM ReplanSound ==
  ASSUME NEW plan, IsPlan(plan), WellFormed(plan), NEW s, Replan(plan, s) # None
  PROVE  LET draft == Replan(plan, s)
         IN  /\ IsPlan(draft) /\ WellFormed(draft) /\ draft.blocked = plan.blocked
             /\ \A step \in ToSet(draft.steps) : Usable(step, plan.blocked)
<1> DEFINE drafted == Drafted(plan, s)
           id(n) == <<"replan", plan.revision + 1, n, None>>
           named == [n \in DOMAIN drafted.steps |-> [drafted.steps[n] EXCEPT !.id = id(n)]]
           draft == [plan EXCEPT !.steps = named, !.revision = @ + 1]
<1>1. plan.goals \in Seq(Effect)
  BY DEF Replan, WellFormed
<1>2. Replan(plan, s) = Replanned(plan, drafted)
  BY DEF Replan, Drafted
<1>3. IsSequence(drafted.steps) /\ \A step \in ToSet(drafted.steps) : Usable(step, plan.blocked)
  BY <1>1, DraftedUsable DEF AchievedSoFar
<1> HIDE DEF drafted
<1>4. Replanned(plan, drafted) = draft
  BY <1>2 DEF Replanned
<1>5. Len(drafted.steps) \in Nat /\ DOMAIN drafted.steps = 1 .. Len(drafted.steps)
  BY <1>3, SequenceIsSequence DEF IsSequence
<1>6. ASSUME NEW n \in 1 .. Len(drafted.steps) PROVE Usable(named[n], plan.blocked)
  <2> DEFINE step == drafted.steps[n]
  <2>1. Usable(step, plan.blocked)
    BY <1>3, <1>5 DEF ToSet
  <2>2. named[n] = [step EXCEPT !.id = id(n)]
    BY <1>5
  <2> HIDE DEF named, step, id
  <2>3. /\ IsStep(named[n]) /\ named[n].skill = step.skill /\ named[n].args = step.args
        /\ named[n].group = step.group
    BY <2>1, <2>2 DEF Usable, IsStep, StepFields
  <2> QED
    BY <2>1, <2>3 DEF Usable, ValidStep
<1>7. IsSequence(named) /\ \A step \in ToSet(named) : Usable(step, plan.blocked)
  <2>1. DOMAIN named = 1 .. Len(drafted.steps)
        /\ named = [n \in 1 .. Len(drafted.steps) |-> named[n]]
    BY <1>5
  <2> HIDE DEF named
  <2> QED
    BY <1>5, <1>6, <2>1, FunctionIsSequence DEF ToSet
<1> HIDE DEF named
<1>8. /\ IsPlan(draft) /\ draft.steps = named /\ draft.goals = plan.goals
      /\ draft.blocked = plan.blocked
  BY DEF IsPlan, PlanFields
<1> HIDE DEF draft
<1>9. WellFormed(draft)
  BY <1>7, <1>8 DEF WellFormed, IsSequence, Usable
<1> QED
  BY <1>2, <1>4, <1>7, <1>8, <1>9

(***************************************************************************)
(* Grounding along a path.                                                 *)
(***************************************************************************)
\* What grounding may report of a step whose preconditions hold.
Remaining(step, s) ==
    LET effects == ExpectedEffects(step, s)
    IN  Violations(step, s)
        \cup {Issue("UNPROJECTABLE_EFFECT", step.id, FALSE, None, None)
                : i \in {j \in DOMAIN effects : effects[j].value = None}}
        \cup DeclaredEffectIssues(step, effects)

LEMMA StepRemains ==
  ASSUME NEW step, NEW s, Failures(s, step) = <<>>
  PROVE  StepIssues(step, s, ExpectedEffects(step, s), None) = Remaining(step, s)
<1>1. ToSet(Failures(s, step)) = {}
  BY DEF ToSet
<1> QED
  BY <1>1 DEF StepIssues, Remaining

\* No resource becomes busy along a path.
Reports(issue, step, s, busy, rules) ==
    /\ s \in States /\ s.busy = busy
    /\ rules.exact => Exact(step, s)
    /\ issue \in Remaining(step, s)

\* ctx: the steps, the states along them, and the rules they follow.
PathSoFar(ctx, n, acc) ==
    /\ acc = [field \in GroundedFields |-> acc[field]]
    /\ acc.s = ctx.tr[n] /\ acc.s.busy = ctx.busy
    /\ \A issue \in acc.issues :
          \E step \in ToSet(ctx.steps), s \in States : Reports(issue, step, s, ctx.busy, ctx.rules)

Following == INSTANCE Folding WITH Op <- GroundOne, Inv <- PathSoFar

LEMMA PathGrounds ==
  ASSUME NEW plan, NEW s, NEW t, NEW rules, Leads(s, plan.steps, t, rules),
         NEW issue \in GroundFold(plan, s, None).issues
  PROVE  \E step \in ToSet(plan.steps), u \in States : Reports(issue, step, u, s.busy, rules)
<1> DEFINE steps == plan.steps
           base  == [s |-> s, issues |-> {}]
           all   == Following!Folded(None, None, base, steps)
<1>1. Len(steps) \in Nat /\ DOMAIN steps = 1 .. Len(steps) /\ s \in States
  BY LeadsBetween
<1>2. PICK tr \in [0 .. Len(steps) -> States] : IsTrace(tr, s, steps, t, rules)
  BY DEF Leads
<1> DEFINE ctx == [steps |-> steps, tr |-> tr, busy |-> s.busy, rules |-> rules]
<1>3. ctx.steps = steps /\ ctx.tr = tr /\ ctx.busy = s.busy /\ ctx.rules = rules
  OBVIOUS
<1> HIDE DEF ctx
<1>4. PathSoFar(ctx, 0, base)
  <2>1. base = [field \in GroundedFields |-> base[field]] /\ base.s = s /\ base.issues = {}
    BY DEF GroundedFields
  <2>2. tr[0] = s
    BY <1>2 DEF IsTrace
  <2> QED
    BY <1>3, <2>1, <2>2 DEF PathSoFar
<1>5. ASSUME NEW i \in 1 .. Len(steps), NEW acc, PathSoFar(ctx, i-1, acc)
      PROVE  PathSoFar(ctx, i, GroundOne(None, None, acc, steps[i]))
  <2> DEFINE step    == steps[i]
             effects == ExpectedEffects(step, acc.s)
             b       == [s      |-> With(acc.s, effects),
                         issues |-> acc.issues \cup StepIssues(step, acc.s, effects, None)]
  <2>1. step \in ToSet(steps) /\ Taken(step, tr[i-1], tr[i], rules)
    BY <1>1, <1>2 DEF IsTrace, ToSet
  <2>2. /\ acc.s = tr[i-1] /\ acc.s \in States /\ acc.s.busy = s.busy
        /\ Usable(step, rules.excluded) /\ Failures(acc.s, step) = <<>>
        /\ tr[i] = With(acc.s, effects)
        /\ rules.exact => Exact(step, acc.s)
    BY <1>2, <1>3, <1>5, <2>1 DEF PathSoFar, Taken
  <2>3. GroundOne(None, None, acc, step) = b
    BY <2>2 DEF GroundOne, GroundStep, Usable, ValidStep
  <2> HIDE DEF step
  <2>4. StepIssues(step, acc.s, effects, None) = Remaining(step, acc.s)
    BY <2>2, StepRemains
  <2>5. /\ effects \in Seq(Effect) /\ With(acc.s, effects) \in States
        /\ With(acc.s, effects) = [acc.s EXCEPT !.val = With(acc.s, effects).val]
    BY <2>2, StepLeads, WithTyped DEF Usable
  <2> HIDE DEF effects
  <2>6. With(acc.s, effects).busy = s.busy
    BY <2>2, <2>5 DEF States
  <2>7. /\ b = [field \in GroundedFields |-> b[field]]
        /\ b.s = With(acc.s, effects) /\ b.issues = acc.issues \cup Remaining(step, acc.s)
    BY <2>4 DEF GroundedFields
  <2> HIDE DEF b
  <2>8. ASSUME NEW found \in b.issues
        PROVE  \E x \in ToSet(steps), u \in States : Reports(found, x, u, s.busy, rules)
    <3>1. CASE found \in acc.issues
      BY <1>3, <1>5, <3>1 DEF PathSoFar
    <3>2. CASE found \in Remaining(step, acc.s)
      BY <2>1, <2>2, <3>2 DEF Reports, step
    <3> QED
      BY <2>7, <3>1, <3>2
  <2>9. PathSoFar(ctx, i, b)
    BY <1>3, <2>2, <2>6, <2>7, <2>8 DEF PathSoFar
  <2> QED
    BY <2>3, <2>9 DEF step
<1>6. all = GroundFold(plan, s, None)
  BY DEF GroundFold, GroundOne, Following!Folded, FoldLeft, Following!FoldLeft,
         MapThenFoldSet, Following!MapThenFoldSet, Max, Following!Max
<1> HIDE DEF base
<1>7. PathSoFar(ctx, Len(steps), all)
  <2> HIDE DEF steps
  <2> QED
    BY <1>1, <1>4, <1>5, Following!FoldInduction
<1> QED
  BY <1>3, <1>6, <1>7 DEF PathSoFar

\* Steps out of every group are in no conflict.
LEMMA AloneNoConflict ==
  ASSUME NEW steps, \A i \in DOMAIN steps : steps[i].group = None, NEW s
  PROVE  ParallelIssues(steps, s) = {}
<1> SUFFICES ASSUME NEW issue \in ParallelIssues(steps, s) PROVE FALSE
  OBVIOUS
<1>1. \E p \in (DOMAIN steps) \X (DOMAIN steps) : steps[p[1]].group # None
  BY DEF ParallelIssues
<1> QED
  BY <1>1

\* Whatever is still reported of a repaired plan is said of one of its steps in
\* a state where its preconditions hold.
Grounds(job, fixed) ==
    \A issue \in Ground(fixed, job.s, None) :
        \E step \in ToSet(fixed.steps), u \in States :
            Reports(issue, step, u, job.s.busy, Allowing(job))

LEMMA RepairGroundsJob ==
  ASSUME NEW job, IsJob(job), IsPlan(job.plan), Fresh(job.plan), NEW issues,
         Repair(job.plan, job.s, issues) # None
  PROVE  Grounds(job, Repair(job.plan, job.s, issues))
<1> DEFINE fixed == Repair(job.plan, job.s, issues)
<1>1. Follows(job, fixed)
  BY RepairFollows
<1> HIDE DEF fixed
<1>2. PICK t \in States : Leads(job.s, fixed.steps, t, Allowing(job))
  BY <1>1 DEF Follows
<1>3. /\ DOMAIN fixed.steps = 1 .. Len(fixed.steps)
      /\ \A step \in ToSet(fixed.steps) : step.group = None
  BY <1>2, LeadsBetween DEF Usable
<1>4. ParallelIssues(fixed.steps, job.s) = {}
  BY <1>3, AloneNoConflict DEF ToSet
<1>5. Duplicated(fixed.steps) = {}
  <2>1. \A j \in 1 .. Len(fixed.steps) : \A i \in 1 .. j-1 :
           i \in 1 .. Len(fixed.steps) /\ i # j
    <3> SUFFICES ASSUME NEW j \in 1 .. Len(fixed.steps), NEW i \in 1 .. j-1
                 PROVE  i \in 1 .. Len(fixed.steps) /\ i # j
      OBVIOUS
    <3>1. Len(fixed.steps) \in Nat
      BY <1>2, LeadsBetween
    <3> QED
      BY <3>1
  <2>2. \A i, j \in 1 .. Len(fixed.steps) : fixed.steps[i].id = fixed.steps[j].id => i = j
    BY <1>1 DEF Follows
  <2> QED
    BY <1>3, <2>1, <2>2 DEF Duplicated
<1>6. \A issue \in Ground(fixed, job.s, None) : issue \in GroundFold(fixed, job.s, None).issues
  BY <1>4, <1>5, GroundParts
<1>7. Grounds(job, fixed)
  BY <1>2, <1>6, PathGrounds DEF Grounds
<1> QED
  BY <1>7 DEF fixed

\* For every registry, and for every plan that was not repaired before: the
\* grounder finds no unmet precondition, no invalid step, no parallel conflict
\* and no ambiguous id in what the repairer returns for the same evidence.
\* What it may still report is an emergency stop, a fault, a busy resource, or
\* an effect that cannot be projected or is not the one the step declares.
THEOREM RepairGroundsPlan ==
  ASSUME NEW plan, NEW s, Repairable(plan, s), Fresh(plan), NEW issues,
         Repair(plan, s, issues) # None
  PROVE  \A issue \in Ground(Repair(plan, s, issues), s, None) :
            issue.code \in {"EMERGENCY_STOP", "ROBOT_FAULT", "RESOURCE_BUSY",
                            "UNPROJECTABLE_EFFECT", "EXPECTED_EFFECT"}
<1> DEFINE job == RepairJob(plan, s)
<1>1. job.plan = plan /\ job.s = s /\ job.exact = FALSE
  BY DEF RepairJob
<1> HIDE DEF job
<1>2. Grounds(job, Repair(plan, s, issues))
  <2>1. IsJob(job) /\ IsPlan(job.plan)
    BY <1>1 DEF IsJob, Repairable
  <2> QED
    BY <1>1, <2>1, RepairGroundsJob
<1>3. ASSUME NEW issue, NEW step, NEW u, issue \in Remaining(step, u)
      PROVE  issue.code \in {"EMERGENCY_STOP", "ROBOT_FAULT", "RESOURCE_BUSY",
                             "UNPROJECTABLE_EFFECT", "EXPECTED_EFFECT"}
  <2>1. CASE issue \in Violations(step, u)
    BY <2>1 DEF Violations, Issue
  <2>2. CASE issue \in DeclaredEffectIssues(step, ExpectedEffects(step, u))
    BY <2>2 DEF DeclaredEffectIssues, Issue
  <2>3. CASE issue = Issue("UNPROJECTABLE_EFFECT", step.id, FALSE, None, None)
    BY <2>3 DEF Issue
  <2> QED
    BY <1>3, <2>1, <2>2, <2>3 DEF Remaining
<1> QED
  BY <1>1, <1>2, <1>3 DEF Grounds, Reports
============================================================================
