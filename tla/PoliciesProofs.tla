---------------------------- MODULE PoliciesProofs ----------------------------
(***************************************************************************)
(* Proofs about the tables of constraints and templates, for any sets of   *)
(* constraints and templates and any number of versions.                   *)
(***************************************************************************)
EXTENDS Policies, FiniteSetTheorems, TLAPS

\* The table entry Store writes is a constraint, and no constraint is Absent.
LEMMA StoredType ==
    ASSUME PolTypeOK, NEW c \in ConstraintIds, NEW t \in TemplateIds, NEW v \in Versions,
           Store(c, t, v)
    PROVE  /\ constraints' \in [ConstraintIds -> Constraint \cup {Absent}]
           /\ constraints'[c] = [template |-> t, updatedAt |-> v]
           /\ constraints'[c] # Absent
           /\ \A d \in ConstraintIds \ {c} : constraints'[d] = constraints[d]
BY AbsentAssumption DEF PolTypeOK, Store, Constraint

\* The constraints of the table and the template counts are of their types.
LEMMA EntryTypes ==
    ASSUME PolTypeOK
    PROVE  /\ \A c \in ConstraintIds : Found(c) =>
                /\ constraints[c].template \in TemplateIds
                /\ constraints[c].updatedAt \in Nat
           /\ \A t \in TemplateIds : templates[t] # Absent =>
                templates[t].usage \in Nat /\ templates[t].policy \in Parsable
BY DEF PolTypeOK, Found, Constraint, Template, Versions

\* What the three ways of writing templates leave keeps its type.
LEMMA AddTemplateType ==
    ASSUME PolTypeOK, NEW c \in ConstraintIds, NEW t \in TemplateIds, NEW code \in Codes,
           AddTemplate(c, t, code)
    PROVE  /\ templates' \in [TemplateIds -> Template \cup {Absent}]
           /\ refused' \subseteq ConstraintIds
           /\ counted' \in [ConstraintIds -> TemplateIds \cup {Absent}]
           /\ upset' = upset
<1>1. CASE templates[t] # Absent
  <2>1. PICK n \in Nat, k \in Parsable : n = templates[t].usage /\ k = templates[t].policy
    BY <1>1, EntryTypes
  <2>2. templates' = [templates EXCEPT ![t] = [usage |-> n + 1, policy |-> k]]
    BY <1>1, <2>1 DEF AddTemplate
  <2>3. [usage |-> n + 1, policy |-> k] \in Template
    BY DEF Template
  <2>4. templates' \in [TemplateIds -> Template \cup {Absent}]
    BY <2>2, <2>3 DEF PolTypeOK
  <2>5. QED BY <1>1, <2>4 DEF AddTemplate, PolTypeOK
<1>2. CASE templates[t] = Absent /\ code \in Parsable
  <2>1. templates' = [templates EXCEPT ![t] = [usage |-> 1, policy |-> code]]
    BY <1>2 DEF AddTemplate
  <2>2. [usage |-> 1, policy |-> code] \in Template
    BY <1>2 DEF Template
  <2>3. templates' \in [TemplateIds -> Template \cup {Absent}]
    BY <2>1, <2>2 DEF PolTypeOK
  <2>4. QED BY <1>2, <2>3 DEF AddTemplate, PolTypeOK
<1>3. CASE templates[t] = Absent /\ code \notin Parsable
  BY <1>3 DEF AddTemplate, PolTypeOK
<1>4. QED BY <1>1, <1>2, <1>3

LEMMA ReplaceTemplateType ==
    ASSUME PolTypeOK, NEW c \in ConstraintIds, NEW t \in TemplateIds, NEW code \in Codes,
           ReplaceTemplate(c, t, code)
    PROVE  /\ templates' \in [TemplateIds -> Template \cup {Absent}]
           /\ refused' \subseteq ConstraintIds
           /\ panicked' \in BOOLEAN
           /\ counted' = counted /\ upset' = upset
<1>1. refused' \subseteq ConstraintIds /\ counted' = counted /\ upset' = upset
  BY DEF ReplaceTemplate, PolTypeOK, countVars
<1>2. panicked' \in BOOLEAN
  BY Zenon DEF ReplaceTemplate
<1>3. CASE code \in Parsable /\ templates[t] # Absent
  <2>1. PICK n \in Nat : n = templates[t].usage
    BY <1>3, EntryTypes
  <2>2. templates' = [templates EXCEPT ![t] = [usage |-> n, policy |-> code]]
    BY <1>3, <2>1 DEF ReplaceTemplate
  <2>3. [usage |-> n, policy |-> code] \in Template
    BY <1>3 DEF Template
  <2>4. templates' \in [TemplateIds -> Template \cup {Absent}]
    BY <2>2, <2>3 DEF PolTypeOK
  <2>5. QED BY <1>1, <1>2, <2>4
<1>4. CASE ~(code \in Parsable /\ templates[t] # Absent)
  BY <1>1, <1>2, <1>4 DEF ReplaceTemplate, PolTypeOK
<1>5. QED BY <1>3, <1>4

LEMMA DropTemplateType ==
    ASSUME PolTypeOK, NEW c \in ConstraintIds, Found(c), DropTemplate(c)
    PROVE  /\ templates' \in [TemplateIds -> Template \cup {Absent}]
           /\ counted' \in [ConstraintIds -> TemplateIds \cup {Absent}]
           /\ panicked' \in BOOLEAN /\ upset' \in BOOLEAN
<1>1. PICK t \in TemplateIds : t = constraints[c].template
  BY EntryTypes
<1>2. CASE templates[t] = Absent
  BY <1>1, <1>2 DEF DropTemplate, countVars, PolTypeOK
<1>3. CASE templates[t] # Absent
  <2>1. PICK n \in Nat, k \in Parsable : n = templates[t].usage /\ k = templates[t].policy
    BY <1>3, EntryTypes
  <2>2. templates' = [templates EXCEPT
            ![t] = IF n > 1 THEN [usage |-> n - 1, policy |-> k] ELSE Absent]
    BY <1>1, <1>3, <2>1 DEF DropTemplate
  <2>3. n > 1 => [usage |-> n - 1, policy |-> k] \in Template
    BY DEF Template
  <2>4. templates' \in [TemplateIds -> Template \cup {Absent}]
    BY <2>2, <2>3 DEF PolTypeOK
  <2>5. counted' \in [ConstraintIds -> TemplateIds \cup {Absent}]
    BY <1>1, <1>3 DEF DropTemplate, PolTypeOK
  <2>6. upset' \in BOOLEAN /\ panicked' \in BOOLEAN
    BY <1>1, <1>3, Zenon DEF DropTemplate, PolTypeOK
  <2>7. QED BY <2>4, <2>5, <2>6
<1>4. QED BY <1>2, <1>3

\* The tables keep their types in every step, whatever the gateway sends.
LEMMA PolTypeStep ==
    ASSUME PolTypeOK, [PolNext]_polVars
    PROVE  PolTypeOK'
<1>1. CASE UNCHANGED polVars
  BY <1>1 DEF polVars, countVars, PolTypeOK
<1>2. ASSUME NEW c \in ConstraintIds, NEW t \in TemplateIds, NEW v \in Versions,
             NEW code \in Codes, AddConstraint(c, t, v, code)
      PROVE  PolTypeOK'
  <2>1. constraints' \in [ConstraintIds -> Constraint \cup {Absent}]
    BY <1>2, StoredType DEF AddConstraint
  <2>2. QED BY <1>2, <2>1, AddTemplateType DEF AddConstraint, PolTypeOK
<1>3. ASSUME NEW c \in ConstraintIds, NEW t \in TemplateIds, NEW v \in Versions,
             NEW code \in Codes, ReplaceConstraint(c, t, v, code)
      PROVE  PolTypeOK'
  <2>1. constraints' \in [ConstraintIds -> Constraint \cup {Absent}]
    BY <1>3, StoredType DEF ReplaceConstraint
  <2>2. QED BY <1>3, <2>1, ReplaceTemplateType DEF ReplaceConstraint, PolTypeOK
<1>4. ASSUME NEW c \in ConstraintIds, NEW v, KeepConstraint(c, v)
      PROVE  PolTypeOK'
  BY <1>4 DEF KeepConstraint, countVars, PolTypeOK
<1>5. ASSUME NEW c \in ConstraintIds, RemoveConstraint(c)
      PROVE  PolTypeOK'
  <2>1. constraints' \in [ConstraintIds -> Constraint \cup {Absent}]
    BY <1>5 DEF RemoveConstraint, PolTypeOK
  <2>2. QED BY <1>5, <2>1, DropTemplateType DEF RemoveConstraint, PolTypeOK
<1>6. CASE PolNext
  <2>1. CASE \E c \in ConstraintIds : RemoveConstraint(c)
    BY <2>1, <1>5
  <2>2. CASE \E i \in Items : UpdateOne(i)
    <3>1. PICK i \in Items : UpdateOne(i)
      BY <2>2
    <3>2. PICK c \in ConstraintIds, t \in TemplateIds, v \in Versions, code \in Codes :
             c = i.id /\ t = i.template /\ v = i.updatedAt /\ code = i.code
      BY ItemsAssumption DEF Item
    <3>3. \/ AddConstraint(c, t, v, code)
          \/ ReplaceConstraint(c, t, v, code)
          \/ KeepConstraint(c, v)
      BY <3>1, <3>2 DEF UpdateOne
    <3>4. QED BY <3>3, <1>2, <1>3, <1>4
  <2>3. QED BY <1>6, <2>1, <2>2 DEF PolNext
<1>7. QED BY <1>1, <1>6

\* The tables of opa-auditor.go always have their types.
THEOREM PolTypeCorrect == PolSpec => []PolTypeOK
<1>1. PolInit => PolTypeOK
  BY DEF PolInit, PolTypeOK
<1>2. QED BY <1>1, PolTypeStep, PTL DEF PolSpec

------------------------------------------------------------------------------
(* The counts.  UsageExact is inductive together with the type invariant,     *)
(* with what the ghost says of constraints that are not there, and with what  *)
(* a panic takes.                                                             *)

\* Only a constraint of the table is counted.
OnlyFoundCounted == \A c \in ConstraintIds : ~Found(c) => counted[c] = Absent

UsageInv == PolTypeOK /\ UsageExact /\ OnlyFoundCounted /\ PanicExplained

\* The constraints that are counted on a template are finitely many.
LEMMA CountedFinite ==
    ASSUME NEW t
    PROVE  IsFiniteSet(CountedOn(t)) /\ Cardinality(CountedOn(t)) \in Nat
<1>1. CountedOn(t) \subseteq ConstraintIds
  BY DEF CountedOn
<1>2. IsFiniteSet(CountedOn(t))
  BY <1>1, ConstraintIdsAssumption, FS_Subset
<1>3. QED BY <1>2, FS_CardinalityType

\* The count of a template that is there, and a template that is not.
LEMMA CountOf ==
    ASSUME UsageExact, ~upset, NEW t \in TemplateIds
    PROVE  /\ CountedOn(t) = {} => templates[t] = Absent
           /\ CountedOn(t) # {} =>
                templates[t] # Absent /\ templates[t].usage = Cardinality(CountedOn(t))
BY DEF UsageExact

\* A constraint that is counted where it points has its template.
LEMMA CountedPresent ==
    ASSUME PolTypeOK, UsageExact, ~upset, NEW c \in ConstraintIds, Found(c), ~Strayed(c)
    PROVE  templates[constraints[c].template] # Absent
<1>1. constraints[c].template \in TemplateIds
  BY EntryTypes
<1>2. c \in CountedOn(constraints[c].template)
  BY DEF CountedOn, Strayed
<1>3. QED BY <1>1, <1>2, CountOf

\* Counting a constraint that is in no count keeps the counts exact.
LEMMA AddTemplateExact ==
    ASSUME PolTypeOK, UsageExact, NEW c \in ConstraintIds, NEW t \in TemplateIds,
           NEW code \in Codes, counted[c] = Absent, templates[t] # Absent \/ code \in Parsable,
           AddTemplate(c, t, code)
    PROVE  /\ UsageExact'
           /\ upset' = upset
           /\ counted'[c] = t
           /\ \A d \in ConstraintIds \ {c} : counted'[d] = counted[d]
<1>0. upset' = upset
  BY DEF AddTemplate
<1>1. /\ counted'[c] = t
      /\ \A d \in ConstraintIds \ {c} : counted'[d] = counted[d]
  BY DEF AddTemplate, PolTypeOK
<1>2. /\ templates'[t] # Absent
      /\ templates'[t].usage = IF templates[t] # Absent THEN templates[t].usage + 1 ELSE 1
  <2>1. CASE templates[t] # Absent
    <3>1. PICK n \in Nat, k \in Parsable : n = templates[t].usage /\ k = templates[t].policy
      BY <2>1, EntryTypes
    <3>2. templates'[t] = [usage |-> n + 1, policy |-> k]
      BY <2>1, <3>1 DEF AddTemplate, PolTypeOK
    <3>3. [usage |-> n + 1, policy |-> k] \in Template
      BY DEF Template
    <3>4. QED BY <2>1, <3>1, <3>2, <3>3, AbsentAssumption
  <2>2. CASE templates[t] = Absent
    <3>1. templates'[t] = [usage |-> 1, policy |-> code]
      BY <2>2 DEF AddTemplate, PolTypeOK
    <3>2. [usage |-> 1, policy |-> code] \in Template
      BY <2>2 DEF Template
    <3>3. QED BY <2>2, <3>1, <3>2, AbsentAssumption
  <2>3. QED BY <2>1, <2>2
<1>3. \A u \in TemplateIds \ {t} : templates'[u] = templates[u]
  BY DEF AddTemplate, PolTypeOK
<1>4. t # Absent /\ c \notin CountedOn(t)
  BY AbsentAssumption DEF CountedOn
<1>5. CountedOn(t)' = CountedOn(t) \cup {c}
  BY <1>1 DEF CountedOn
<1>6. \A u \in TemplateIds \ {t} : CountedOn(u)' = CountedOn(u)
  BY <1>1, AbsentAssumption DEF CountedOn
<1>7. Cardinality(CountedOn(t)') = Cardinality(CountedOn(t)) + 1
  BY <1>4, <1>5, CountedFinite, FS_AddElement
<1>8. ~upset => templates'[t].usage = Cardinality(CountedOn(t)')
  <2> SUFFICES ASSUME ~upset PROVE templates'[t].usage = Cardinality(CountedOn(t)')
    OBVIOUS
  <2>1. CASE CountedOn(t) = {}
    <3>1. Cardinality(CountedOn(t)') = 1
      BY <2>1, <1>7, FS_EmptySet
    <3>2. templates[t] = Absent
      BY <2>1, CountOf
    <3>3. QED BY <3>1, <3>2, <1>2
  <2>2. CASE CountedOn(t) # {}
    <3>1. templates[t] # Absent /\ templates[t].usage = Cardinality(CountedOn(t))
      BY <2>2, CountOf
    <3>2. QED BY <3>1, <1>2, <1>7
  <2>3. QED BY <2>1, <2>2
<1>9. UsageExact'
  <2> SUFFICES ASSUME ~upset', NEW u \in TemplateIds
               PROVE  IF CountedOn(u)' = {} THEN templates'[u] = Absent
                      ELSE templates'[u] # Absent /\ templates'[u].usage = Cardinality(CountedOn(u)')
    BY DEF UsageExact
  <2>1. CASE u = t
    BY <2>1, <1>0, <1>2, <1>5, <1>8
  <2>2. CASE u # t
    BY <2>2, <1>0, <1>3, <1>6 DEF UsageExact
  <2>3. QED BY <2>1, <2>2
<1>10. QED BY <1>0, <1>1, <1>9

\* UpdateConstraint of a new constraint counts it on its template, or leaves the
\* counts alone when its code does not parse.
LEMMA AddCounts ==
    ASSUME UsageInv, ~panicked, PolTypeOK', NEW c \in ConstraintIds, NEW t \in TemplateIds,
           NEW v \in Versions, NEW code \in Codes, AddConstraint(c, t, v, code)
    PROVE  UsageInv'
<1>1. /\ constraints'[c] # Absent
      /\ \A d \in ConstraintIds \ {c} : constraints'[d] = constraints[d]
  BY StoredType DEF AddConstraint, UsageInv
<1>2. counted[c] = Absent
  BY DEF AddConstraint, UsageInv, OnlyFoundCounted
<1>3. PanicExplained' /\ upset' = upset
  BY DEF AddConstraint, AddTemplate, PanicExplained
<1>4. CASE ~(templates[t] # Absent \/ code \in Parsable)
  <2>1. counted' = counted /\ templates' = templates
    BY <1>4 DEF AddConstraint, AddTemplate
  <2>2. UsageExact'
    BY <2>1, <1>3 DEF UsageInv, UsageExact, CountedOn
  <2>3. OnlyFoundCounted'
    BY <2>1, <1>1 DEF UsageInv, OnlyFoundCounted, Found
  <2>4. QED BY <2>2, <2>3, <1>3 DEF UsageInv
<1>5. CASE templates[t] # Absent \/ code \in Parsable
  <2>1. UsageExact' /\ \A d \in ConstraintIds \ {c} : counted'[d] = counted[d]
    BY <1>2, <1>5, AddTemplateExact DEF AddConstraint, UsageInv
  <2>2. OnlyFoundCounted'
    BY <1>1, <2>1 DEF UsageInv, OnlyFoundCounted, Found
  <2>3. QED BY <2>1, <2>2, <1>3 DEF UsageInv
<1>6. QED BY <1>4, <1>5

\* Replacing the policy of a template keeps its count.
LEMMA ReplaceTemplateExact ==
    ASSUME PolTypeOK, UsageExact, NEW c \in ConstraintIds, NEW t \in TemplateIds,
           NEW code \in Codes, ReplaceTemplate(c, t, code)
    PROVE  /\ UsageExact'
           /\ counted' = counted /\ upset' = upset
           /\ \A u \in TemplateIds : (templates'[u] = Absent) <=> (templates[u] = Absent)
<1>1. counted' = counted /\ upset' = upset
  BY DEF ReplaceTemplate, countVars
<1>2. \A u \in TemplateIds : (templates'[u] = Absent) <=> (templates[u] = Absent)
  <2>1. CASE code \in Parsable /\ templates[t] # Absent
    <3>1. PICK n \in Nat : n = templates[t].usage
      BY <2>1, EntryTypes
    <3>2. /\ templates'[t] = [usage |-> n, policy |-> code]
          /\ \A u \in TemplateIds \ {t} : templates'[u] = templates[u]
      BY <2>1, <3>1 DEF ReplaceTemplate, PolTypeOK
    <3>3. [usage |-> n, policy |-> code] \in Template
      BY <2>1 DEF Template
    <3>4. QED BY <2>1, <3>2, <3>3, AbsentAssumption
  <2>2. CASE ~(code \in Parsable /\ templates[t] # Absent)
    BY <2>2 DEF ReplaceTemplate
  <2>3. QED BY <2>1, <2>2
<1>3. \A u \in TemplateIds : templates[u] # Absent => templates'[u].usage = templates[u].usage
  <2>1. CASE code \in Parsable /\ templates[t] # Absent
    <3>1. PICK n \in Nat : n = templates[t].usage
      BY <2>1, EntryTypes
    <3>2. /\ templates'[t] = [usage |-> n, policy |-> code]
          /\ \A u \in TemplateIds \ {t} : templates'[u] = templates[u]
      BY <2>1, <3>1 DEF ReplaceTemplate, PolTypeOK
    <3>3. QED BY <2>1, <3>1, <3>2
  <2>2. CASE ~(code \in Parsable /\ templates[t] # Absent)
    BY <2>2 DEF ReplaceTemplate
  <2>3. QED BY <2>1, <2>2
<1>4. UsageExact'
  <2> SUFFICES ASSUME ~upset, NEW u \in TemplateIds
               PROVE  IF CountedOn(u)' = {} THEN templates'[u] = Absent
                      ELSE templates'[u] # Absent /\ templates'[u].usage = Cardinality(CountedOn(u)')
    BY <1>1 DEF UsageExact
  <2>1. CountedOn(u)' = CountedOn(u)
    BY <1>1 DEF CountedOn
  <2>2. QED BY <1>2, <1>3, <2>1, CountOf
<1>5. QED BY <1>1, <1>2, <1>4

\* UpdateConstraint of a known constraint changes no count, and panics only
\* when the constraint moves to a template that is not there: it is not counted
\* on it then.
LEMMA ReplaceKeepsCounts ==
    ASSUME UsageInv, ~panicked, PolTypeOK', NEW c \in ConstraintIds, NEW t \in TemplateIds,
           NEW v \in Versions, NEW code \in Codes, ReplaceConstraint(c, t, v, code)
    PROVE  UsageInv'
<1>1. /\ constraints'[c] = [template |-> t, updatedAt |-> v]
      /\ constraints'[c] # Absent
      /\ \A d \in ConstraintIds \ {c} : constraints'[d] = constraints[d]
  BY StoredType DEF ReplaceConstraint, UsageInv
<1>2. counted' = counted /\ upset' = upset
  BY DEF ReplaceConstraint, ReplaceTemplate, countVars
<1>3. UsageExact'
  BY ReplaceTemplateExact DEF ReplaceConstraint, UsageInv
<1>4. OnlyFoundCounted'
  BY <1>1, <1>2 DEF UsageInv, OnlyFoundCounted, Found
<1>5. PanicExplained'
  <2> SUFFICES ASSUME panicked', ~upset PROVE Strayed(c)'
    BY <1>2 DEF PanicExplained
  <2>1. templates[t] = Absent
    BY DEF ReplaceConstraint, ReplaceTemplate
  <2>2. counted[c] # t
    <3> SUFFICES ASSUME counted[c] = t PROVE FALSE
      OBVIOUS
    <3>1. c \in CountedOn(t)
      BY DEF CountedOn
    <3>2. QED BY <3>1, <2>1, CountOf DEF UsageInv
  <2>3. constraints'[c].template = t
    BY <1>1
  <2>4. QED BY <1>1, <1>2, <2>2, <2>3 DEF Strayed, Found
<1>6. QED BY <1>3, <1>4, <1>5 DEF UsageInv

\* Taking a constraint from the count it is in keeps the counts exact, and the
\* template goes with the last.
LEMMA DropTemplateExact ==
    ASSUME PolTypeOK, UsageExact, NEW c \in ConstraintIds, NEW t \in TemplateIds,
           t = constraints[c].template, templates[t] # Absent, DropTemplate(c)
    PROVE  /\ UsageExact'
           /\ panicked' = panicked
           /\ upset' = (upset \/ counted[c] # t)
           /\ counted'[c] = Absent
           /\ \A d \in ConstraintIds \ {c} : counted'[d] = counted[d]
<1>0. PICK n \in Nat, k \in Parsable : n = templates[t].usage /\ k = templates[t].policy
  BY EntryTypes
<1>1. templates' = [templates EXCEPT
           ![t] = IF n > 1 THEN [usage |-> n - 1, policy |-> k] ELSE Absent]
  BY <1>0 DEF DropTemplate
<1>2. counted' = [counted EXCEPT ![c] = Absent]
  BY DEF DropTemplate
<1>3. panicked' = panicked /\ upset' = (upset \/ counted[c] # t)
  BY DEF DropTemplate
<1>4. /\ counted'[c] = Absent
      /\ \A d \in ConstraintIds \ {c} : counted'[d] = counted[d]
  BY <1>2 DEF PolTypeOK
<1>5. UsageExact'
  <2> SUFFICES ASSUME ~upset', NEW u \in TemplateIds
               PROVE  IF CountedOn(u)' = {} THEN templates'[u] = Absent
                      ELSE templates'[u] # Absent /\ templates'[u].usage = Cardinality(CountedOn(u)')
    BY DEF UsageExact
  <2>0. ~upset /\ counted[c] = t
    BY <1>3
  <2>1. CASE u = t
    <3>1. c \in CountedOn(t) /\ t # Absent
      BY <2>0, AbsentAssumption DEF CountedOn
    <3>2. CountedOn(t)' = CountedOn(t) \ {c}
      BY <1>4, <3>1 DEF CountedOn
    <3>3. templates[t].usage = Cardinality(CountedOn(t))
      BY <2>0, <3>1, CountOf
    <3>4. /\ IsFiniteSet(CountedOn(t)')
          /\ Cardinality(CountedOn(t)') = Cardinality(CountedOn(t)) - 1
          /\ Cardinality(CountedOn(t)) \in Nat
      BY <3>1, <3>2, CountedFinite, FS_RemoveElement
    <3>5. CountedOn(t)' = {} <=> Cardinality(CountedOn(t)) = 1
      BY <3>4, FS_EmptySet
    <3>6. /\ n = 1 => templates'[t] = Absent
          /\ n > 1 => templates'[t] # Absent /\ templates'[t].usage = n - 1
      <4>1. n = 1 => templates'[t] = Absent
        BY <1>1 DEF PolTypeOK
      <4>2. ASSUME n > 1 PROVE templates'[t] = [usage |-> n - 1, policy |-> k]
        BY <1>1, <4>2 DEF PolTypeOK
      <4>3. n > 1 => [usage |-> n - 1, policy |-> k] \in Template
        BY DEF Template
      <4>4. QED BY <4>1, <4>2, <4>3, AbsentAssumption
    <3>7. Cardinality(CountedOn(t)) # 0
      BY <3>1, CountedFinite, FS_EmptySet
    <3>8. CASE Cardinality(CountedOn(t)) = 1
      BY <1>0, <2>1, <3>3, <3>5, <3>6, <3>8
    <3>9. CASE Cardinality(CountedOn(t)) > 1
      BY <1>0, <2>1, <3>3, <3>4, <3>5, <3>6, <3>9
    <3>10. QED BY <3>4, <3>7, <3>8, <3>9
  <2>2. CASE u # t
    <3>1. templates'[u] = templates[u]
      BY <1>1, <2>2 DEF PolTypeOK
    <3>2. CountedOn(u)' = CountedOn(u)
      BY <1>4, <2>0, <2>2, AbsentAssumption DEF CountedOn
    <3>3. QED BY <2>0, <3>1, <3>2 DEF UsageExact
  <2>3. QED BY <2>1, <2>2
<1>6. QED BY <1>3, <1>4, <1>5

\* RemoveConstraint discounts a constraint that was counted where it points, and
\* the template goes with the last; of another one it says that it was not.
LEMMA RemoveCounts ==
    ASSUME UsageInv, ~panicked, PolTypeOK', NEW c \in ConstraintIds, RemoveConstraint(c)
    PROVE  UsageInv'
<1>t. PICK t \in TemplateIds : t = constraints[c].template
  BY EntryTypes DEF RemoveConstraint, UsageInv
<1>0. Found(c)
  BY DEF RemoveConstraint
<1>1. CASE templates[t] = Absent
  <2>1. panicked' /\ templates' = templates /\ counted' = counted /\ upset' = upset
    BY <1>1, <1>t DEF RemoveConstraint, DropTemplate, countVars
  <2>2. constraints' = constraints
    BY <2>1 DEF RemoveConstraint
  <2>3. ~upset => Strayed(c)
    BY <1>0, <1>1, <1>t, CountedPresent DEF UsageInv
  <2>4. PanicExplained'
    BY <2>1, <2>2, <2>3 DEF PanicExplained, Strayed, Found
  <2>5. UsageExact' /\ OnlyFoundCounted'
    BY <2>1, <2>2 DEF UsageInv, UsageExact, OnlyFoundCounted, CountedOn, Found
  <2>6. QED BY <2>4, <2>5 DEF UsageInv
<1>2. CASE templates[t] # Absent
  <2>1. /\ UsageExact'
        /\ ~panicked'
        /\ counted'[c] = Absent
        /\ \A d \in ConstraintIds \ {c} : counted'[d] = counted[d]
    BY <1>2, <1>t, DropTemplateExact DEF RemoveConstraint, UsageInv
  <2>2. constraints' = [constraints EXCEPT ![c] = Absent]
    BY <2>1 DEF RemoveConstraint
  <2>3. OnlyFoundCounted'
    BY <2>1, <2>2 DEF UsageInv, PolTypeOK, OnlyFoundCounted, Found
  <2>4. PanicExplained'
    BY <2>1 DEF PanicExplained
  <2>5. QED BY <2>1, <2>3, <2>4 DEF UsageInv
<1>3. QED BY <1>1, <1>2

\* Every step keeps the counts, whatever the gateway sends.
LEMMA UsageStep ==
    ASSUME UsageInv, [PolNext]_polVars
    PROVE  UsageInv'
<1>0. PolTypeOK'
  BY PolTypeStep DEF UsageInv
<1>1. CASE UNCHANGED polVars
  BY <1>0, <1>1 DEF polVars, countVars, UsageInv, UsageExact, OnlyFoundCounted,
                    PanicExplained, Strayed, CountedOn, Found
<1>2. CASE PolNext
  <2>0. ~panicked
    BY <1>2 DEF PolNext
  <2>1. CASE \E c \in ConstraintIds : RemoveConstraint(c)
    BY <2>0, <2>1, <1>0, RemoveCounts
  <2>2. CASE \E i \in Items : UpdateOne(i)
    <3>1. PICK i \in Items : UpdateOne(i)
      BY <2>2
    <3>2. PICK c \in ConstraintIds, t \in TemplateIds, v \in Versions, code \in Codes :
             c = i.id /\ t = i.template /\ v = i.updatedAt /\ code = i.code
      BY ItemsAssumption DEF Item
    <3>3. CASE AddConstraint(c, t, v, code)
      BY <2>0, <3>3, <1>0, AddCounts
    <3>4. CASE ReplaceConstraint(c, t, v, code)
      BY <2>0, <3>4, <1>0, ReplaceKeepsCounts
    <3>5. CASE KeepConstraint(c, v)
      BY <3>5, <1>0 DEF KeepConstraint, countVars, UsageInv, UsageExact, OnlyFoundCounted,
                        PanicExplained, Strayed, CountedOn, Found
    <3>6. QED BY <3>1, <3>2, <3>3, <3>4, <3>5 DEF UpdateOne
  <2>3. QED BY <1>2, <2>1, <2>2 DEF PolNext
<1>3. QED BY <1>1, <1>2

\* The tables start empty, and nothing is counted.
LEMMA UsageStart == PolInit => UsageInv
<1> SUFFICES ASSUME PolInit PROVE UsageInv
  OBVIOUS
<1>1. \A t \in TemplateIds : CountedOn(t) = {}
  BY AbsentAssumption DEF PolInit, CountedOn
<1>2. QED BY <1>1 DEF PolInit, UsageInv, PolTypeOK, UsageExact, OnlyFoundCounted, PanicExplained

\* The tables always satisfy the inductive invariant.
LEMMA UsageInvAlways == PolSpec => []UsageInv
<1>1. UsageInv /\ [PolNext]_polVars => UsageInv'
  BY UsageStep
<1>2. QED BY <1>1, UsageStart, PTL DEF PolSpec

\* For any sets of constraints and templates, and for a gateway that moves
\* constraints, sends code that does not parse, repeats and reorders: UsageCount
\* is the number of constraints counted on the template, and RemoveConstraint
\* deletes a template exactly with the last of them, until a constraint is
\* removed that points to a template it was not counted on.
THEOREM UsageAlwaysExact == PolSpec => []UsageExact
<1>1. UsageInv => UsageExact
  BY DEF UsageInv
<1>2. QED BY <1>1, UsageInvAlways, PTL

\* UpdateConstraint and RemoveConstraint dereference a nil template only after a
\* constraint was refused or moved.
THEOREM PanicsExplained == PolSpec => []PanicExplained
<1>1. UsageInv => PanicExplained
  BY DEF UsageInv
<1>2. QED BY <1>1, UsageInvAlways, PTL
=============================================================================
