------------------------------- MODULE Policies -------------------------------
(***************************************************************************)
(* The tables of auditor/opa-auditor/opa-auditor.go: the constraints the   *)
(* gateway has sent, and the templates (parsed policies) they share, each  *)
(* with a count of the constraints that use it.                            *)
(*                                                                         *)
(* A constraint is its template and its UpdatedAt; the other fields follow *)
(* from these.  A template is its UsageCount and its Policy, which is code *)
(* that opa.Parse has accepted.                                            *)
(***************************************************************************)
EXTENDS Naturals, FiniteSets

CONSTANTS
    ConstraintIds,
    TemplateIds,
    MaxVersion,    \* bound: the UpdatedAt of a constraint is in 1..MaxVersion
    Codes,         \* the code of templates
    Parsable,      \* the code that opa.Parse accepts
    Items,         \* the constraints the gateway may send
    Absent         \* no constraint, no template

ASSUME ConstraintIdsAssumption == IsFiniteSet(ConstraintIds)
ASSUME MaxVersionAssumption == MaxVersion \in Nat
ASSUME ParsableAssumption == Parsable \subseteq Codes

Versions == 1..MaxVersion
Item == [id : ConstraintIds, template : TemplateIds, updatedAt : Versions, code : Codes]
ASSUME ItemsAssumption == Items \subseteq Item

Constraint == [template : TemplateIds, updatedAt : Versions]
Template == [usage : Nat, policy : Parsable]
ASSUME AbsentAssumption == Absent \notin Constraint \cup Template \cup TemplateIds

VARIABLES
    constraints,   \* OpaAuditor.constraints
    templates,     \* OpaAuditor.templates
    refused,       \* the constraints whose last update was answered by an error
    panicked,      \* a nil template was dereferenced
    counted,       \* the template in whose UsageCount each constraint is, or Absent
    upset          \* a constraint was taken from a count it was not in

countVars == <<counted, upset>>
polVars == <<constraints, templates, refused, panicked, countVars>>

\* New
PolInit ==
    /\ constraints = [c \in ConstraintIds |-> Absent]
    /\ templates = [t \in TemplateIds |-> Absent]
    /\ refused = {}
    /\ panicked = FALSE
    /\ counted = [c \in ConstraintIds |-> Absent]
    /\ upset = FALSE

Found(c) == constraints[c] # Absent

CountedOn(t) == {c \in ConstraintIds : counted[c] = t}

\* A constraint that is not counted where it points: its code did not parse when
\* it came, or it was moved to another template since.
Strayed(c) == Found(c) /\ counted[c] # constraints[c].template

------------------------------------------------------------------------------
Store(c, t, v) ==
    constraints' = [constraints EXCEPT ![c] = [template |-> t, updatedAt |-> v]]

\* Mutant: the second user of a template is not counted.
AddTemplateUncounted(c, t, code) ==
    /\ templates' = IF templates[t] # Absent THEN templates
                    ELSE [templates EXCEPT ![t] = [usage |-> 1, policy |-> code]]
    /\ refused' = refused \ {c}
    /\ counted' = [counted EXCEPT ![c] = t]
    /\ UNCHANGED upset

\* The template of a constraint that was not there: counted once more, whatever
\* code comes with the constraint, or parsed, which can fail.
AddTemplate(c, t, code) ==
    /\ IF templates[t] # Absent \/ code \in Parsable
       THEN /\ templates' = [templates EXCEPT
                    ![t] = IF @ # Absent
                           THEN [usage |-> @.usage + 1, policy |-> @.policy]
                           ELSE [usage |-> 1, policy |-> code]]
            /\ refused' = refused \ {c}
            /\ counted' = [counted EXCEPT ![c] = t]
       ELSE /\ refused' = refused \cup {c}
            /\ UNCHANGED <<templates, counted>>
    /\ UNCHANGED upset

\* The template of a newer constraint: parsed, which can fail, and replaced for
\* every constraint that uses it; it keeps the count of the one it replaces, and
\* there is none when the constraint moved to an unknown template.
ReplaceTemplate(c, t, code) ==
    /\ refused' = IF code \in Parsable THEN refused \ {c} ELSE refused \cup {c}
    /\ panicked' = (code \in Parsable /\ templates[t] = Absent)
    /\ templates' = IF code \in Parsable /\ templates[t] # Absent
                    THEN [templates EXCEPT ![t] = [usage |-> @.usage, policy |-> code]]
                    ELSE templates
    /\ UNCHANGED countVars

\* Mutant: a template goes when its count reaches zero, one too late.
DropTemplateLate(c) ==
    LET t == constraints[c].template
    IN  IF templates[t] = Absent
        THEN panicked' = TRUE /\ UNCHANGED <<templates, countVars>>
        ELSE /\ templates' = [templates EXCEPT
                    ![t] = IF @.usage > 0 THEN [usage |-> @.usage - 1, policy |-> @.policy]
                           ELSE Absent]
             /\ counted' = [counted EXCEPT ![c] = Absent]
             /\ upset' = (upset \/ counted[c] # t)
             /\ UNCHANGED panicked

\* Mutant: a template goes with any of its users.
DropTemplateEarly(c) ==
    LET t == constraints[c].template
    IN  IF templates[t] = Absent
        THEN panicked' = TRUE /\ UNCHANGED <<templates, countVars>>
        ELSE /\ templates' = [templates EXCEPT ![t] = Absent]
             /\ counted' = [counted EXCEPT ![c] = Absent]
             /\ upset' = (upset \/ counted[c] # t)
             /\ UNCHANGED panicked

\* The template of a constraint that goes: the last user takes it along.
DropTemplate(c) ==
    LET t == constraints[c].template
    IN  IF templates[t] = Absent
        THEN panicked' = TRUE /\ UNCHANGED <<templates, countVars>>
        ELSE /\ templates' = [templates EXCEPT
                    ![t] = IF @.usage > 1 THEN [usage |-> @.usage - 1, policy |-> @.policy]
                           ELSE Absent]
             /\ counted' = [counted EXCEPT ![c] = Absent]
             /\ upset' = (upset \/ counted[c] # t)
             /\ UNCHANGED panicked

Newer(c, v) == Found(c) /\ v > constraints[c].updatedAt

\* UpdateConstraint, !cFound: the constraint is stored before its template.
AddConstraint(c, t, v, code) ==
    /\ ~Found(c)
    /\ Store(c, t, v)
    /\ AddTemplate(c, t, code)
    /\ UNCHANGED panicked

\* UpdateConstraint, cFound and newer
ReplaceConstraint(c, t, v, code) ==
    /\ Newer(c, v)
    /\ Store(c, t, v)
    /\ ReplaceTemplate(c, t, code)

\* UpdateConstraint, cFound and not newer: nothing changes, no error.
KeepConstraint(c, v) ==
    /\ Found(c)
    /\ ~Newer(c, v)
    /\ refused' = refused \ {c}
    /\ UNCHANGED <<constraints, templates, panicked, countVars>>

\* RemoveConstraint
RemoveConstraint(c) ==
    /\ Found(c)
    /\ DropTemplate(c)
    /\ constraints' = IF panicked' THEN constraints ELSE [constraints EXCEPT ![c] = Absent]
    /\ refused' = refused \ {c}

\* One constraint of an UpdateConstraints request.
UpdateOne(i) ==
    \/ AddConstraint(i.id, i.template, i.updatedAt, i.code)
    \/ ReplaceConstraint(i.id, i.template, i.updatedAt, i.code)
    \/ KeepConstraint(i.id, i.updatedAt)

PolNext ==
    /\ ~panicked
    /\ (\E i \in Items : UpdateOne(i)) \/ (\E c \in ConstraintIds : RemoveConstraint(c))

PolSpec == PolInit /\ [][PolNext]_polVars

------------------------------------------------------------------------------
(* Properties *)

\* The values of the tables.
PolTypeOK ==
    /\ constraints \in [ConstraintIds -> Constraint \cup {Absent}]
    /\ templates \in [TemplateIds -> Template \cup {Absent}]
    /\ refused \subseteq ConstraintIds
    /\ panicked \in BOOLEAN
    /\ counted \in [ConstraintIds -> TemplateIds \cup {Absent}]
    /\ upset \in BOOLEAN

\* UsageCount is the number of constraints that count on the template, over
\* every sequence of adds, updates, moves, refusals and removals, as long as no
\* constraint is removed that points to a template it was not counted in.
UsageExact ==
    ~upset => \A t \in TemplateIds :
        IF CountedOn(t) = {} THEN templates[t] = Absent
        ELSE templates[t] # Absent /\ templates[t].usage = Cardinality(CountedOn(t))

\* The agent never panics in these tables unless a constraint was refused or
\* moved before.
PanicExplained == panicked => upset \/ \E c \in ConstraintIds : Strayed(c)
=============================================================================
