--------------------------- MODULE ReferenceGraph ---------------------------
(***************************************************************************)
(* Graphs that callers assemble: a coherent one, in which some fields are  *)
(* then replaced (a reference of another product, a record that was        *)
(* edited, a profile that was left out), is validated.                     *)
(***************************************************************************)
EXTENDS ReferenceModel

CONSTANTS
    Mine, Other,       \* a text of this graph, and one of another
    MaxReferenceEdits  \* bound on the fields that are replaced

\* The members of the six references; place stands for three members.
ProductFields == {"product", "binding"}
InstallFields == {"install", "product", "owner", "version", "place", "life",
                  "verification", "revision"}
InstanceFields == {"instance", "product", "install", "profile", "artifacts", "binding"}
ProfileFields == {"profile", "product", "revision"}
ArtifactSetFields == {"artifacts", "product", "lock"}
LaunchPlanFields == {"plan", "product", "instance", "install", "profile", "artifacts",
                     "revision", "binding", "composition"}

FieldsOf == [product |-> ProductFields, install |-> InstallFields,
             instance |-> InstanceFields, profile |-> ProfileFields,
             artifacts |-> ArtifactSetFields, plan |-> LaunchPlanFields]

Values == {Mine, Other, Bad, Empty, "managed", "active"}

\* No reference is a null pointer.
ASSUME AbsentAssumption ==
    \A role \in DOMAIN FieldsOf : Absent \notin [FieldsOf[role] -> Values]

VARIABLES graph, edited, validation

graphVars == <<graph, edited, validation>>

NoVerdict == [valid |-> FALSE, issue |-> "unasked", plans |-> "stale"]

\* A graph whose references agree, with or without profile and artifact set.
CoherentGraph(profile, artifacts) ==
    [product |-> [product |-> Mine, binding |-> Mine],
     install |-> [install |-> Mine, product |-> Mine, owner |-> "managed",
                  version |-> Mine, place |-> Mine, life |-> "active",
                  verification |-> Mine, revision |-> Mine],
     instance |-> [instance |-> Mine, product |-> Mine, install |-> Mine,
                   profile |-> profile, artifacts |-> artifacts, binding |-> Mine],
     profile |-> IF profile = Empty THEN Absent
                 ELSE [profile |-> profile, product |-> Mine, revision |-> Mine],
     artifacts |-> IF artifacts = Empty THEN Absent
                   ELSE [artifacts |-> artifacts, product |-> Mine, lock |-> Mine],
     plan |-> [plan |-> Mine, product |-> Mine, instance |-> Mine, install |-> Mine,
               profile |-> profile, artifacts |-> artifacts, revision |-> Mine,
               binding |-> Mine, composition |-> Mine]]

GraphInit ==
    /\ \E p, a \in {Mine, Empty} : graph = CoherentGraph(p, a)
    /\ edited = {}
    /\ validation = NoVerdict

\* A field that holds a text gets another one.
EditReference(role, field, value) ==
    /\ graph[role] # Absent
    /\ field \in DOMAIN graph[role] \ {"owner", "life"}
    /\ <<role, field>> \notin {e[1] : e \in edited}
    /\ graph[role][field] # value
    /\ graph' = [graph EXCEPT ![role][field] = value]
    /\ edited' = edited \cup {<<<<role, field>>, value>>}
    /\ validation' = NoVerdict

\* The profile or the artifact set is left out.
OmitReference(role) ==
    /\ role \in {"profile", "artifacts"} /\ graph[role] # Absent
    /\ <<role, "all">> \notin {e[1] : e \in edited}
    /\ graph' = [graph EXCEPT ![role] = Absent]
    /\ edited' = edited \cup {<<<<role, "all">>, Absent>>}
    /\ validation' = NoVerdict

ValidateGraph ==
    /\ validation' = GraphValidate(graph)
    /\ UNCHANGED <<graph, edited>>

GraphNext ==
    \/ /\ Cardinality(edited) < MaxReferenceEdits
       /\ \E role \in DOMAIN graph :
            \/ \E field \in FieldsOf[role], value \in {Other, Bad, Empty} :
                 EditReference(role, field, value)
            \/ OmitReference(role)
    \/ ValidateGraph

GraphSpec == GraphInit /\ [][GraphNext]_graphVars
-----------------------------------------------------------------------------
(* Properties *)

\* The texts that references give for one identity.  A missing profile or
\* artifact set gives the empty text.
Named(g, field) ==
    {g[role][field] : role \in {x \in DOMAIN g : g[x] # Absent /\ field \in DOMAIN g[x]}}
    \cup {Empty : x \in {x \in DOMAIN g : x = field /\ g[x] = Absent}}

\* Every text that must be there is there and is acceptable.
WellFormed(g) ==
    \A role \in DOMAIN g : g[role] # Absent =>
        \A field \in DOMAIN g[role] \ {"owner", "life"} :
            /\ g[role][field] # Bad
            /\ g[role][field] = Empty =>
                 role \in {"instance", "plan"} /\ field \in {"profile", "artifacts"}
            /\ field \in {"product", "install", "instance", "profile", "artifacts",
                          "plan"} \/ (role = "product" /\ field = "binding")
                 => g[role][field] \in Identifiers \cup {Empty}

\* The validator accepts exactly the graphs whose references are well formed
\* and give one text for each identity, and it calls the launch plan fresh
\* exactly if, besides, both revisions are those it was built for.
ValidIffCoherent ==
    validation # NoVerdict =>
        /\ validation.valid <=>
             /\ WellFormed(graph)
             /\ \A id \in {"product", "install", "instance", "profile", "artifacts"} :
                  Cardinality(Named(graph, id)) = 1
        /\ validation.plans = "fresh" <=>
             /\ validation.valid
             /\ graph.plan.revision = graph.install.revision
             /\ graph.plan.binding = graph.instance.binding
=============================================================================
