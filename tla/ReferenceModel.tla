--------------------------- MODULE ReferenceModel ---------------------------
(***************************************************************************)
(* The reference model (ulk_reference_model.c): product, install           *)
(* reference, instance, optional profile and artifact set, launch plan,    *)
(* and the validation of the graph they form.                              *)
(***************************************************************************)
EXTENDS Integers, Sequences, FiniteSetsExt

CONSTANTS
    Identifiers,  \* the texts that ulk_reference_identifier_valid accepts
    Empty,        \* the empty text
    Bad,          \* a text that is neither accepted nor empty
    Absent        \* a null pointer to a profile or an artifact set

ASSUME TextAssumption == Empty \notin Identifiers /\ Bad \notin Identifiers /\ Bad # Empty

\* ulk_reference_identifier_valid
IdentifierValid(t) == t \in Identifiers
OptionalValid(t) == t = Empty \/ IdentifierValid(t)

\* ulk_reference_view_valid without allow_empty
ViewValid(t) == t # Empty /\ t # Bad

ProductValid(p) == IdentifierValid(p.product) /\ IdentifierValid(p.binding)

\* ulk_install_reference_validate_v2; place stands for three texts, of which
\* only the Setup state reference may be missing, if Setup is not the owner.
InstallReferenceValid(f) ==
    /\ f.owner \in {"managed", "imported", "foreign_owned"}
    /\ f.life \in {"active", "verification_failed", "recovery_required", "retired",
                   "uninstalled"}
    /\ IdentifierValid(f.install) /\ IdentifierValid(f.product)
    /\ ViewValid(f.version) /\ ViewValid(f.place)
    /\ ViewValid(f.verification) /\ ViewValid(f.revision)

InstanceValid(i) ==
    /\ IdentifierValid(i.instance) /\ IdentifierValid(i.product)
    /\ IdentifierValid(i.install)
    /\ OptionalValid(i.profile) /\ OptionalValid(i.artifacts)
    /\ ViewValid(i.binding)

ProfileValid(p) ==
    IdentifierValid(p.profile) /\ IdentifierValid(p.product) /\ ViewValid(p.revision)

ArtifactSetValid(a) ==
    IdentifierValid(a.artifacts) /\ IdentifierValid(a.product) /\ ViewValid(a.lock)

LaunchPlanValid(p) ==
    /\ IdentifierValid(p.plan) /\ IdentifierValid(p.product)
    /\ IdentifierValid(p.instance) /\ IdentifierValid(p.install)
    /\ OptionalValid(p.profile) /\ OptionalValid(p.artifacts)
    /\ ViewValid(p.revision) /\ ViewValid(p.binding) /\ ViewValid(p.composition)

\* Every reference names the product of the graph.
ProductsAgree(g) ==
    LET id == g.product.product IN
    /\ id = g.install.product /\ id = g.instance.product /\ id = g.plan.product
    /\ g.profile # Absent => id = g.profile.product
    /\ g.artifacts # Absent => id = g.artifacts.product

InstallsAgree(g) ==
    g.install.install = g.instance.install /\ g.install.install = g.plan.install

InstancesAgree(g) == g.instance.instance = g.plan.instance

\* Mutant: a plan may name a profile that the graph does not have.
ProfilesAgree_AbsentUnchecked(g) ==
    IF g.profile = Absent THEN g.instance.profile = Empty
    ELSE /\ g.profile.profile = g.instance.profile
         /\ g.profile.profile = g.plan.profile

\* An absent profile is named by nobody, a present one by instance and plan.
ProfilesAgree(g) ==
    IF g.profile = Absent
    THEN g.instance.profile = Empty /\ g.plan.profile = Empty
    ELSE /\ g.profile.profile = g.instance.profile
         /\ g.profile.profile = g.plan.profile

ArtifactSetsAgree(g) ==
    IF g.artifacts = Absent
    THEN g.instance.artifacts = Empty /\ g.plan.artifacts = Empty
    ELSE /\ g.artifacts.artifacts = g.instance.artifacts
         /\ g.artifacts.artifacts = g.plan.artifacts

\* The checks of ulk_reference_graph_validate_v1 in their order.
Checks(g) ==
    <<<<"invalid_product", ProductValid(g.product)>>,
      <<"invalid_install_reference", InstallReferenceValid(g.install)>>,
      <<"invalid_instance", InstanceValid(g.instance)>>,
      <<"invalid_profile", g.profile # Absent => ProfileValid(g.profile)>>,
      <<"invalid_artifact_set", g.artifacts # Absent => ArtifactSetValid(g.artifacts)>>,
      <<"invalid_launch_plan", LaunchPlanValid(g.plan)>>,
      <<"product_mismatch", ProductsAgree(g)>>,
      <<"install_mismatch", InstallsAgree(g)>>,
      <<"instance_mismatch", InstancesAgree(g)>>,
      <<"profile_mismatch", ProfilesAgree(g)>>,
      <<"artifact_set_mismatch", ArtifactSetsAgree(g)>>>>

\* Mutant: a rebound instance is not noticed.
Stale_InstallOnly(g) == g.install.revision # g.plan.revision

\* One of the two revisions is not the one the plan was built for.
Stale(g) ==
    g.install.revision # g.plan.revision \/ g.instance.binding # g.plan.binding

\* ulk_reference_graph_validate_v1
GraphValidate(g) ==
    LET failed == {k \in DOMAIN Checks(g) : ~Checks(g)[k][2]} IN
    IF failed # {}
    THEN [valid |-> FALSE, issue |-> Checks(g)[Min(failed)][1], plans |-> "stale"]
    ELSE [valid |-> TRUE, issue |-> "none",
          plans |-> IF Stale(g) THEN "stale" ELSE "fresh"]
=============================================================================
