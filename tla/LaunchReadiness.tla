-------------------------- MODULE LaunchReadiness ---------------------------
(***************************************************************************)
(* The Setup handoff and the reference model together.  An instance is     *)
(* bound to the install reference that the handoff maintains, a launch     *)
(* plan is built from both, and before a launch the caller may ask two     *)
(* questions about it: ulk_launch_plan_install_status_v1 compares it with  *)
(* the reference, ulk_reference_graph_validate_v1 with reference and       *)
(* instance.                                                               *)
(***************************************************************************)
EXTENDS SetupHandoff, ReferenceModel

CONSTANTS
    Self,        \* the identifiers that never differ here
    Profiles,    \* profiles an instance may be bound to, Empty for none
    MaxBindings, \* bound on the binding revisions
    NoInstance, NoLaunch

\* The texts that Setup and the caller use are acceptable ones.
ASSUME ReadyAssumption ==
    /\ Products \cup {Self} \cup (Profiles \ {Empty}) \subseteq Identifiers
    /\ {Empty, Bad} \cap (Versions \cup Places \cup Verifications) = {}
    /\ Absent \notin [profile : Profiles, product : Products, revision : {Self}]
    /\ MaxBindings \in Nat

VARIABLES
    instance,  \* the instance reference
    bindings,  \* the last binding revision given
    launch     \* the launch plan built last, with the instance it was built for

readyVars == <<instance, bindings, launch>>
allVars == <<vars, readyVars>>

\* An instance is bound, or bound anew: each time with a new binding revision.
BindInstance(profile) ==
    /\ ref # NoRef
    /\ bindings < MaxBindings
    /\ bindings' = bindings + 1
    /\ instance' = [instance |-> Self, product |-> ref.product,
                    install |-> ref.install, profile |-> profile,
                    artifacts |-> Empty, binding |-> bindings + 1]
    /\ UNCHANGED <<vars, launch>>

\* A launch plan records the identities and the two revisions it is built from.
BuildPlan ==
    /\ Bind
    /\ instance # NoInstance
    /\ launch' = [plan |-> Self, product |-> instance.product,
                  instance |-> instance.instance, install |-> instance.install,
                  profile |-> instance.profile, artifacts |-> instance.artifacts,
                  revision |-> ref.revision, binding |-> instance.binding,
                  composition |-> Self, for |-> instance]
    /\ UNCHANGED <<instance, bindings>>

\* The graph of the present references.
Graph ==
    [product |-> [product |-> instance.product, binding |-> Self],
     install |-> ref,
     instance |-> instance,
     profile |-> IF instance.profile = Empty THEN Absent
                 ELSE [profile |-> instance.profile, product |-> instance.product,
                       revision |-> Self],
     artifacts |-> Absent,
     plan |-> launch]

ReadyInit ==
    /\ Init
    /\ instance = NoInstance /\ bindings = 0 /\ launch = NoLaunch

ReadyNext ==
    \/ (Handoff \/ Setup) /\ UNCHANGED readyVars
    \/ \E p \in Profiles : BindInstance(p)
    \/ BuildPlan

ReadySpec == ReadyInit /\ [][ReadyNext]_allVars
-----------------------------------------------------------------------------
(* Properties *)

\* There is a launch plan and something to compare it with.
Askable == launch # NoLaunch /\ ref # NoRef

\* A launch plan that graph validation calls fresh was built for the present
\* instance, and the launcher's reference has the ID, product, version and place
\* that it had then.  Its lifecycle may be another: graph validation calls the
\* plan of a reference that needs recovery fresh.
GraphFreshMeansUnchanged ==
    Askable /\ GraphValidate(Graph).plans = "fresh" =>
        /\ instance = launch.for
        /\ ref.install = bound.for.install /\ ref.product = bound.for.product
        /\ ref.version = bound.for.version /\ ref.place = bound.for.place

\* The two questions agree about a plan whose instance is the one it was built
\* for, whatever Setup results did to the reference: each calls the plan fresh
\* wherever the other does, but for what it alone can see.  Graph validation
\* sees that the instance is of another installation or product, the install
\* status that the installation is not active or was verified anew.
QuestionsAgree ==
    Askable /\ instance = launch.for =>
        ( /\ InstallStatus(bound, ref) = "fresh"
          /\ instance.install = ref.install /\ instance.product = ref.product
          <=>
          /\ GraphValidate(Graph) = [valid |-> TRUE, issue |-> "none", plans |-> "fresh"]
          /\ ref.life = "active" /\ ref.verification = bound.verification )
=============================================================================
