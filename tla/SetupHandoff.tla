---------------------------- MODULE SetupHandoff ----------------------------
(***************************************************************************)
(* The Setup handoff (ulk_setup_handoff.c).  The launcher keeps one        *)
(* install reference and one reviewed plan, sends apply requests to        *)
(* Universal Setup and projects the results onto the reference.  The       *)
(* projection keeps no state of its own, so what it can guarantee over     *)
(* time it must get from the identities it compares.                       *)
(*                                                                         *)
(* Setup is a program of its own.  It applies requests in any order, may   *)
(* change an installation unasked, may report something malformed, and     *)
(* its results arrive late, repeatedly and out of order.  Two things are   *)
(* assumed of it: it applies a plan ID at most once, and it gives every    *)
(* change of an installation a new state revision.                         *)
(*                                                                         *)
(* A plan digest stands for operation, product and target of the plan.     *)
(* NoText is a text that ulk_setup_text_valid refuses, or an absent one.   *)
(***************************************************************************)
EXTENDS Integers

CONSTANTS
    Operations,     \* the operations that plans are made for
    Products,       \* product IDs
    Versions,       \* exact product versions
    Places,         \* setup_state_ref, entrypoint and capabilities together
    Verifications,  \* verification identities
    Providers,      \* setup_provider and provider_revision together
    Inputs,         \* input identity digests
    Faults,         \* what Setup may get wrong in a report
    FirstReferences,\* references the launcher may start from
    MaxPlans,       \* bound on the plans made
    MaxRevision,    \* bound on Setup's state revisions
    NoText, NoRef, NoPlan, NoState, NoBinding, NoRefresh

AllOperations == {"install", "verify", "repair", "move", "uninstall", "recovery"}
Lifecycles == {"active", "verification_failed", "recovery_required", "retired",
               "uninstalled"}
Ownerships == {"managed", "imported", "foreign_owned"}
AllFaults == {"version", "product", "install", "lifecycle", "verification",
              "audit", "leftover", "provider"}

\* Install IDs are numbered; 0 is the ID of no installation of this model.
References ==
    [install : Nat, product : Products, owner : Ownerships, version : Versions,
     place : Places, life : Lifecycles, verification : Verifications,
     revision : Nat]

States ==
    [install : Nat, product : Products, version : Versions, place : Places,
     life : Lifecycles, verification : Verifications \cup {NoText}, revision : Nat]

Plans ==
    [id : Nat, operation : Operations, product : Products,
     target : Nat \cup {NoText}, provider : Providers, inputs : Inputs,
     reviewed : BOOLEAN]

Bindings ==
    [install : Nat, revision : Nat, verification : Verifications, for : References]

ASSUME HandoffAssumption ==
    /\ Operations \subseteq AllOperations /\ Faults \subseteq AllFaults
    /\ MaxPlans \in Nat /\ MaxRevision \in Nat \ {0}
    /\ NoText \notin Verifications /\ NoText \notin Nat
    /\ FirstReferences \subseteq
         {f \in References : f.revision = 1 /\ f.life # "uninstalled"} \cup {NoRef}
ASSUME NothingAssumption ==
    /\ NoRef \notin References /\ NoState \notin States
    /\ NoPlan \notin Plans /\ NoBinding \notin Bindings

VARIABLES
    ref,        \* the launcher's install reference
    plan,       \* the launcher's plan reference
    bound,      \* the binding of the launch plan it built last
    refresh,    \* what the last projection wrote
    reply,      \* the status of the last call
    installed,  \* what is really installed
    revision,   \* the last state revision that Setup gave
    plans,      \* how many plans were made
    requests,   \* apply requests on their way to Setup
    results,    \* results that Setup sent; they are delivered from here
    reported    \* history: every installed state a result carried

vars == <<ref, plan, bound, refresh, reply, installed, revision, plans,
          requests, results, reported>>
setupVars == <<installed, revision, requests, results, reported>>
-----------------------------------------------------------------------------
(* Validation *)

\* ulk_setup_text_valid with allow_empty = 0
TextValid(t) == t # NoText

\* ulk_setup_plan_valid
PlanValid(p) ==
    /\ p # NoPlan
    /\ p.reviewed
    /\ IF p.operation = "install" THEN p.target = NoText ELSE TextValid(p.target)

\* ulk_setup_reference_valid: only the enumerations can be wrong here.
ReferenceValid(f) == f.owner \in Ownerships /\ f.life \in Lifecycles

\* ulk_setup_state_valid
StateValid(s) ==
    /\ s # NoState
    /\ s.life \in Lifecycles
    /\ TextValid(s.verification)

\* What the digest of a plan is computed from.
Digest(p) == <<p.operation, p.product, p.target>>

\* ulk_setup_apply_request_validate_v1 for a request made from plan q.
ApplyRequestStatus(q, p) ==
    IF ~PlanValid(p) \/ (q.operation # "install" /\ ~TextValid(q.target))
      THEN "invalid"
    ELSE IF /\ q.id = p.id /\ Digest(q) = Digest(p) /\ q.inputs = p.inputs
            /\ q.provider = p.provider
      THEN "ok"
    ELSE "error"

\* Mutant: the plan ID is not compared, only what the plan says.
ResultIdentityMatches_AnyPlan(p, r) ==
    /\ r.status = "completed" => TextValid(r.audit)
    /\ r.digest = Digest(p)
    /\ r.provider = p.provider

\* ulk_setup_result_identity_matches
ResultIdentityMatches(p, r) ==
    /\ r.status = "completed" => TextValid(r.audit)
    /\ r.id = p.id
    /\ r.digest = Digest(p)
    /\ r.provider = p.provider
-----------------------------------------------------------------------------
(* Projection *)

\* Mutant: the place of the old reference is kept.
CopyState_OldPlace(s) ==
    [install |-> s.install, product |-> s.product, owner |-> "managed",
     version |-> s.version,
     place |-> IF ref = NoRef THEN s.place ELSE ref.place,
     life |-> s.life, verification |-> s.verification, revision |-> s.revision]

\* ulk_setup_copy_state
CopyState(s) ==
    [install |-> s.install, product |-> s.product, owner |-> "managed",
     version |-> s.version, place |-> s.place, life |-> s.life,
     verification |-> s.verification, revision |-> s.revision]

\* The plan is about the current reference: an install needs none, the others
\* need a managed one with the same identity.
Concerns(p) ==
    IF p.operation = "install" THEN ref = NoRef
    ELSE /\ ref # NoRef
         /\ ref.owner = "managed"
         /\ ref.install = p.target
         /\ ref.product = p.product

\* What the projection writes before it looks at the status of the result.
Unchanged ==
    [transition |-> "unchanged",
     dependent |-> IF ref = NoRef THEN "managed_install_unavailable" ELSE "ready",
     plans |-> "fresh",
     ref |-> ref]

\* Mutant: the exact version is not compared.
SameInstall_AnyVersion(p, s) ==
    p.operation # "install" => s.install = ref.install

\* An existing installation keeps its ID and its exact version.
SameInstall(p, s) ==
    p.operation # "install" => s.install = ref.install /\ s.version = ref.version

\* Mutant: only the state revision is compared.
SameEvidence_RevisionOnly(s) == ref # NoRef /\ s.revision = ref.revision

\* The launch plans bound to the current reference stay fresh.
SameEvidence(s) ==
    /\ ref # NoRef
    /\ s.revision = ref.revision
    /\ s.verification = ref.verification

\* The launcher keeps what a successful projection returns.
Keep(change) ==
    /\ refresh' = change
    /\ ref' = change.ref
    /\ reply' = "ok"

\* Early returns that leave the caller's structure alone.
ProjectRefused(r) ==
    /\ \/ /\ ~PlanValid(plan) \/ ~ResultIdentityMatches(plan, r)
                              \/ (ref # NoRef /\ ~ReferenceValid(ref))
          /\ reply' = "invalid"
       \/ /\ PlanValid(plan) /\ ResultIdentityMatches(plan, r)
          /\ ref # NoRef => ReferenceValid(ref)
          /\ ~Concerns(plan)
          /\ reply' = "error"
    /\ refresh' = NoRefresh
    /\ UNCHANGED ref

\* The result is for this plan and this reference.
Accepted(r) ==
    /\ PlanValid(plan)
    /\ ResultIdentityMatches(plan, r)
    /\ ref # NoRef => ReferenceValid(ref)
    /\ Concerns(plan)

ProjectRecovery(r) ==
    /\ Accepted(r)
    /\ r.status = "recovery_required"
    /\ Keep([transition |-> IF ref = NoRef THEN "unchanged" ELSE "refreshed",
             dependent |-> "managed_install_recovery_required",
             plans |-> "stale",
             ref |-> IF ref = NoRef THEN NoRef
                     ELSE [ref EXCEPT !.life = "recovery_required"]])

ProjectUnchanged(r) ==
    /\ Accepted(r)
    /\ r.status \in {"refused", "failed"}
    /\ Keep(Unchanged)

ProjectUninstall(r) ==
    /\ Accepted(r)
    /\ r.status = "completed" /\ plan.operation = "uninstall"
    /\ r.state = NoState
    /\ Keep([transition |-> "archived",
             dependent |-> "managed_install_unavailable",
             plans |-> "stale",
             ref |-> [ref EXCEPT !.life = "uninstalled"]])

\* The reported state is one the plan can have led to.
StateAccepted(s) ==
    /\ StateValid(s)
    /\ s.life = "active"
    /\ s.product = plan.product
    /\ SameInstall(plan, s)

\* Errors found after the caller's structure was written.
ProjectError(r) ==
    /\ Accepted(r)
    /\ r.status = "completed"
    /\ IF plan.operation = "uninstall" THEN r.state # NoState
       ELSE ~StateAccepted(r.state)
    /\ refresh' = Unchanged
    /\ reply' = "error"
    /\ UNCHANGED ref

ProjectCompleted(r) ==
    /\ Accepted(r)
    /\ r.status = "completed" /\ plan.operation # "uninstall"
    /\ StateAccepted(r.state)
    /\ LET new == plan.operation = "install" IN
       Keep([transition |-> IF new THEN "created" ELSE "refreshed",
             dependent |-> IF new THEN "ready" ELSE "managed_install_changed",
             plans |-> IF SameEvidence(r.state) THEN "fresh" ELSE "stale",
             ref |-> CopyState(r.state)])

\* ulk_setup_result_project_v1
ResultProject(r) ==
    /\ \/ ProjectRefused(r) \/ ProjectRecovery(r) \/ ProjectUnchanged(r)
       \/ ProjectUninstall(r) \/ ProjectError(r) \/ ProjectCompleted(r)
    /\ UNCHANGED <<plan, bound, plans, setupVars>>

\* Results stay: the same one may be delivered again.
Deliver == \E r \in results : ResultProject(r)
-----------------------------------------------------------------------------
(* The launcher *)

\* Mutant: the state revision is not compared.
InstallStatus_AnyRevision(b, f) ==
    IF f.life = "active" /\ b.install = f.install /\ b.verification = f.verification
    THEN "fresh" ELSE "stale"

\* Mutant: the verification is not compared.
InstallStatus_AnyVerification(b, f) ==
    IF f.life = "active" /\ b.install = f.install /\ b.revision = f.revision
    THEN "fresh" ELSE "stale"

\* ulk_launch_plan_install_status_v1
InstallStatus(b, f) ==
    IF /\ f.life = "active"
       /\ b.install = f.install
       /\ b.revision = f.revision
       /\ b.verification = f.verification
    THEN "fresh" ELSE "stale"

\* ulk_launch_plan_install_binding_v1, with what it stands for (for).
BindingOf(f) ==
    [install |-> f.install, revision |-> f.revision,
     verification |-> f.verification, for |-> f]

\* A plan is made for the current reference, or for a new installation.
MakePlan(op, product, provider, inputs) ==
    /\ plans < MaxPlans
    /\ plans' = plans + 1
    /\ plan' = [id |-> plans + 1, operation |-> op, product |-> product,
                target |-> IF op = "install" \/ ref = NoRef THEN NoText
                           ELSE ref.install,
                provider |-> provider, inputs |-> inputs, reviewed |-> FALSE]
    /\ UNCHANGED <<ref, bound, refresh, reply, setupVars>>

Review ==
    /\ plan # NoPlan /\ ~plan.reviewed
    /\ plan' = [plan EXCEPT !.reviewed = TRUE]
    /\ UNCHANGED <<ref, bound, refresh, reply, plans, setupVars>>

\* The inputs of the plan changed and it is to be reviewed again.
InputsChanged(inputs) ==
    /\ plan # NoPlan /\ plan.inputs # inputs
    /\ plan' = [plan EXCEPT !.inputs = inputs, !.reviewed = FALSE]
    /\ UNCHANGED <<ref, bound, refresh, reply, plans, setupVars>>

\* A request made from the current plan, perhaps with the inputs it had before.
Submit(inputs) ==
    /\ plan # NoPlan
    /\ LET request == [plan EXCEPT !.inputs = inputs] IN
       /\ reply' = ApplyRequestStatus(request, plan)
       /\ requests' = IF reply' = "ok" THEN requests \cup {request} ELSE requests
    /\ UNCHANGED <<ref, plan, bound, refresh, installed, revision, plans,
                   results, reported>>

\* A launch plan is built for the reference as it is.
Bind ==
    /\ ref # NoRef
    /\ bound' = BindingOf(ref)
    /\ UNCHANGED <<ref, plan, refresh, reply, plans, setupVars>>

\* An archived reference is dropped so that the product can be installed anew.
Drop ==
    /\ ref # NoRef /\ ref.life = "uninstalled"
    /\ ref' = NoRef
    /\ UNCHANGED <<plan, bound, refresh, reply, plans, setupVars>>
-----------------------------------------------------------------------------
(* Universal Setup *)

\* The installation after a change that keeps its ID, version and product.
Altered(a, v) ==
    [installed EXCEPT !.place = a, !.verification = v, !.revision = revision + 1]

Changed == {Altered(a, v) : a \in Places, v \in Verifications}

Created(product) ==
    {[install |-> revision + 1, product |-> product, version |-> n, place |-> a,
      life |-> "active", verification |-> v, revision |-> revision + 1] :
        n \in Versions, a \in Places, v \in Verifications}

Verified == {[installed EXCEPT !.verification = v] : v \in Verifications}

\* What a completed operation may leave.
Outcomes(q) ==
    IF q.operation = "install" THEN Created(q.product)
    ELSE IF installed = NoState THEN {}
    ELSE CASE q.operation = "verify" -> Verified
           [] q.operation = "uninstall" -> {NoState}
           [] OTHER -> Changed

\* A report of state s with one thing wrong.
Misreports(s) ==
    IF s = NoState THEN {s}
    ELSE {[s EXCEPT !.version = n] : n \in IF "version" \in Faults THEN Versions ELSE {}}
      \cup {[s EXCEPT !.product = n] : n \in IF "product" \in Faults THEN Products ELSE {}}
      \cup {[s EXCEPT !.install = 0] : n \in Faults \cap {"install"}}
      \cup {[s EXCEPT !.life = "verification_failed"] : n \in Faults \cap {"lifecycle"}}
      \cup {[s EXCEPT !.verification = NoText] : n \in Faults \cap {"verification"}}
      \cup {s}

Result(q, status, state, audit, provider) ==
    [id |-> q.id, digest |-> Digest(q), provider |-> provider, status |-> status,
     audit |-> audit, state |-> state]

\* No plan with this ID was applied yet.
Unapplied(q) == \A r \in results : r.id # q.id

\* Setup sends a result and remembers what it reported.
Send(r) ==
    /\ results' = results \cup {r}
    /\ reported' = IF r.state = NoState THEN reported ELSE reported \cup {r.state}
    /\ UNCHANGED <<ref, plan, bound, refresh, reply, plans, requests>>

\* Setup completes a request.
SetupCompletes(q) ==
    /\ Unapplied(q)
    /\ revision < MaxRevision
    /\ \E s \in Outcomes(q) :
         /\ installed' = s
         /\ revision' = IF s = NoState THEN revision ELSE s.revision
         /\ \/ \E m \in Misreports(s) : Send(Result(q, "completed", m, "audit", q.provider))
            \/ /\ "leftover" \in Faults /\ q.operation = "uninstall"
               /\ Send(Result(q, "completed", installed, "audit", q.provider))
            \/ "audit" \in Faults /\ Send(Result(q, "completed", s, NoText, q.provider))
            \/ /\ "provider" \in Faults
               /\ \E v \in Providers \ {q.provider} :
                    Send(Result(q, "completed", s, "audit", v))

\* Setup does nothing: it refuses, or fails and has rolled back.
SetupDeclines(q) ==
    /\ Unapplied(q)
    /\ \E status \in {"refused", "failed"} :
         Send(Result(q, status, NoState, NoText, q.provider))
    /\ UNCHANGED <<installed, revision>>

\* Setup is interrupted, before or after it changed something.
SetupInterrupted(q) ==
    /\ Unapplied(q)
    /\ revision < MaxRevision
    /\ \E s \in {installed} \cup (IF installed = NoState THEN {} ELSE Changed) :
         installed' = s
    /\ revision' = IF installed' = installed THEN revision ELSE revision + 1
    /\ Send(Result(q, "recovery_required", NoState, NoText, q.provider))

\* Setup changes the installation without being asked by this launcher.
SetupDrift ==
    /\ installed # NoState /\ revision < MaxRevision
    /\ installed' \in Changed
    /\ revision' = revision + 1
    /\ UNCHANGED <<ref, plan, bound, refresh, reply, plans, requests, results, reported>>
-----------------------------------------------------------------------------
\* The state that a managed reference describes.
StateOf(f) ==
    [install |-> f.install, product |-> f.product, version |-> f.version,
     place |-> f.place, life |-> "active", verification |-> f.verification,
     revision |-> f.revision]

Init ==
    /\ ref \in FirstReferences
    /\ plan = NoPlan /\ bound = NoBinding
    /\ refresh = NoRefresh /\ reply = "ok"
    /\ installed = IF ref # NoRef /\ ref.owner = "managed" THEN StateOf(ref) ELSE NoState
    /\ revision = 1
    /\ plans = 0
    /\ requests = {} /\ results = {}
    /\ reported = IF installed = NoState THEN {} ELSE {installed}

Setup ==
    \/ \E q \in requests : SetupCompletes(q) \/ SetupDeclines(q) \/ SetupInterrupted(q)
    \/ SetupDrift

Handoff ==
    \/ \E op \in Operations, product \in Products, v \in Providers, i \in Inputs :
         MakePlan(op, product, v, i)
    \/ Review \/ Drop
    \/ \E i \in Inputs : InputsChanged(i) \/ Submit(i)
    \/ Deliver

Next == Handoff \/ Bind \/ Setup

Spec == Init /\ [][Next]_vars
-----------------------------------------------------------------------------
(* Properties *)

\* A result identifies the plan it is for by ID, digest and provider.
Results ==
    [id : Nat, digest : Operations \X Products \X (Nat \cup {NoText}),
     provider : Providers,
     status : {"completed", "refused", "failed", "recovery_required"},
     audit : {"audit", NoText}, state : States \cup {NoState}]

Refreshes ==
    [transition : {"created", "refreshed", "archived", "unchanged"},
     dependent : {"ready", "managed_install_changed", "managed_install_unavailable",
                  "managed_install_recovery_required"},
     plans : {"fresh", "stale"},
     ref : References \cup {NoRef}]

\* Every variable has its type: whatever Setup reports, the reference that the
\* launcher keeps is complete.
TypeOK ==
    /\ ref \in References \cup {NoRef}
    /\ plan \in Plans \cup {NoPlan}
    /\ bound \in Bindings \cup {NoBinding}
    /\ refresh \in Refreshes \cup {NoRefresh}
    /\ reply \in {"ok", "error", "invalid"}
    /\ installed \in States \cup {NoState}
    /\ revision \in Nat /\ plans \in Nat
    /\ requests \subseteq Plans /\ results \subseteq Results
    /\ reported \subseteq States

\* A managed reference is, but for its lifecycle, one state that Setup
\* reported: no sequence of projections mixes two of them.
SingleOrigin ==
    ref # NoRef /\ ref.owner = "managed" => StateOf(ref) \in reported

\* A launch plan is reported fresh only while the launcher's reference is
\* active and describes, in every respect, the installation that the plan was
\* built for.  What Setup changed without telling the launcher is not in it.
FreshMeansUnchanged ==
    /\ bound # NoBinding /\ ref # NoRef
    /\ InstallStatus(bound, ref) = "fresh"
    => ref.life = "active" /\ StateOf(ref) = StateOf(bound.for)

\* A projection changes a reference only within its identity: the install, the
\* product, the owner and the exact version stay, and an imported or
\* foreign-owned reference stays as it is.
IdentityFixed ==
    [][ref # NoRef /\ ref' # NoRef =>
        /\ ref'.install = ref.install /\ ref'.product = ref.product
        /\ ref'.owner = ref.owner /\ ref'.version = ref.version
        /\ ref.owner # "managed" => ref' = ref]_vars

\* No late or repeated result takes a reference back to an earlier revision.
NoRollback ==
    [][ref # NoRef /\ ref' # NoRef => ref'.revision >= ref.revision]_vars

\* The projection and ulk_launch_plan_install_status_v1 are asked about the
\* launch plan bound to the reference before the projection.  They disagree in
\* one case and in no other: a refused or failed result leaves a reference that
\* is not active as it is, and the projection still calls its plans fresh.
AnswersAgree ==
    [][Deliver /\ reply' = "ok" /\ ref # NoRef =>
        (InstallStatus(BindingOf(ref), ref') # refresh'.plans
            <=> refresh'.transition = "unchanged" /\ ref.life # "active")]_vars
-----------------------------------------------------------------------------
(* The inductive invariant *)

\* Nothing known has a revision that Setup has not given yet.
Ordered ==
    /\ installed # NoState => installed.revision = revision
    /\ ref # NoRef => ref.revision <= revision
    /\ bound # NoBinding => bound.revision <= revision
    /\ \A s \in reported : s.revision <= revision

\* A revision stands for one place.
Coherent ==
    \A s, t \in reported \cup ({installed} \ {NoState}) :
        s.revision = t.revision => s.place = t.place

\* Plans are numbered as they are made, and each has one result at most.
Numbered ==
    /\ plan # NoPlan => plan.id <= plans
    /\ \A q \in requests :
         /\ q.id <= plans
         /\ plan # NoPlan /\ q.id = plan.id => q.operation = plan.operation
    /\ \A r \in results :
         /\ r.id <= plans
         /\ r.state # NoState => r.state \in reported
         /\ \A t \in results : r.id = t.id => r = t

\* A result of the current plan is as new as the reference, and that of an
\* installation newer than everything before it.
ResultsCurrent ==
    \A r \in results : plan # NoPlan /\ r.id = plan.id /\ r.state # NoState =>
        /\ ref # NoRef => ref.revision <= r.state.revision
        /\ plan.operation = "install" =>
             \/ ref # NoRef /\ ref.life = "active"
             \/ /\ ref # NoRef => ref.revision < r.state.revision
                /\ bound # NoBinding => bound.revision < r.state.revision

\* A binding is of the present installation, or older than it.
Lineage ==
    bound # NoBinding =>
        /\ bound = BindingOf(bound.for)
        /\ bound.for.owner = "managed" => StateOf(bound.for) \in reported
        /\ ref # NoRef =>
             \/ bound.revision < ref.revision
             \/ /\ bound.for.install = ref.install
                /\ bound.for.product = ref.product
                /\ bound.for.version = ref.version
                /\ bound.for.owner = ref.owner
                /\ ref.owner # "managed" => bound.for = ref

IInv == TypeOK /\ SingleOrigin /\ Ordered /\ Coherent /\ Numbered
        /\ ResultsCurrent /\ Lineage
=============================================================================
