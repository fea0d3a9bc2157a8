------------------------- MODULE SetupHandoffProofs -------------------------
(***************************************************************************)
(* Proofs about SetupHandoff: for any products, versions, providers,       *)
(* faults and bounds, a reference keeps its identity, never goes back to   *)
(* an earlier revision, and a launch plan that is reported fresh is of an  *)
(* unchanged installation.  The last part is about LaunchReadiness, where  *)
(* the reference model is asked as well.                                   *)
(***************************************************************************)
EXTENDS LaunchReadiness, TLAPS

-----------------------------------------------------------------------------
(* The launcher's own steps *)

\* The initial state satisfies the invariant.
LEMMA InitInv == Init => IInv
<1> SUFFICES ASSUME Init PROVE IInv OBVIOUS
<1>1. ref \in References \cup {NoRef} /\ (ref # NoRef => ref.revision = 1)
  BY HandoffAssumption DEF Init
<1>2. CASE ref # NoRef /\ ref.owner = "managed"
  <2>1. (installed = StateOf(ref) /\ reported = {installed}) \/ installed = NoState
    BY <1>2 DEF Init
  <2>2. StateOf(ref) \in States BY <1>1, <1>2 DEF References, States, StateOf, Lifecycles
  <2>3. installed = StateOf(ref) /\ reported = {installed}
    BY <1>2, <2>2, NothingAssumption DEF Init
  <2>4. installed.revision = 1 BY <1>1, <1>2, <2>3 DEF StateOf
  <2>5. TypeOK BY <1>1, <2>2, <2>3 DEF Init, TypeOK
  <2>6. SingleOrigin BY <2>3 DEF SingleOrigin
  <2>7. Ordered BY <1>1, <2>3, <2>4 DEF Init, Ordered
  <2>8. Coherent BY <2>3 DEF Coherent
  <2>9. Numbered /\ ResultsCurrent /\ Lineage BY DEF Init, Numbered, ResultsCurrent, Lineage
  <2> QED BY <2>5, <2>6, <2>7, <2>8, <2>9 DEF IInv
<1>3. CASE ~(ref # NoRef /\ ref.owner = "managed")
  <2>1. installed = NoState /\ reported = {} BY <1>3 DEF Init
  <2>2. TypeOK BY <1>1, <2>1 DEF Init, TypeOK
  <2>3. SingleOrigin BY <1>3 DEF SingleOrigin
  <2>4. Ordered BY <1>1, <2>1 DEF Init, Ordered
  <2>5. Coherent BY <2>1 DEF Coherent
  <2>6. Numbered /\ ResultsCurrent /\ Lineage BY DEF Init, Numbered, ResultsCurrent, Lineage
  <2> QED BY <2>2, <2>3, <2>4, <2>5, <2>6 DEF IInv
<1> QED BY <1>2, <1>3

\* A new plan has a number that no request and no result has.
LEMMA MakePlanInv ==
    ASSUME IInv, NEW op \in Operations, NEW product \in Products,
           NEW provider \in Providers, NEW inputs \in Inputs,
           MakePlan(op, product, provider, inputs)
    PROVE  IInv'
<1> USE DEF IInv
<1>1. plan' \in Plans /\ plan'.id = plans + 1 /\ plans' = plans + 1
  BY DEF MakePlan, TypeOK, Plans, References
<1>2. UNCHANGED <<ref, bound, refresh, reply, setupVars>> BY DEF MakePlan
<1>3. TypeOK' BY <1>1, <1>2 DEF TypeOK, setupVars
<1>4. (SingleOrigin /\ Ordered /\ Coherent /\ Lineage)'
  BY <1>2 DEF SingleOrigin, Ordered, Coherent, Lineage, setupVars
<1>5. \A q \in requests : q.id \in Nat /\ q.id <= plans
  BY DEF TypeOK, Numbered, Plans
<1>6. \A r \in results : r.id \in Nat /\ r.id <= plans
  BY DEF TypeOK, Numbered, Results
<1>7. plans \in Nat BY DEF TypeOK
<1>8. Numbered' BY <1>1, <1>2, <1>5, <1>6, <1>7 DEF Numbered, setupVars
<1>9. ResultsCurrent' BY <1>1, <1>2, <1>6, <1>7 DEF ResultsCurrent, setupVars
<1> QED BY <1>3, <1>4, <1>8, <1>9

\* Reviewing a plan, or its inputs changing, leaves its number and operation.
LEMMA EditPlanInv ==
    ASSUME IInv, Review \/ \E i \in Inputs : InputsChanged(i)
    PROVE  IInv'
<1> USE DEF IInv
<1>1. /\ plan # NoPlan /\ plan' \in Plans /\ plan'.id = plan.id
      /\ plan'.operation = plan.operation
  BY DEF Review, InputsChanged, TypeOK, Plans
<1>2. UNCHANGED <<ref, bound, refresh, reply, plans, setupVars>>
  BY DEF Review, InputsChanged
<1>3. TypeOK' BY <1>1, <1>2 DEF TypeOK, setupVars
<1>4. (SingleOrigin /\ Ordered /\ Coherent /\ Lineage)'
  BY <1>2 DEF SingleOrigin, Ordered, Coherent, Lineage, setupVars
<1>5. (Numbered /\ ResultsCurrent)'
  BY <1>1, <1>2 DEF Numbered, ResultsCurrent, setupVars
<1> QED BY <1>3, <1>4, <1>5

\* A request carries number and operation of the current plan.
LEMMA SubmitInv ==
    ASSUME IInv, NEW i \in Inputs, Submit(i)
    PROVE  IInv'
<1> USE DEF IInv
<1> DEFINE request == [plan EXCEPT !.inputs = i]
<1>1. /\ plan # NoPlan /\ plan \in Plans /\ request \in Plans
      /\ request.id = plan.id /\ request.operation = plan.operation
  BY DEF Submit, TypeOK, Plans
<1>2. /\ requests' \subseteq requests \cup {request}
      /\ reply' \in {"ok", "error", "invalid"}
  BY DEF Submit, ApplyRequestStatus
<1>3. UNCHANGED <<ref, plan, bound, refresh, installed, revision, plans, results, reported>>
  BY DEF Submit
<1> HIDE DEF request
<1>4. TypeOK' BY <1>1, <1>2, <1>3 DEF TypeOK
<1>5. (SingleOrigin /\ Ordered /\ Coherent /\ Lineage /\ ResultsCurrent)'
  BY <1>3 DEF SingleOrigin, Ordered, Coherent, Lineage, ResultsCurrent
<1>6. Numbered' BY <1>1, <1>2, <1>3 DEF Numbered
<1> QED BY <1>4, <1>5, <1>6

\* A binding describes the reference it was made from.
LEMMA BindInv ==
    ASSUME IInv, Bind
    PROVE  IInv'
<1> USE DEF IInv
<1>1. /\ ref # NoRef /\ ref \in References /\ bound' = BindingOf(ref)
      /\ bound' \in Bindings /\ bound'.for = ref /\ bound'.revision = ref.revision
  BY DEF Bind, TypeOK, BindingOf, Bindings, References
<1>2. UNCHANGED <<ref, plan, refresh, reply, plans, setupVars>> BY DEF Bind
<1>3. TypeOK' BY <1>1, <1>2 DEF TypeOK, setupVars
<1>4. (SingleOrigin /\ Coherent /\ Numbered)'
  BY <1>2 DEF SingleOrigin, Coherent, Numbered, setupVars
<1>5. Ordered' BY <1>1, <1>2 DEF Ordered, setupVars
<1>6. ResultsCurrent' BY <1>1, <1>2 DEF ResultsCurrent, setupVars
<1>7. Lineage' BY <1>1, <1>2 DEF Lineage, SingleOrigin, setupVars
<1> QED BY <1>3, <1>4, <1>5, <1>6, <1>7

\* An archived reference is dropped.
LEMMA DropInv ==
    ASSUME IInv, Drop
    PROVE  IInv'
<1> USE DEF IInv
<1>1. /\ ref' = NoRef /\ ref # NoRef /\ ref.life = "uninstalled"
      /\ UNCHANGED <<plan, bound, refresh, reply, plans, setupVars>>
  BY DEF Drop
<1>2. TypeOK' BY <1>1 DEF TypeOK, setupVars
<1>3. (SingleOrigin /\ Coherent /\ Numbered /\ Ordered /\ Lineage)'
  BY <1>1 DEF SingleOrigin, Coherent, Numbered, Ordered, Lineage, setupVars
<1>4. ResultsCurrent' BY <1>1 DEF ResultsCurrent, setupVars
<1> QED BY <1>2, <1>3, <1>4
-----------------------------------------------------------------------------
(* Projection *)

\* A projection that leaves the reference leaves the invariant.
LEMMA SameReferenceInv ==
    ASSUME IInv, UNCHANGED <<ref, plan, bound, plans, setupVars>>,
           refresh' \in Refreshes \cup {NoRefresh},
           reply' \in {"ok", "error", "invalid"}
    PROVE  IInv'
BY DEF IInv, TypeOK, SingleOrigin, Ordered, Coherent, Numbered, ResultsCurrent,
       Lineage, setupVars

\* The structure that is written before the result is looked at.
LEMMA UnchangedTyped == TypeOK => Unchanged \in Refreshes /\ Unchanged.ref = ref
BY DEF TypeOK, Unchanged, Refreshes

\* A plan that is not an installation is accepted for a managed reference only.
LEMMA AcceptedManaged ==
    ASSUME NEW r, Accepted(r), ref # NoRef
    PROVE  /\ plan # NoPlan /\ plan.operation # "install"
           /\ ref.owner = "managed" /\ ref.product = plan.product
           /\ r.id = plan.id
BY DEF Accepted, PlanValid, Concerns, ResultIdentityMatches

\* A projection that changes the lifecycle of the reference and nothing else.
LEMMA LifecycleInv ==
    ASSUME IInv, NEW r, Accepted(r), ref # NoRef, NEW life \in Lifecycles,
           ref' = [ref EXCEPT !.life = life],
           UNCHANGED <<plan, bound, plans, setupVars>>,
           refresh' \in Refreshes, reply' = "ok"
    PROVE  IInv'
<1> USE DEF IInv
<1>1. /\ ref \in References /\ ref' \in References /\ ref' # NoRef
      /\ ref'.install = ref.install /\ ref'.product = ref.product
      /\ ref'.owner = ref.owner /\ ref'.version = ref.version
      /\ ref'.revision = ref.revision /\ StateOf(ref') = StateOf(ref)
  BY NothingAssumption DEF TypeOK, References, StateOf
<1>2. plan # NoPlan /\ plan.operation # "install" /\ ref.owner = "managed"
  BY AcceptedManaged
<1>3. TypeOK' BY <1>1 DEF TypeOK, setupVars
<1>4. SingleOrigin'
  <2>1. StateOf(ref) \in reported BY <1>2 DEF SingleOrigin
  <2>2. StateOf(ref') \in reported' BY <1>1, <2>1 DEF setupVars
  <2> QED BY <2>2 DEF SingleOrigin, StateOf
<1>5. (Coherent /\ Numbered)' BY DEF Coherent, Numbered, setupVars
<1>6. Ordered' BY <1>1 DEF Ordered, setupVars
<1>7. ResultsCurrent' BY <1>1, <1>2 DEF ResultsCurrent, setupVars
<1>8. Lineage' BY <1>1, <1>2 DEF Lineage, setupVars
<1> QED BY <1>3, <1>4, <1>5, <1>6, <1>7, <1>8

\* What a completed result makes of the reference.
LEMMA CompletedReference ==
    ASSUME IInv, NEW r \in results, ProjectCompleted(r)
    PROVE  /\ r.state \in States /\ r.state # NoState /\ r.state \in reported
           /\ ref' = CopyState(r.state) /\ ref' \in References /\ ref' # NoRef
           /\ StateOf(ref') = r.state /\ ref'.life = "active"
           /\ ref'.owner = "managed" /\ ref'.revision = r.state.revision
           /\ refresh' \in Refreshes /\ reply' = "ok"
<1>1. r \in Results BY DEF IInv, TypeOK
<1>2. r.state # NoState /\ r.state.life = "active" /\ TextValid(r.state.verification)
  BY DEF ProjectCompleted, StateAccepted, StateValid
<1>3. r.state \in States /\ r.state.verification \in Verifications
  BY <1>1, <1>2 DEF Results, States, TextValid
<1>4. r.state \in reported BY <1>2 DEF IInv, Numbered
<1>5. ref' = CopyState(r.state) /\ reply' = "ok" BY DEF ProjectCompleted, Keep
<1>6. CopyState(r.state) \in References
  BY <1>2, <1>3 DEF CopyState, References, States, Ownerships, Lifecycles
<1>7. StateOf(ref') = r.state BY <1>2, <1>3, <1>5 DEF StateOf, CopyState, States
<1>8. refresh' \in Refreshes BY <1>6 DEF ProjectCompleted, Keep, Refreshes
<1> QED BY <1>2, <1>3, <1>4, <1>5, <1>6, <1>7, <1>8, NothingAssumption DEF CopyState

\* A completed result puts one reported state in the place of another.
LEMMA CompletedInv ==
    ASSUME IInv, NEW r \in results, ProjectCompleted(r),
           UNCHANGED <<plan, bound, plans, setupVars>>
    PROVE  IInv'
<1> USE DEF IInv
<1>1. /\ r.state \in States /\ r.state # NoState /\ r.state \in reported
      /\ ref' = CopyState(r.state) /\ ref' \in References /\ ref' # NoRef
      /\ StateOf(ref') = r.state /\ ref'.life = "active"
      /\ ref'.owner = "managed" /\ ref'.revision = r.state.revision
      /\ refresh' \in Refreshes /\ reply' = "ok"
  BY CompletedReference
<1>2. Accepted(r) /\ StateAccepted(r.state) BY DEF ProjectCompleted
<1>3. plan # NoPlan /\ r.id = plan.id
  BY <1>2 DEF Accepted, PlanValid, ResultIdentityMatches
<1>4. TypeOK' BY <1>1 DEF TypeOK, setupVars
<1>5. SingleOrigin' BY <1>1 DEF SingleOrigin, setupVars, StateOf
<1>6. (Coherent /\ Numbered)' BY DEF Coherent, Numbered, setupVars
<1>7. Ordered' BY <1>1 DEF Ordered, setupVars
<1>8. ResultsCurrent'
  <2>1. \A t \in results : t.id = plan.id => t = r BY <1>3 DEF Numbered
  <2>2. r.state.revision \in Nat BY <1>1 DEF States
  <2> QED BY <1>1, <2>1, <2>2 DEF ResultsCurrent, setupVars
<1>9. Lineage'
  <2> SUFFICES ASSUME bound # NoBinding
               PROVE  \/ bound.revision < ref'.revision
                      \/ /\ bound.for.install = ref'.install
                         /\ bound.for.product = ref'.product
                         /\ bound.for.version = ref'.version
                         /\ bound.for.owner = ref'.owner
    BY <1>1 DEF Lineage, setupVars
  <2>1. bound \in Bindings /\ bound.revision \in Nat /\ r.state.revision \in Nat
    BY <1>1 DEF TypeOK, Bindings, States
  <2>2. CASE plan.operation = "install"
    <3>1. ref = NoRef BY <1>2, <2>2 DEF Accepted, Concerns
    <3> QED BY <1>1, <1>3, <2>1, <2>2, <3>1 DEF ResultsCurrent
  <2>3. CASE plan.operation # "install"
    <3>1. ref # NoRef /\ ref.owner = "managed" /\ ref.product = plan.product
      BY <1>2, <2>3 DEF Accepted, Concerns
    <3>2. /\ r.state.install = ref.install /\ r.state.version = ref.version
          /\ r.state.product = plan.product
      BY <1>2, <2>3 DEF StateAccepted, SameInstall
    <3>3. /\ ref'.install = ref.install /\ ref'.version = ref.version
          /\ ref'.product = ref.product /\ ref'.owner = ref.owner
      BY <1>1, <3>1, <3>2 DEF CopyState
    <3>4. ref.revision <= ref'.revision /\ ref.revision \in Nat
      BY <1>1, <1>3, <3>1 DEF ResultsCurrent, TypeOK, References
    <3> QED BY <1>1, <2>1, <3>1, <3>3, <3>4 DEF Lineage
  <2> QED BY <2>2, <2>3
<1> QED BY <1>1, <1>4, <1>5, <1>6, <1>7, <1>8, <1>9

\* No projection disturbs the invariant.
LEMMA DeliverInv ==
    ASSUME IInv, Deliver
    PROVE  IInv'
<1>1. PICK r \in results : ResultProject(r) BY DEF Deliver
<1>2. UNCHANGED <<plan, bound, plans, setupVars>> BY <1>1 DEF ResultProject
<1>3. TypeOK BY DEF IInv
<1>4. CASE ProjectRefused(r)
  BY <1>2, <1>4, SameReferenceInv DEF ProjectRefused
<1>5. CASE ProjectError(r)
  BY <1>2, <1>3, <1>5, SameReferenceInv, UnchangedTyped DEF ProjectError
<1>6. CASE ProjectUnchanged(r)
  BY <1>2, <1>3, <1>6, SameReferenceInv, UnchangedTyped DEF ProjectUnchanged, Keep
<1>7. CASE ProjectRecovery(r)
  <2>1. Accepted(r) /\ reply' = "ok" BY <1>7 DEF ProjectRecovery, Keep
  <2>2. CASE ref = NoRef
    <3>1. ref' = ref /\ refresh' \in Refreshes
      BY <1>7, <2>2 DEF ProjectRecovery, Keep, Refreshes
    <3> QED BY <1>2, <2>1, <3>1, SameReferenceInv
  <2>3. CASE ref # NoRef
    <3>1. ref' = [ref EXCEPT !.life = "recovery_required"]
      BY <1>7, <2>3 DEF ProjectRecovery, Keep
    <3>2. "recovery_required" \in Lifecycles BY DEF Lifecycles
    <3>3. ref' \in References BY <1>3, <2>3, <3>1, <3>2 DEF TypeOK, References
    <3>4. refresh' \in Refreshes BY <1>7, <2>3, <3>1, <3>3 DEF ProjectRecovery, Keep, Refreshes
    <3> QED BY <1>2, <2>1, <2>3, <3>1, <3>2, <3>4, LifecycleInv
  <2> QED BY <2>2, <2>3
<1>8. CASE ProjectUninstall(r)
  <2>1. Accepted(r) /\ reply' = "ok" /\ plan.operation = "uninstall"
    BY <1>8 DEF ProjectUninstall, Keep
  <2>2. ref # NoRef BY <2>1 DEF Accepted, Concerns
  <2>3. ref' = [ref EXCEPT !.life = "uninstalled"]
    BY <1>8, <2>2 DEF ProjectUninstall, Keep
  <2>4. "uninstalled" \in Lifecycles BY DEF Lifecycles
  <2>5. ref' \in References BY <1>3, <2>2, <2>3, <2>4 DEF TypeOK, References
  <2>6. refresh' \in Refreshes BY <1>8, <2>3, <2>5 DEF ProjectUninstall, Keep, Refreshes
  <2> QED BY <1>2, <2>1, <2>2, <2>3, <2>4, <2>6, LifecycleInv
<1>9. CASE ProjectCompleted(r) BY <1>2, <1>9, CompletedInv
<1> QED BY <1>1, <1>4, <1>5, <1>6, <1>7, <1>8, <1>9 DEF ResultProject
-----------------------------------------------------------------------------
(* Setup *)

\* A change of the installation that is not reported: its revision is new.
LEMMA ChangedTyped ==
    ASSUME IInv, installed # NoState, NEW s \in Changed
    PROVE  s \in States /\ s # NoState /\ s.revision = revision + 1
<1>1. installed \in States /\ revision \in Nat BY DEF IInv, TypeOK
<1>2. PICK a \in Places, v \in Verifications : s = Altered(a, v) BY DEF Changed
<1>3. s = [install |-> installed.install, product |-> installed.product,
           version |-> installed.version, place |-> a, life |-> installed.life,
           verification |-> v, revision |-> revision + 1]
  BY <1>1, <1>2 DEF Altered, States
<1>4. s \in States /\ s.revision = revision + 1 BY <1>1, <1>3 DEF States
<1> QED BY <1>4, NothingAssumption

\* The installation after a step of Setup: gone, or as known, or newer than
\* all that is known.
Follows(s, n) ==
    \/ s = NoState /\ n >= revision
    \/ s = installed /\ n = revision
    \/ s \in States /\ s # NoState /\ s.revision = revision + 1 /\ n = revision + 1
    \/ /\ installed # NoState /\ s \in States /\ s # NoState /\ n = revision
       /\ s.revision = installed.revision /\ s.place = installed.place

\* What Setup does to the installation keeps revisions in order.
LEMMA InstallationFollows ==
    ASSUME IInv, Follows(installed', revision')
    PROVE  /\ installed' \in States \cup {NoState} /\ revision' >= revision
           /\ installed' # NoState => installed'.revision = revision'
           /\ \A s, t \in reported \cup ({installed'} \ {NoState}) :
                 s.revision = t.revision => s.place = t.place
<1> USE DEF IInv
<1>1. /\ installed \in States \cup {NoState} /\ revision \in Nat
      /\ \A s \in reported : s.revision \in Nat /\ s.revision <= revision
  BY DEF TypeOK, States, Ordered
<1>2. /\ installed' \in States \cup {NoState} /\ revision' >= revision
      /\ (installed' # NoState => installed'.revision = revision')
  BY <1>1 DEF Follows, Ordered
<1>3. ASSUME NEW s \in reported, installed' # NoState, s.revision = installed'.revision
      PROVE  s.place = installed'.place
  <2>1. CASE installed' = installed BY <1>3, <2>1 DEF Coherent
  <2>2. CASE installed'.revision = revision + 1 BY <1>1, <1>3, <2>2
  <2>3. CASE /\ installed # NoState /\ installed'.revision = installed.revision
             /\ installed'.place = installed.place
    BY <1>3, <2>3 DEF Coherent
  <2> QED BY <1>3, <2>1, <2>2, <2>3 DEF Follows
<1>4. \A s, t \in reported : s.revision = t.revision => s.place = t.place
  BY DEF Coherent
<1> QED BY <1>2, <1>3, <1>4

\* Sending a result about the installation as it is keeps the invariant.
LEMMA SendInv ==
    ASSUME IInv, NEW q \in requests, Unapplied(q), NEW r \in Results, Send(r),
           r.id = q.id, Follows(installed', revision'), revision' \in Nat,
           r.state # NoState =>
              /\ r.state.revision >= revision /\ r.state.revision <= revision'
              /\ q.operation = "install" => r.state.revision = revision + 1
              /\ \A s \in reported \cup ({installed'} \ {NoState}) :
                    s.revision = r.state.revision => s.place = r.state.place
    PROVE  IInv'
<1> USE DEF IInv
<1> DEFINE known == reported \cup (IF r.state = NoState THEN {} ELSE {r.state})
<1>1. /\ results' = results \cup {r} /\ reported' = known
      /\ UNCHANGED <<ref, plan, bound, refresh, reply, plans, requests>>
  BY DEF Send
<1>2. r.state \in States \cup {NoState} BY DEF Results
<1>3. /\ revision \in Nat
      /\ (ref # NoRef => ref.revision \in Nat /\ ref.revision <= revision)
      /\ (bound # NoBinding => bound.revision \in Nat /\ bound.revision <= revision)
      /\ (\A s \in reported : s.revision \in Nat /\ s.revision <= revision)
      /\ (r.state # NoState => r.state.revision \in Nat)
  BY <1>2 DEF TypeOK, References, Bindings, States, Ordered
<1>4. /\ installed' \in States \cup {NoState} /\ revision' >= revision
      /\ (installed' # NoState => installed'.revision = revision')
      /\ \A s, t \in reported \cup ({installed'} \ {NoState}) :
            s.revision = t.revision => s.place = t.place
  BY InstallationFollows
<1>5. TypeOK' BY <1>1, <1>2, <1>4 DEF TypeOK
<1>6. (SingleOrigin /\ Lineage)' BY <1>1 DEF SingleOrigin, Lineage
<1>7. Ordered' BY <1>1, <1>2, <1>3, <1>4 DEF Ordered
<1>8. Coherent' BY <1>1, <1>4 DEF Coherent
<1>9. Numbered'
  <2>1. q.id <= plans /\ (\A t \in results : t.id # r.id) BY DEF Numbered, Unapplied
  <2> QED BY <1>1, <2>1 DEF Numbered
<1>10. ResultsCurrent'
  <2>1. ASSUME plan # NoPlan, r.id = plan.id, r.state # NoState
        PROVE  /\ ref # NoRef => ref.revision <= r.state.revision
               /\ plan.operation = "install" =>
                    /\ ref # NoRef => ref.revision < r.state.revision
                    /\ bound # NoBinding => bound.revision < r.state.revision
    <3>1. q.operation = plan.operation BY <2>1 DEF Numbered
    <3> QED BY <1>3, <2>1, <3>1
  <2> QED BY <1>1, <2>1 DEF ResultsCurrent
<1> QED BY <1>5, <1>6, <1>7, <1>8, <1>9, <1>10

\* A change that nobody asked for.
LEMMA DriftInv ==
    ASSUME IInv, SetupDrift
    PROVE  IInv'
<1> USE DEF IInv
<1>1. /\ installed # NoState /\ installed' \in Changed /\ revision' = revision + 1
      /\ UNCHANGED <<ref, plan, bound, refresh, reply, plans, requests, results, reported>>
  BY DEF SetupDrift
<1>2. revision \in Nat BY DEF TypeOK
<1>3. Follows(installed', revision') BY <1>1, <1>2, ChangedTyped DEF Follows
<1>4. /\ installed' \in States \cup {NoState} /\ revision' >= revision
      /\ (installed' # NoState => installed'.revision = revision')
      /\ \A s, t \in reported \cup ({installed'} \ {NoState}) :
            s.revision = t.revision => s.place = t.place
  BY <1>3, InstallationFollows
<1>5. TypeOK' BY <1>1, <1>2, <1>4 DEF TypeOK
<1>6. (SingleOrigin /\ Numbered /\ ResultsCurrent /\ Lineage)'
  BY <1>1 DEF SingleOrigin, Numbered, ResultsCurrent, Lineage
<1>7. Coherent' BY <1>1, <1>4 DEF Coherent
<1>8. Ordered'
  <2>1. /\ ref # NoRef => ref.revision \in Nat
        /\ bound # NoBinding => bound.revision \in Nat
        /\ \A s \in reported : s.revision \in Nat
    BY DEF TypeOK, References, Bindings, States
  <2> QED BY <1>1, <1>2, <1>4, <2>1 DEF Ordered
<1> QED BY <1>5, <1>6, <1>7, <1>8

\* A request is a plan, and its digest is of the type of digests.
LEMMA RequestTyped ==
    ASSUME TypeOK, NEW q \in requests, NEW status, NEW state, NEW audit, NEW provider,
           status \in {"completed", "refused", "failed", "recovery_required"},
           state \in States \cup {NoState}, audit \in {"audit", NoText},
           provider \in Providers
    PROVE  /\ Result(q, status, state, audit, provider) \in Results
           /\ Result(q, status, state, audit, provider).id = q.id
           /\ Result(q, status, state, audit, provider).state = state
           /\ q.provider \in Providers
<1>1. q \in Plans BY DEF TypeOK
<1>2. Digest(q) \in Operations \X Products \X (Nat \cup {NoText})
  BY <1>1 DEF Digest, Plans
<1> QED BY <1>1, <1>2 DEF Result, Results, Plans

\* Setup declines a request.
LEMMA DeclinesInv ==
    ASSUME IInv, NEW q \in requests, SetupDeclines(q)
    PROVE  IInv'
<1>1. PICK status \in {"refused", "failed"} :
        Send(Result(q, status, NoState, NoText, q.provider))
  BY DEF SetupDeclines
<1>2. TypeOK /\ q.provider \in Providers BY DEF IInv, TypeOK, Plans
<1> DEFINE r == Result(q, status, NoState, NoText, q.provider)
<1>3. r \in Results /\ r.id = q.id /\ r.state = NoState BY <1>2, RequestTyped
<1>4. Unapplied(q) /\ installed' = installed /\ revision' = revision
  BY DEF SetupDeclines
<1>5. Follows(installed', revision') /\ revision' \in Nat
  BY <1>2, <1>4 DEF Follows, TypeOK
<1> HIDE DEF r
<1>6. Send(r) BY <1>1 DEF r
<1> QED BY <1>3, <1>4, <1>5, <1>6, SendInv

\* Setup is interrupted.
LEMMA InterruptedInv ==
    ASSUME IInv, NEW q \in requests, SetupInterrupted(q)
    PROVE  IInv'
<1>1. TypeOK /\ q.provider \in Providers BY DEF IInv, TypeOK, Plans
<1> DEFINE r == Result(q, "recovery_required", NoState, NoText, q.provider)
<1>2. r \in Results /\ r.id = q.id /\ r.state = NoState BY <1>1, RequestTyped
<1>3. Unapplied(q) /\ Send(r) BY DEF SetupInterrupted
<1>4. revision \in Nat BY <1>1 DEF TypeOK
<1>5. Follows(installed', revision') /\ revision' \in Nat
  <2>1. CASE installed' = installed
    BY <1>4, <2>1 DEF SetupInterrupted, Follows
  <2>2. CASE installed' # installed
    <3>1. installed # NoState /\ installed' \in Changed /\ revision' = revision + 1
      BY <2>2 DEF SetupInterrupted
    <3> QED BY <1>4, <3>1, ChangedTyped DEF Follows
  <2> QED BY <2>1, <2>2
<1> HIDE DEF r
<1> QED BY <1>2, <1>3, <1>5, SendInv

\* What a completed operation leaves is newer than all that is known, or has
\* the revision and place of the present installation, or nothing.
LEMMA OutcomesFollow ==
    ASSUME IInv, NEW q \in requests, NEW s \in Outcomes(q)
    PROVE  /\ s \in States \cup {NoState}
           /\ Follows(s, IF s = NoState THEN revision ELSE s.revision)
           /\ s # NoState => /\ s.revision \in Nat /\ s.revision >= revision
                             /\ q.operation = "install" => s.revision = revision + 1
           /\ s = NoState => installed # NoState
           /\ q.operation = "uninstall" => s = NoState
<1> USE DEF IInv
<1>1. q \in Plans /\ revision \in Nat /\ installed \in States \cup {NoState}
  BY DEF TypeOK
<1>2. q.operation \in AllOperations /\ q.product \in Products
  BY <1>1, HandoffAssumption DEF Plans
<1>3. CASE q.operation = "install"
  <2>1. s \in Created(q.product) BY <1>3 DEF Outcomes
  <2>2. PICK n \in Versions, a \in Places, v \in Verifications :
          s = [install |-> revision + 1, product |-> q.product, version |-> n,
               place |-> a, life |-> "active", verification |-> v,
               revision |-> revision + 1]
    BY <2>1 DEF Created
  <2>3. s \in States /\ s.revision = revision + 1
    BY <1>1, <1>2, <2>2 DEF States, Lifecycles
  <2>4. s # NoState BY <2>3, NothingAssumption
  <2> QED BY <1>1, <1>3, <2>3, <2>4 DEF Follows
<1>4. CASE q.operation # "install"
  <2>1. installed # NoState /\ installed \in States BY <1>1, <1>4 DEF Outcomes
  <2>2. installed.revision = revision BY <2>1 DEF Ordered
  <2>3. CASE q.operation = "verify"
    <3>1. s \in Verified BY <1>4, <2>1, <2>3 DEF Outcomes
    <3>2. PICK v \in Verifications : s = [installed EXCEPT !.verification = v]
      BY <3>1 DEF Verified
    <3>3. s \in States /\ s.revision = revision /\ s.place = installed.place
      BY <1>1, <2>1, <2>2, <3>2 DEF States
    <3>4. s # NoState BY <3>3, NothingAssumption
    <3> QED BY <1>1, <2>1, <2>2, <2>3, <3>3, <3>4 DEF Follows
  <2>4. CASE q.operation = "uninstall"
    <3>1. s = NoState BY <1>4, <2>1, <2>4 DEF Outcomes
    <3> QED BY <1>1, <2>1, <2>4, <3>1 DEF Follows
  <2>5. CASE q.operation \notin {"verify", "uninstall"}
    <3>1. s \in Changed BY <1>4, <2>1, <2>5 DEF Outcomes
    <3>2. s \in States /\ s # NoState /\ s.revision = revision + 1
      BY <2>1, <3>1, ChangedTyped
    <3> QED BY <1>1, <1>4, <2>5, <3>2 DEF Follows
  <2> QED BY <2>3, <2>4, <2>5
<1> QED BY <1>3, <1>4

\* A report keeps revision and place of the state, whatever else it gets wrong.
LEMMA MisreportTyped ==
    ASSUME NEW s \in States \cup {NoState}, NEW m \in Misreports(s)
    PROVE  /\ m \in States \cup {NoState} /\ (s = NoState => m = NoState)
           /\ m # NoState => m.revision = s.revision /\ m.place = s.place
<1>1. CASE s = NoState BY <1>1 DEF Misreports
<1>2. CASE s # NoState
  <2>1. s \in States BY <1>2
  <2>2. \/ \E n \in Versions : m = [s EXCEPT !.version = n]
        \/ \E n \in Products : m = [s EXCEPT !.product = n]
        \/ m = [s EXCEPT !.install = 0]
        \/ m = [s EXCEPT !.life = "verification_failed"]
        \/ m = [s EXCEPT !.verification = NoText]
        \/ m = s
    BY <1>2 DEF Misreports
  <2>3. m \in States /\ m.revision = s.revision /\ m.place = s.place
    BY <2>1, <2>2 DEF States, Lifecycles
  <2> QED BY <1>2, <2>3
<1> QED BY <1>1, <1>2

\* Setup completes a request.
LEMMA CompletesInv ==
    ASSUME IInv, NEW q \in requests, SetupCompletes(q)
    PROVE  IInv'
<1>1. PICK s \in Outcomes(q) :
        /\ installed' = s
        /\ revision' = IF s = NoState THEN revision ELSE s.revision
        /\ \/ \E m \in Misreports(s) : Send(Result(q, "completed", m, "audit", q.provider))
           \/ /\ q.operation = "uninstall"
              /\ Send(Result(q, "completed", installed, "audit", q.provider))
           \/ Send(Result(q, "completed", s, NoText, q.provider))
           \/ \E v \in Providers : Send(Result(q, "completed", s, "audit", v))
  BY DEF SetupCompletes
<1>2. TypeOK /\ q.provider \in Providers /\ Unapplied(q)
  BY DEF IInv, TypeOK, Plans, SetupCompletes
<1>3. /\ s \in States \cup {NoState} /\ Follows(installed', revision')
      /\ (s # NoState => /\ s.revision \in Nat /\ s.revision >= revision
                         /\ q.operation = "install" => s.revision = revision + 1)
      /\ (s = NoState => installed # NoState)
      /\ (q.operation = "uninstall" => s = NoState)
  BY <1>1, OutcomesFollow
<1>4. revision' \in Nat /\ revision \in Nat /\ installed \in States \cup {NoState}
  BY <1>1, <1>2, <1>3 DEF TypeOK
<1>5. \A u, t \in reported \cup ({installed'} \ {NoState}) :
        u.revision = t.revision => u.place = t.place
  BY <1>3, InstallationFollows
<1>6. ASSUME NEW m \in States \cup {NoState}, NEW audit \in {"audit", NoText},
             NEW v \in Providers, Send(Result(q, "completed", m, audit, v)),
             m # NoState => s # NoState /\ m.revision = s.revision /\ m.place = s.place
      PROVE  IInv'
  <2> DEFINE r == Result(q, "completed", m, audit, v)
  <2>1. r \in Results /\ r.id = q.id /\ r.state = m BY <1>2, RequestTyped
  <2>2. Send(r) BY <1>6
  <2> HIDE DEF r
  <2>3. ASSUME r.state # NoState
        PROVE  /\ r.state.revision >= revision /\ r.state.revision <= revision'
               /\ q.operation = "install" => r.state.revision = revision + 1
               /\ \A u \in reported \cup ({installed'} \ {NoState}) :
                     u.revision = r.state.revision => u.place = r.state.place
    <3>1. s # NoState /\ m.revision = s.revision /\ m.place = s.place
      BY <1>6, <2>1, <2>3
    <3>2. revision' = s.revision /\ s \in reported \cup ({installed'} \ {NoState})
      BY <1>1, <3>1
    <3> QED BY <1>3, <1>5, <2>1, <3>1, <3>2
  <2> QED BY <1>2, <1>3, <1>4, <2>1, <2>2, <2>3, SendInv
<1>7. CASE \E m \in Misreports(s) : Send(Result(q, "completed", m, "audit", q.provider))
  BY <1>2, <1>3, <1>6, <1>7, MisreportTyped
<1>8. CASE /\ q.operation = "uninstall"
           /\ Send(Result(q, "completed", installed, "audit", q.provider))
  <2> DEFINE r == Result(q, "completed", installed, "audit", q.provider)
  <2>1. r \in Results /\ r.id = q.id /\ r.state = installed
    BY <1>2, <1>4, RequestTyped
  <2>2. Send(r) BY <1>8
  <2> HIDE DEF r
  <2>3. s = NoState /\ installed # NoState /\ revision' = revision /\ installed' = NoState
    BY <1>1, <1>3, <1>8
  <2>4. installed.revision = revision BY <2>3 DEF IInv, Ordered
  <2>5. \A u \in reported : u.revision = installed.revision => u.place = installed.place
    BY <2>3 DEF IInv, Coherent
  <2> QED BY <1>2, <1>3, <1>4, <1>8, <2>1, <2>2, <2>3, <2>4, <2>5, SendInv
<1>9. CASE Send(Result(q, "completed", s, NoText, q.provider))
  BY <1>2, <1>3, <1>6, <1>9
<1>10. CASE \E v \in Providers : Send(Result(q, "completed", s, "audit", v))
  BY <1>3, <1>6, <1>10
<1> QED BY <1>1, <1>7, <1>8, <1>9, <1>10
-----------------------------------------------------------------------------
(* Theorems *)

\* Every step keeps the invariant.
LEMMA NextInv == IInv /\ [Next]_vars => IInv'
<1> SUFFICES ASSUME IInv, [Next]_vars PROVE IInv' OBVIOUS
<1>1. CASE UNCHANGED vars
  BY <1>1 DEF IInv, TypeOK, SingleOrigin, Ordered, Coherent, Numbered,
              ResultsCurrent, Lineage, vars
<1>2. CASE Handoff \/ Bind
  BY <1>2, MakePlanInv, EditPlanInv, SubmitInv, BindInv, DropInv, DeliverInv DEF Handoff
<1>3. CASE Setup
  BY <1>3, CompletesInv, DeclinesInv, InterruptedInv, DriftInv DEF Setup
<1> QED BY <1>1, <1>2, <1>3 DEF Next

\* The inductive invariant of the handoff holds throughout.
THEOREM Invariance == Spec => []IInv
<1>1. Init => IInv BY InitInv
<1>2. IInv /\ [Next]_vars => IInv' BY NextInv
<1> QED BY <1>1, <1>2, PTL DEF Spec

\* Every variable has its type.
THEOREM TypeCorrect == Spec => []TypeOK
<1>1. IInv => TypeOK BY DEF IInv
<1> QED BY <1>1, Invariance, PTL

\* A managed reference is one state that Setup reported: what
\* ulk_setup_copy_state makes of any accepted results is never a mixture.
THEOREM NoMixture == Spec => []SingleOrigin
<1>1. IInv => SingleOrigin BY DEF IInv
<1> QED BY <1>1, Invariance, PTL

\* What ulk_launch_plan_install_status_v1 reports as fresh is unchanged.
LEMMA FreshFromInv == IInv => FreshMeansUnchanged
<1> SUFFICES ASSUME IInv, bound # NoBinding, ref # NoRef,
                    InstallStatus(bound, ref) = "fresh"
             PROVE  ref.life = "active" /\ StateOf(ref) = StateOf(bound.for)
  BY DEF FreshMeansUnchanged
<1>1. /\ ref.life = "active" /\ bound.install = ref.install
      /\ bound.revision = ref.revision /\ bound.verification = ref.verification
  BY DEF InstallStatus
<1>2. ref \in References /\ bound \in Bindings /\ bound.for \in References
  BY DEF IInv, TypeOK, Bindings
<1>3. bound = BindingOf(bound.for) BY DEF IInv, Lineage
<1>4. /\ bound.for.revision = ref.revision /\ bound.for.install = ref.install
      /\ bound.for.verification = ref.verification
  <2>1. /\ bound.install = bound.for.install /\ bound.revision = bound.for.revision
        /\ bound.verification = bound.for.verification
    BY <1>3 DEF BindingOf
  <2> QED BY <1>1, <2>1
<1>5. ~(bound.revision < ref.revision) BY <1>1, <1>2 DEF References, Bindings
<1>6. /\ bound.for.product = ref.product /\ bound.for.version = ref.version
      /\ bound.for.owner = ref.owner /\ (ref.owner # "managed" => bound.for = ref)
  BY <1>5 DEF IInv, Lineage
<1>7. CASE ref.owner # "managed" BY <1>1, <1>6, <1>7
<1>8. CASE ref.owner = "managed"
  <2>1. StateOf(ref) \in reported /\ StateOf(bound.for) \in reported
    BY <1>6, <1>8 DEF IInv, SingleOrigin, Lineage
  <2>2. StateOf(ref).revision = StateOf(bound.for).revision
    BY <1>4 DEF StateOf
  <2>3. StateOf(ref).place = StateOf(bound.for).place
    BY <2>1, <2>2 DEF IInv, Coherent
  <2>4. ref.place = bound.for.place BY <2>3 DEF StateOf
  <2> QED BY <1>1, <1>4, <1>6, <2>4 DEF StateOf
<1> QED BY <1>7, <1>8

\* A launch plan that is reported fresh is of an active installation that has
\* not changed since the plan was built.
THEOREM FreshPlans == Spec => []FreshMeansUnchanged
BY FreshFromInv, Invariance, PTL

\* What a step may do to a reference that stays.
LEMMA ReferenceStep ==
    ASSUME IInv, Next, ref # NoRef, ref' # NoRef
    PROVE  /\ ref'.install = ref.install /\ ref'.product = ref.product
           /\ ref'.owner = ref.owner /\ ref'.version = ref.version
           /\ ref.owner # "managed" => ref' = ref
           /\ ref'.revision >= ref.revision
<1>1. ref \in References BY DEF IInv, TypeOK
<1>2. ref.revision \in Nat BY <1>1 DEF References
<1>3. CASE ref' = ref BY <1>2, <1>3
<1>4. CASE ref' # ref
  <2>1. Deliver
    BY <1>4 DEF Next, Handoff, Setup, MakePlan, Review, InputsChanged, Submit, Bind,
                Drop, SetupCompletes, SetupDeclines, SetupInterrupted, SetupDrift, Send
  <2>2. PICK r \in results : ResultProject(r) BY <2>1 DEF Deliver
  <2>3. /\ Accepted(r) /\ ref.owner = "managed" /\ plan.operation # "install"
        /\ plan # NoPlan /\ r.id = plan.id /\ ref.product = plan.product
    <3>1. Accepted(r)
      BY <1>4, <2>2 DEF ResultProject, ProjectRefused, ProjectRecovery,
         ProjectUnchanged, ProjectUninstall, ProjectError, ProjectCompleted
    <3> QED BY <3>1, AcceptedManaged
  <2>4. CASE ProjectRecovery(r) \/ ProjectUninstall(r)
    <3>1. \E life : ref' = [ref EXCEPT !.life = life]
      BY <2>4 DEF ProjectRecovery, ProjectUninstall, Keep
    <3> QED BY <1>1, <1>2, <2>3, <3>1 DEF References
  <2>5. CASE ProjectCompleted(r)
    <3>1. ref' = CopyState(r.state) /\ r.state # NoState BY <2>5, CompletedReference
    <3>2. /\ r.state.install = ref.install /\ r.state.version = ref.version
          /\ r.state.product = ref.product
      BY <2>3, <2>5 DEF ProjectCompleted, StateAccepted, SameInstall
    <3>3. ref.revision <= r.state.revision BY <2>3, <3>1 DEF IInv, ResultsCurrent
    <3>4. r.state.revision \in Nat BY <2>5, CompletedReference DEF States
    <3> QED BY <1>2, <2>3, <3>1, <3>2, <3>3, <3>4 DEF CopyState
  <2>6. CASE ProjectRefused(r) \/ ProjectUnchanged(r) \/ ProjectError(r)
    BY <1>4, <2>6 DEF ProjectRefused, ProjectUnchanged, ProjectError, Keep, Unchanged
  <2> QED BY <2>2, <2>4, <2>5, <2>6 DEF ResultProject
<1> QED BY <1>3, <1>4

\* A reference keeps its install, product, owner and exact version, and one
\* that is not managed keeps everything.
THEOREM IdentityKept == Spec => IdentityFixed
<1>1. IInv /\ [Next]_vars =>
        [ref # NoRef /\ ref' # NoRef =>
          /\ ref'.install = ref.install /\ ref'.product = ref.product
          /\ ref'.owner = ref.owner /\ ref'.version = ref.version
          /\ ref.owner # "managed" => ref' = ref]_vars
  BY ReferenceStep
<1> QED BY <1>1, Invariance, PTL DEF Spec, IdentityFixed

\* Late, repeated and reordered results never take a reference back.
THEOREM RevisionsGrow == Spec => NoRollback
<1>1. IInv /\ [Next]_vars =>
        [ref # NoRef /\ ref' # NoRef => ref'.revision >= ref.revision]_vars
  BY ReferenceStep
<1> QED BY <1>1, Invariance, PTL DEF Spec, NoRollback

\* One projection and ulk_launch_plan_install_status_v1 answer differently
\* exactly if nothing is projected onto a reference that is not active.
LEMMA AgreeStep ==
    ASSUME IInv, Deliver, reply' = "ok", ref # NoRef
    PROVE  InstallStatus(BindingOf(ref), ref') # refresh'.plans
             <=> refresh'.transition = "unchanged" /\ ref.life # "active"
<1>1. ref \in References BY DEF IInv, TypeOK
<1>2. PICK r \in results : ResultProject(r) BY DEF Deliver
<1>3. CASE ProjectRefused(r) \/ ProjectError(r)
  BY <1>3 DEF ProjectRefused, ProjectError
<1>4. CASE ProjectUnchanged(r)
  <2>1. /\ ref' = ref /\ refresh'.plans = "fresh"
        /\ refresh'.transition = "unchanged"
    BY <1>4 DEF ProjectUnchanged, Keep, Unchanged
  <2> QED BY <2>1 DEF InstallStatus, BindingOf
<1>5. CASE ProjectRecovery(r) \/ ProjectUninstall(r)
  <2>1. /\ ref'.life # "active" /\ refresh'.plans = "stale"
        /\ refresh'.transition # "unchanged"
    BY <1>1, <1>5 DEF ProjectRecovery, ProjectUninstall, Keep, References
  <2> QED BY <2>1 DEF InstallStatus
<1>6. CASE ProjectCompleted(r)
  <2>1. /\ Accepted(r) /\ StateAccepted(r.state) /\ ref' = CopyState(r.state)
        /\ refresh'.plans = IF SameEvidence(r.state) THEN "fresh" ELSE "stale"
        /\ refresh'.transition # "unchanged"
    BY <1>6 DEF ProjectCompleted, Keep
  <2>2. plan.operation # "install" BY <2>1, AcceptedManaged
  <2>3. r.state.install = ref.install /\ r.state.life = "active"
    BY <2>1, <2>2 DEF StateAccepted, SameInstall
  <2> QED BY <2>1, <2>3 DEF InstallStatus, BindingOf, CopyState, SameEvidence
<1> QED BY <1>2, <1>3, <1>4, <1>5, <1>6 DEF ResultProject

\* The two ways to ask whether a launch plan is fresh differ for a refused or
\* failed result on a reference that is not active, and for nothing else.
THEOREM AnswersCoincide == Spec => AnswersAgree
<1>1. IInv /\ [Next]_vars =>
        [Deliver /\ reply' = "ok" /\ ref # NoRef =>
          (InstallStatus(BindingOf(ref), ref') # refresh'.plans
              <=> refresh'.transition = "unchanged" /\ ref.life # "active")]_vars
  BY AgreeStep
<1> QED BY <1>1, Invariance, PTL DEF Spec, AnswersAgree
-----------------------------------------------------------------------------
(* The reference model's view of the launch plan *)

\* The instance has the last binding revision.
InstanceInv ==
    /\ bindings \in Nat
    /\ instance # NoInstance => bindings > 0
    /\ bindings > 0 => instance.binding = bindings

\* The launch plan was built for the bound reference, and for an instance that
\* is the present one if it has the same binding revision.
LaunchInv ==
    launch # NoLaunch =>
        /\ bound # NoBinding /\ bindings > 0
        /\ launch.revision = bound.revision
        /\ launch.binding = launch.for.binding
        /\ launch.for.binding \in Nat /\ launch.for.binding <= bindings
        /\ launch.for.binding = bindings => instance = launch.for

ReadyInv == IInv /\ InstanceInv /\ LaunchInv

\* A step of the composition is a step of the handoff, or leaves it alone.
LEMMA HandoffStep == [ReadyNext]_allVars => [Next]_vars
BY DEF ReadyNext, BindInstance, BuildPlan, Next, allVars

\* A step that leaves binding and instance alone keeps the launch plan's part.
LEMMA ReadyStep == ReadyInv /\ [ReadyNext]_allVars => ReadyInv'
<1> SUFFICES ASSUME ReadyInv, [ReadyNext]_allVars PROVE ReadyInv' OBVIOUS
<1>1. IInv' BY HandoffStep, NextInv DEF ReadyInv
<1>2. CASE (Handoff \/ Setup) /\ UNCHANGED readyVars
  <2>1. bound' = bound
    BY <1>2 DEF Handoff, Setup, MakePlan, Review, InputsChanged, Submit, Drop, Deliver,
       ResultProject, SetupCompletes, SetupDeclines, SetupInterrupted, SetupDrift, Send
  <2> QED BY <1>1, <1>2, <2>1 DEF ReadyInv, InstanceInv, LaunchInv, readyVars
<1>3. ASSUME NEW p \in Profiles, BindInstance(p) PROVE ReadyInv'
  <2>1. /\ bindings' = bindings + 1 /\ instance'.binding = bindings + 1
        /\ bound' = bound /\ launch' = launch
    BY <1>3 DEF BindInstance, vars
  <2>2. InstanceInv' BY <2>1 DEF ReadyInv, InstanceInv
  <2>3. LaunchInv' BY <2>1 DEF ReadyInv, InstanceInv, LaunchInv
  <2> QED BY <1>1, <2>2, <2>3 DEF ReadyInv
<1>4. CASE BuildPlan
  <2>1. /\ bound' = BindingOf(ref) /\ ref # NoRef /\ instance # NoInstance
        /\ UNCHANGED <<instance, bindings>>
        /\ launch'.revision = ref.revision /\ launch'.binding = instance.binding
        /\ launch'.for = instance
    BY <1>4 DEF BuildPlan, Bind
  <2>2. bound' # NoBinding /\ bound'.revision = ref.revision
    <3>1. ref \in References BY <2>1 DEF ReadyInv, IInv, TypeOK
    <3>2. BindingOf(ref) \in Bindings BY <3>1 DEF BindingOf, Bindings, References
    <3> QED BY <2>1, <3>2, NothingAssumption DEF BindingOf
  <2>3. InstanceInv' BY <2>1 DEF ReadyInv, InstanceInv
  <2>4. LaunchInv' BY <2>1, <2>2 DEF ReadyInv, InstanceInv, LaunchInv
  <2> QED BY <1>1, <2>3, <2>4 DEF ReadyInv
<1>5. CASE UNCHANGED allVars
  BY <1>1, <1>5 DEF ReadyInv, InstanceInv, LaunchInv, allVars, vars, readyVars
<1> QED BY <1>2, <1>3, <1>4, <1>5 DEF ReadyNext

\* The invariant of the composition holds throughout.
THEOREM ReadyInvariance == ReadySpec => []ReadyInv
<1>1. ReadyInit => ReadyInv
  BY InitInv DEF ReadyInit, ReadyInv, InstanceInv, LaunchInv
<1>2. ReadyInv /\ [ReadyNext]_allVars => ReadyInv' BY ReadyStep
<1> QED BY <1>1, <1>2, PTL DEF ReadySpec

\* A fresh plan's installation has the place it had when the plan was built.
LEMMA GraphFreshFromInv == ReadyInv => GraphFreshMeansUnchanged
<1> SUFFICES ASSUME ReadyInv, launch # NoLaunch, ref # NoRef,
                    GraphValidate(Graph).plans = "fresh"
             PROVE  /\ instance = launch.for
                    /\ ref.install = bound.for.install
                    /\ ref.product = bound.for.product
                    /\ ref.version = bound.for.version
                    /\ ref.place = bound.for.place
  BY DEF GraphFreshMeansUnchanged, Askable
<1>1. ~Stale(Graph)
  <2>1. "fresh" # "stale" OBVIOUS
  <2> HIDE DEF Graph
  <2> QED BY <2>1 DEF GraphValidate
<1>2. ref.revision = launch.revision /\ instance.binding = launch.binding
  BY <1>1 DEF Stale, Graph
<1>3. instance = launch.for BY <1>2 DEF ReadyInv, InstanceInv, LaunchInv
<1>4. bound # NoBinding /\ bound.revision = ref.revision
  BY <1>2 DEF ReadyInv, LaunchInv
<1>5. ref \in References /\ bound \in Bindings /\ bound.for \in References
  BY <1>4 DEF ReadyInv, IInv, TypeOK, Bindings
<1>6. ~(bound.revision < ref.revision) BY <1>4, <1>5 DEF References
<1>7. /\ bound.for.install = ref.install /\ bound.for.product = ref.product
      /\ bound.for.version = ref.version /\ bound.for.owner = ref.owner
      /\ (ref.owner # "managed" => bound.for = ref)
  BY <1>4, <1>6 DEF ReadyInv, IInv, Lineage
<1>8. CASE ref.owner = "managed"
  <2>1. StateOf(ref) \in reported /\ StateOf(bound.for) \in reported
    BY <1>4, <1>7, <1>8 DEF ReadyInv, IInv, SingleOrigin, Lineage
  <2>2. bound.for.revision = bound.revision
    <3>1. bound = BindingOf(bound.for) BY <1>4 DEF ReadyInv, IInv, Lineage
    <3> QED BY <3>1 DEF BindingOf
  <2>3. StateOf(ref).revision = StateOf(bound.for).revision
    BY <1>4, <2>2 DEF StateOf
  <2>4. StateOf(ref).place = StateOf(bound.for).place
    BY <2>1, <2>3 DEF ReadyInv, IInv, Coherent
  <2>5. ref.place = bound.for.place BY <2>4 DEF StateOf
  <2> QED BY <1>3, <1>7, <2>5
<1> QED BY <1>3, <1>7, <1>8

\* A launch plan that ulk_reference_graph_validate_v1 calls fresh is of the
\* present instance and of an installation that has not changed.
THEOREM GraphFreshPlans == ReadySpec => []GraphFreshMeansUnchanged
BY GraphFreshFromInv, ReadyInvariance, PTL
-----------------------------------------------------------------------------
(* The two questions about a launch plan *)

Instances ==
    [instance : {Self}, product : Products, install : Nat, profile : Profiles,
     artifacts : {Empty}, binding : Nat]

\* The launch plan of an instance for an installation of revision n.
PlanOf(i, n) ==
    [plan |-> Self, product |-> i.product, instance |-> i.instance,
     install |-> i.install, profile |-> i.profile, artifacts |-> i.artifacts,
     revision |-> n, binding |-> i.binding, composition |-> Self, for |-> i]

\* What the caller builds is complete.
RecordsInv ==
    /\ bindings > 0 => instance \in Instances
    /\ launch # NoLaunch =>
         launch.for \in Instances /\ launch = PlanOf(launch.for, bound.revision)

\* Binding an instance and building a plan take texts from typed references.
LEMMA RecordsStep ==
    ReadyInv /\ RecordsInv /\ [ReadyNext]_allVars => RecordsInv'
<1> SUFFICES ASSUME ReadyInv, RecordsInv, [ReadyNext]_allVars PROVE RecordsInv'
  OBVIOUS
<1>1. CASE (Handoff \/ Setup) /\ UNCHANGED readyVars
  <2>1. bound' = bound
    BY <1>1 DEF Handoff, Setup, MakePlan, Review, InputsChanged, Submit, Drop, Deliver,
       ResultProject, SetupCompletes, SetupDeclines, SetupInterrupted, SetupDrift, Send
  <2> QED BY <1>1, <2>1 DEF RecordsInv, readyVars
<1>2. ASSUME NEW p \in Profiles, BindInstance(p) PROVE RecordsInv'
  <2>1. ref \in References BY <1>2 DEF BindInstance, ReadyInv, IInv, TypeOK
  <2>2. bindings + 1 \in Nat BY DEF ReadyInv, InstanceInv
  <2>3. instance' \in Instances
    BY <1>2, <2>1, <2>2 DEF BindInstance, References, Instances
  <2>4. bound' = bound /\ launch' = launch BY <1>2 DEF BindInstance, vars
  <2> QED BY <2>3, <2>4 DEF RecordsInv
<1>3. CASE BuildPlan
  <2>1. instance \in Instances BY <1>3 DEF BuildPlan, ReadyInv, InstanceInv, RecordsInv
  <2>2. launch' = PlanOf(instance, ref.revision) /\ bound'.revision = ref.revision
    BY <1>3 DEF BuildPlan, Bind, BindingOf, PlanOf
  <2>3. launch'.for = instance BY <2>2 DEF PlanOf
  <2>4. instance' = instance /\ bindings' = bindings BY <1>3 DEF BuildPlan
  <2> QED BY <2>1, <2>2, <2>3, <2>4 DEF RecordsInv
<1>4. CASE UNCHANGED allVars
  BY <1>4 DEF RecordsInv, allVars, vars, readyVars
<1> QED BY <1>1, <1>2, <1>3, <1>4 DEF ReadyNext

\* Every check passes.
AllPass(g) ==
    /\ ProductValid(g.product) /\ InstallReferenceValid(g.install)
    /\ InstanceValid(g.instance)
    /\ g.profile # Absent => ProfileValid(g.profile)
    /\ g.artifacts # Absent => ArtifactSetValid(g.artifacts)
    /\ LaunchPlanValid(g.plan)
    /\ ProductsAgree(g) /\ InstallsAgree(g) /\ InstancesAgree(g)
    /\ ProfilesAgree(g) /\ ArtifactSetsAgree(g)

\* The k-th check of a graph is the k-th conjunct.
LEMMA NoneFails ==
    ASSUME NEW g
    PROVE  {k \in DOMAIN Checks(g) : ~Checks(g)[k][2]} = {} <=> AllPass(g)
<1>1. DOMAIN Checks(g) = 1..11 BY DEF Checks
<1>2. /\ Checks(g)[1][2] <=> ProductValid(g.product)
      /\ Checks(g)[2][2] <=> InstallReferenceValid(g.install)
      /\ Checks(g)[3][2] <=> InstanceValid(g.instance)
      /\ Checks(g)[4][2] <=> (g.profile # Absent => ProfileValid(g.profile))
      /\ Checks(g)[5][2] <=> (g.artifacts # Absent => ArtifactSetValid(g.artifacts))
      /\ Checks(g)[6][2] <=> LaunchPlanValid(g.plan)
      /\ Checks(g)[7][2] <=> ProductsAgree(g)
      /\ Checks(g)[8][2] <=> InstallsAgree(g)
      /\ Checks(g)[9][2] <=> InstancesAgree(g)
      /\ Checks(g)[10][2] <=> ProfilesAgree(g)
      /\ Checks(g)[11][2] <=> ArtifactSetsAgree(g)
  BY DEF Checks
<1>3. \A k \in 1..11 : k = 1 \/ k = 2 \/ k = 3 \/ k = 4 \/ k = 5 \/ k = 6 \/ k = 7
                       \/ k = 8 \/ k = 9 \/ k = 10 \/ k = 11
  OBVIOUS
<1>4. {1, 2, 3, 4, 5, 6, 7, 8, 9, 10, 11} \subseteq 1..11 OBVIOUS
<1> QED BY <1>1, <1>2, <1>3, <1>4 DEF AllPass

\* The answer about a graph is "fresh" exactly if nothing failed and no
\* revision differs.
LEMMA FreshAnswer ==
    ASSUME NEW g
    PROVE  GraphValidate(g) = [valid |-> TRUE, issue |-> "none", plans |-> "fresh"]
             <=> AllPass(g) /\ ~Stale(g)
<1>1. CASE AllPass(g)
  <2>1. GraphValidate(g) = [valid |-> TRUE, issue |-> "none",
                            plans |-> IF Stale(g) THEN "stale" ELSE "fresh"]
    BY <1>1, NoneFails DEF GraphValidate
  <2>2. CASE Stale(g) BY <1>1, <2>1, <2>2
  <2>3. CASE ~Stale(g) BY <1>1, <2>1, <2>3
  <2> QED BY <2>2, <2>3
<1>2. CASE ~AllPass(g)
  <2> DEFINE failed == {k \in DOMAIN Checks(g) : ~Checks(g)[k][2]}
  <2>1. GraphValidate(g) = [valid |-> FALSE, issue |-> Checks(g)[Min(failed)][1],
                            plans |-> "stale"]
    BY <1>2, NoneFails DEF GraphValidate
  <2> HIDE DEF failed
  <2> QED BY <1>2, <2>1
<1> QED BY <1>1, <1>2

\* The graph of a complete reference, a complete instance and a plan built for
\* that instance passes every check if instance and reference are of the same
\* installation and product.
LEMMA GraphPasses ==
    ASSUME Nat \subseteq Identifiers, ref \in References, instance \in Instances,
           NEW n \in Nat, launch = PlanOf(instance, n),
           instance.install = ref.install, instance.product = ref.product
    PROVE  AllPass(Graph)
<1> USE ReadyAssumption, TextAssumption
<1>1. ProductValid(Graph.product)
  BY DEF ProductValid, IdentifierValid, Graph, Instances
<1>2. InstallReferenceValid(Graph.install)
  <2>1. Graph.install = ref BY DEF Graph
  <2>2. /\ ref.install \in Identifiers /\ ref.product \in Identifiers
        /\ ref.revision \in Identifiers /\ ref.version \in Versions
        /\ ref.place \in Places /\ ref.verification \in Verifications
        /\ ref.owner \in Ownerships /\ ref.life \in Lifecycles
    BY DEF References
  <2>3. ViewValid(ref.revision) BY <2>2 DEF ViewValid
  <2>4. ViewValid(ref.version) /\ ViewValid(ref.place) /\ ViewValid(ref.verification)
    BY <2>2 DEF ViewValid
  <2> QED
    BY <2>1, <2>2, <2>3, <2>4 DEF InstallReferenceValid, IdentifierValid, Ownerships, Lifecycles
<1>3. /\ instance.instance = Self /\ instance.product \in Identifiers
      /\ instance.install \in Identifiers /\ instance.artifacts = Empty
      /\ instance.profile \in Profiles
      /\ instance.profile = Empty \/ instance.profile \in Identifiers
      /\ instance.binding \in Identifiers
  BY DEF Instances
<1>4. InstanceValid(Graph.instance)
  <2>1. Graph.instance = instance BY DEF Graph
  <2> QED BY <1>3, <2>1 DEF InstanceValid, IdentifierValid, OptionalValid, ViewValid
<1>5. /\ Graph.profile = IF instance.profile = Empty THEN Absent
                         ELSE [profile |-> instance.profile, product |-> instance.product,
                               revision |-> Self]
      /\ Graph.artifacts = Absent /\ Graph.plan = launch
      /\ Graph.product = [product |-> instance.product, binding |-> Self]
      /\ Graph.install = ref /\ Graph.instance = instance
  BY DEF Graph
<1>6. Graph.profile # Absent => ProfileValid(Graph.profile)
  BY <1>3, <1>5 DEF ProfileValid, IdentifierValid, ViewValid
<1>7. LaunchPlanValid(Graph.plan)
  <2>1. n \in Identifiers OBVIOUS
  <2> QED BY <1>3, <1>5, <2>1 DEF LaunchPlanValid, IdentifierValid, OptionalValid, ViewValid, PlanOf
<1>8. /\ launch.product = instance.product /\ launch.instance = instance.instance
      /\ launch.install = instance.install /\ launch.profile = instance.profile
      /\ launch.artifacts = instance.artifacts
  BY DEF PlanOf
<1>9. ProductsAgree(Graph) BY <1>5, <1>8 DEF ProductsAgree
<1>10. InstallsAgree(Graph) /\ InstancesAgree(Graph)
  BY <1>5, <1>8 DEF InstallsAgree, InstancesAgree
<1>11. ProfilesAgree(Graph)
  <2>1. CASE instance.profile = Empty BY <1>5, <1>8, <2>1 DEF ProfilesAgree
  <2>2. CASE instance.profile # Empty
    <3>1. instance.product \in Products BY DEF Instances
    <3>2. Graph.profile # Absent BY <1>3, <1>5, <2>2, <3>1
    <3> QED BY <1>5, <1>8, <2>2, <3>2 DEF ProfilesAgree
  <2> QED BY <2>1, <2>2
<1>12. ArtifactSetsAgree(Graph) BY <1>3, <1>5, <1>8 DEF ArtifactSetsAgree
<1> QED
  BY <1>1, <1>2, <1>4, <1>5, <1>6, <1>7, <1>9, <1>10, <1>11, <1>12 DEF AllPass

\* Equal revisions are of one installation, which graph validation does not
\* compare with the one the plan was built for.
LEMMA QuestionsFromInv ==
    Nat \subseteq Identifiers /\ ReadyInv /\ RecordsInv => QuestionsAgree
<1> SUFFICES ASSUME Nat \subseteq Identifiers, ReadyInv, RecordsInv,
                    launch # NoLaunch, ref # NoRef, instance = launch.for
             PROVE
        ( /\ InstallStatus(bound, ref) = "fresh"
          /\ instance.install = ref.install /\ instance.product = ref.product
          <=>
          /\ GraphValidate(Graph) = [valid |-> TRUE, issue |-> "none", plans |-> "fresh"]
          /\ ref.life = "active" /\ ref.verification = bound.verification )
  BY DEF QuestionsAgree, Askable
<1>1. bound \in Bindings /\ ref \in References /\ bound # NoBinding
  BY DEF ReadyInv, LaunchInv, IInv, TypeOK
<1>2. instance \in Instances /\ launch = PlanOf(instance, bound.revision)
  BY DEF RecordsInv
<1>3. bound.revision \in Nat /\ ref.revision \in Nat BY <1>1 DEF Bindings, References
<1>4. Stale(Graph) <=> ref.revision # bound.revision
  BY <1>2 DEF Stale, Graph, PlanOf
<1>5. InstallStatus(bound, ref) = "fresh" <=>
        /\ ref.life = "active" /\ bound.install = ref.install
        /\ bound.revision = ref.revision /\ bound.verification = ref.verification
  BY DEF InstallStatus
<1>6. bound.revision = ref.revision => bound.install = ref.install
  <2> SUFFICES ASSUME bound.revision = ref.revision PROVE bound.install = ref.install
    OBVIOUS
  <2>1. ~(bound.revision < ref.revision) BY <1>3
  <2>2. bound = BindingOf(bound.for) /\ bound.for.install = ref.install
    BY <1>1, <2>1 DEF ReadyInv, IInv, Lineage
  <2> QED BY <2>2 DEF BindingOf
<1>7. instance.install = ref.install /\ instance.product = ref.product => AllPass(Graph)
  BY <1>1, <1>2, <1>3, GraphPasses
<1>8. AllPass(Graph) => instance.install = ref.install /\ instance.product = ref.product
  <2>1. /\ Graph.install = ref /\ Graph.instance = instance
        /\ Graph.product.product = instance.product
    BY DEF Graph
  <2> HIDE DEF Graph
  <2> QED BY <2>1 DEF AllPass, ProductsAgree, InstallsAgree
<1>9. GraphValidate(Graph) = [valid |-> TRUE, issue |-> "none", plans |-> "fresh"]
        <=> AllPass(Graph) /\ ~Stale(Graph)
  BY FreshAnswer
<1> HIDE DEF Graph
<1> QED BY <1>4, <1>5, <1>6, <1>7, <1>8, <1>9

\* ulk_launch_plan_install_status_v1 and ulk_reference_graph_validate_v1 call
\* the same launch plans fresh, but for what one of them alone can see.  Install
\* IDs are numbers in this model, and every one is an acceptable identifier.
THEOREM QuestionsCoincide ==
    ASSUME Nat \subseteq Identifiers
    PROVE  ReadySpec => []QuestionsAgree
<1>1. ReadyInit => RecordsInv BY DEF ReadyInit, RecordsInv
<1>2. ReadyInv /\ RecordsInv /\ [ReadyNext]_allVars => RecordsInv' BY RecordsStep
<1>3. ReadyInv /\ RecordsInv => QuestionsAgree BY QuestionsFromInv
<1> QED BY <1>1, <1>2, <1>3, ReadyInvariance, PTL DEF ReadySpec
=============================================================================
