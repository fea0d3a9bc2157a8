------------------------- MODULE ProductComposition -------------------------
(***************************************************************************)
(* Product compositions (ulk_product_composition.c): a product binding     *)
(* fills in a product descriptor, the entrypoints with their capabilities, *)
(* and the contract set, and the kernel validates the whole before it      *)
(* relies on it.  Validation walks the entrypoints and, for each, its      *)
(* capabilities, and returns at the first fault; the texts are decided by  *)
(* the scans of TextScan.                                                  *)
(*                                                                         *)
(* The caller starts from the provider's fixture (one entrypoint, one      *)
(* capability) and edits it.                                               *)
(***************************************************************************)
EXTENDS TextRules, SequencesExt

CONSTANTS
    Samples,      \* the views a text field may hold
    Plain, Hex,   \* the fixture's texts: a name, and a digest
    SchemaLength, \* the schemas' maxLength of four texts, which the code does not bound
    MaxItems,     \* bound on entrypoints, and on capabilities of each
    MaxEdits      \* bound on the edits

VARIABLES composition,
          entrypoint, capability,   \* the positions of the two loops
          status, edits

compositionVars == <<composition, entrypoint, capability, status, edits>>

\* An array is its pointer and what that points to.
Array(items) == [set |-> TRUE, items |-> items]

FixtureCapability == [whole |-> TRUE, kind |-> 1, required |-> 1]

FixtureEntrypoint ==
    [whole |-> TRUE, entrypoint_id |-> Plain, relative_path |-> Plain,
     artifact_set_id |-> Plain, capabilities |-> Array(<<FixtureCapability>>)]

Fixture ==
    [whole |-> TRUE,
     product |-> [whole |-> TRUE, set |-> TRUE, product_id |-> Plain,
                  exact_version |-> Plain, publisher_id |-> Plain,
                  composition_revision |-> Plain],
     entrypoints |-> Array(<<FixtureEntrypoint>>),
     contract_set |-> [whole |-> TRUE, set |-> TRUE, contract_set_id |-> Plain,
                       version |-> Plain, sha256 |-> Hex]]

CompositionInit ==
    /\ composition = Fixture
    /\ entrypoint = 0 /\ capability = 0
    /\ status = "unasked"
    /\ edits = 0
-----------------------------------------------------------------------------
(***************************************************************************)
(* The caller's edits.                                                     *)
(***************************************************************************)

TextFields == {"product_id", "exact_version", "publisher_id",
               "composition_revision", "contract_set_id", "version", "sha256",
               "entrypoint_id", "relative_path", "artifact_set_id"}

\* The ways to change one struct: a text, the declared size, the pointer.
Changed(struct) ==
    {[struct EXCEPT ![f] = v] : f \in DOMAIN struct \cap TextFields, v \in Samples}
    \cup {[struct EXCEPT ![f] = FALSE] : f \in DOMAIN struct \cap {"whole", "set"}}

ChangedCapability(c) ==
    {[c EXCEPT !.whole = FALSE]} \cup {[c EXCEPT !.kind = k] : k \in {0, 8, 9}}
    \cup {[c EXCEPT !.required = r] : r \in {0, 2}}

\* The ways to change an array: its pointer, one item (others[i] is what item
\* i may become), an item more or less.
ChangedArray(array, fresh, others) ==
    LET items == array.items IN
    {[array EXCEPT !.set = FALSE]}
    \cup (UNION {{[array EXCEPT !.items[i] = x] : x \in others[i]} : i \in DOMAIN items})
    \cup (IF Len(items) < MaxItems
          THEN {[array EXCEPT !.items = Append(items, fresh)]} ELSE {})
    \cup (IF Len(items) > 0 THEN {[array EXCEPT !.items = Front(items)]} ELSE {})

ChangedCapabilities(array) ==
    ChangedArray(array, FixtureCapability,
                 [i \in DOMAIN array.items |-> ChangedCapability(array.items[i])])

ChangedEntrypoint(e) ==
    Changed(e)
    \cup {[e EXCEPT !.capabilities = a] : a \in ChangedCapabilities(e.capabilities)}

ChangedEntrypoints(array) ==
    ChangedArray(array, FixtureEntrypoint,
                 [i \in DOMAIN array.items |-> ChangedEntrypoint(array.items[i])])

EditComposition ==
    /\ edits < MaxEdits
    /\ edits' = edits + 1
    /\ status # "running"
    /\ status' = "unasked"
    /\ composition' \in
         {[composition EXCEPT !.whole = FALSE]}
         \cup {[composition EXCEPT !.product = x] : x \in Changed(composition.product)}
         \cup {[composition EXCEPT !.contract_set = x] :
                   x \in Changed(composition.contract_set)}
         \cup {[composition EXCEPT !.entrypoints = x] :
                   x \in ChangedEntrypoints(composition.entrypoints)}
    /\ UNCHANGED <<entrypoint, capability>>
-----------------------------------------------------------------------------
(***************************************************************************)
(* Validation.                                                             *)
(***************************************************************************)

ContractSetValid(identity) ==
    /\ identity.whole
    /\ Accepts("name", identity.contract_set_id)
    /\ Accepts("text", identity.version)
    /\ Accepts("digest", identity.sha256)

CapabilityValid(c) == c.whole /\ c.kind \in 1..8 /\ c.required \in {0, 1}

DescriptorValid(product) ==
    /\ product.whole
    /\ Accepts("name", product.product_id)
    /\ Accepts("text", product.exact_version)
    /\ Accepts("name", product.publisher_id)
    /\ Accepts("text", product.composition_revision)

\* An entrypoint apart from its capabilities.
EntrypointValid(e) ==
    /\ e.whole
    /\ Accepts("name", e.entrypoint_id)
    /\ Accepts("path", e.relative_path)
    /\ Accepts("name_or_empty", e.artifact_set_id)
    /\ Len(e.capabilities.items) # 0
    /\ e.capabilities.set

Answer(s) == status' = s /\ UNCHANGED <<composition, entrypoint, capability, edits>>

Start ==
    /\ status = "unasked"
    /\ IF /\ composition.whole
          /\ composition.product.set
          /\ composition.entrypoints.set
          /\ Len(composition.entrypoints.items) # 0
          /\ composition.contract_set.set
          /\ DescriptorValid(composition.product)
          /\ ContractSetValid(composition.contract_set)
       THEN /\ status' = "running"
            /\ entrypoint' = 1 /\ capability' = 0
            /\ UNCHANGED <<composition, edits>>
       ELSE Answer("invalid_argument")

\* The loop over entrypoints: check one and start on its capabilities, or
\* accept after the last.
CheckEntrypoint ==
    /\ status = "running" /\ capability = 0
    /\ IF entrypoint > Len(composition.entrypoints.items) THEN Answer("ok")
       ELSE IF EntrypointValid(composition.entrypoints.items[entrypoint])
       THEN /\ capability' = 1
            /\ UNCHANGED <<composition, entrypoint, status, edits>>
       ELSE Answer("invalid_argument")

\* Mutant: the inner loop returns from the outer one when it has passed.
CheckCapability_ReturnsEarly ==
    /\ status = "running" /\ capability # 0
    /\ LET array == composition.entrypoints.items[entrypoint].capabilities IN
       IF capability > Len(array.items) THEN Answer("ok")
       ELSE IF CapabilityValid(array.items[capability])
       THEN /\ capability' = capability + 1
            /\ UNCHANGED <<composition, entrypoint, status, edits>>
       ELSE Answer("invalid_argument")

\* The loop over the capabilities of one entrypoint.
CheckCapability ==
    /\ status = "running" /\ capability # 0
    /\ LET array == composition.entrypoints.items[entrypoint].capabilities IN
       IF capability > Len(array.items)
       THEN /\ entrypoint' = entrypoint + 1 /\ capability' = 0
            /\ UNCHANGED <<composition, status, edits>>
       ELSE IF CapabilityValid(array.items[capability])
       THEN /\ capability' = capability + 1
            /\ UNCHANGED <<composition, entrypoint, status, edits>>
       ELSE Answer("invalid_argument")

CompositionNext == EditComposition \/ Start \/ CheckEntrypoint \/ CheckCapability

CompositionSpec == CompositionInit /\ [][CompositionNext]_compositionVars
-----------------------------------------------------------------------------
(***************************************************************************)
(* Properties.                                                             *)
(***************************************************************************)

\* The schemas of contracts/schema/composition, apart from the lengths of
\* four texts, for texts that a C string can hold.
SchemaForm(c) ==
    LET texts(struct) == {struct[f] : f \in DOMAIN struct \cap TextFields}
        holds(v) == v.text # << >> => v.data
    IN  /\ c.whole /\ c.product.set /\ c.contract_set.set /\ c.entrypoints.set
        /\ c.product.whole /\ c.contract_set.whole
        /\ \A v \in texts(c.product) \cup texts(c.contract_set) : holds(v)
        /\ Name(c.product.product_id.text) /\ Name(c.product.publisher_id.text)
        /\ Text(c.product.exact_version.text)
        /\ Text(c.product.composition_revision.text)
        /\ Name(c.contract_set.contract_set_id.text)
        /\ Text(c.contract_set.version.text)
        /\ Digest(c.contract_set.sha256.text)
        /\ c.entrypoints.items # << >>
        /\ \A e \in Range(c.entrypoints.items) :
             /\ e.whole /\ \A v \in texts(e) : holds(v)
             /\ Name(e.entrypoint_id.text)
             /\ RelativePath(e.relative_path.text)
             /\ e.artifact_set_id.text # << >> => Name(e.artifact_set_id.text)
             /\ e.capabilities.set /\ e.capabilities.items # << >>
             /\ \A k \in Range(e.capabilities.items) :
                  k.whole /\ k.kind \in 1..8 /\ k.required \in 0..1

\* The maxLength of version (64), exact_version and composition_revision (128)
\* and relative_path (4096).
SchemaLengths(c) ==
    /\ Len(c.contract_set.version.text) <= SchemaLength.version
    /\ Len(c.product.exact_version.text) <= SchemaLength.exact_version
    /\ Len(c.product.composition_revision.text) <= SchemaLength.composition_revision
    /\ \A e \in Range(c.entrypoints.items) :
          Len(e.relative_path.text) <= SchemaLength.relative_path

FitsSchemas(c) == SchemaForm(c) /\ SchemaLengths(c)

\* A composition that the schemas refuse for the length of a text and nothing
\* else.
OnlyTooLong(c) == SchemaForm(c) /\ ~SchemaLengths(c)

(***************************************************************************)
(* The two nested loops with their early returns accept every composition  *)
(* of the schemas and, beyond them, only those with one of four texts too  *)
(* long, which the code has no limit for: a fault in any entrypoint or     *)
(* capability, the last ones too, is found.                                *)
(***************************************************************************)
ValidIffFitsOrTooLong ==
    status \in {"ok", "invalid_argument"} =>
        (status = "ok" <=> FitsSchemas(composition) \/ OnlyTooLong(composition))
=============================================================================
