-------------------------- MODULE BoundlessRouter --------------------------
(***************************************************************************)
(* The verification router, contracts/src/router/BoundlessRouter.sol: its  *)
(* registry of classes and entries, which share one namespace of bytes4    *)
(* values, and verifyBatch, which resolves the seals of a batch in it.     *)
(* Each registry call is one step; a call that reverts is no step.         *)
(* verifyBatch is a view and so an operator: TRUE when it returns.         *)
(***************************************************************************)
EXTENDS Integers, Sequences, FiniteSets

CONSTANTS
    Bytes4,           \* the bytes4 values considered
    ChainDefault,     \* CHAIN_DEFAULT_SENTINEL, 0x00000000
    Reserved,         \* those under RESERVED_PREFIX_MASK, 0x00xxxxxx
    Impls,            \* addresses of adapters
    NoImpl,           \* address(0)
    implements,       \* impl -> the interfaces it reports through ERC-165
    ClassInputs,      \* the <<classId, metadata>> that addClass is called with
    EntryInputs,      \* the <<selector, impl, parentClassId, gasLimit>> of instantiate
    Batches           \* the FulfillmentBatches considered

VerifierTag == "IBoundlessVerifier"
JointTag == "IBoundlessJointVerifierAssessor"
AssessorTag == "IBoundlessAssessor"
NoTag == "0x00000000"

\* Any other bytes4 given as an interface tag.
OtherTag == "other"

InterfaceTags == {VerifierTag, JointTag, AssessorTag, NoTag, OtherTag}

ClassMetadata ==
    [interfaceTag: InterfaceTags, permissionlessInstantiate: BOOLEAN, isDefault: BOOLEAN,
     requiredAssessorClass: Bytes4, defaultGasLimit: Nat]

Entry == [impl: Impls \cup {NoImpl}, classId: Bytes4, gasLimit: Nat]

\* The value of a mapping where nothing was written, or after delete.
NoClass ==
    [interfaceTag |-> NoTag, permissionlessInstantiate |-> FALSE, isDefault |-> FALSE,
     requiredAssessorClass |-> ChainDefault, defaultGasLimit |-> 0]
NoEntry == [impl |-> NoImpl, classId |-> ChainDefault, gasLimit |-> 0]

\* A seal is its first four bytes, if it has them; `none' is the empty one.
Seals == [kind: {"none", "short"}] \cup [kind: {"selector"}, selector: Bytes4]

\* accepted: the adapters that accept the fill (or, for the batch, that accept
\* it as assessor); signed: the selector its request was signed with.
Fill == [seal: Seals, signed: Bytes4, accepted: SUBSET Impls]
FulfillmentBatch == [fills: Seq(Fill), assessorSeal: Seals, accepted: SUBSET Impls]

ASSUME RouterAssumption ==
    /\ IsFiniteSet(Bytes4)
    /\ ChainDefault \in Bytes4 /\ Reserved \subseteq Bytes4 /\ NoImpl \notin Impls
    /\ implements \in [Impls -> SUBSET InterfaceTags]
    /\ ClassInputs \subseteq Bytes4 \X ClassMetadata
    /\ EntryInputs \subseteq Bytes4 \X (Impls \cup {NoImpl}) \X Bytes4 \X Nat
    /\ Batches \subseteq FulfillmentBatch

VARIABLES
    entries,          \* selector -> Entry
    classes,          \* class id -> ClassMetadata
    tombstoned,       \* the removed selectors and class ids
    defaultClassId,   \* the class flagged isDefault, or ChainDefault
    entriesPerClass,  \* class id -> number of its live entries
    origin,           \* history: what a bytes4 was first registered as
    curated           \* history: the entries an admin instantiated

vars == <<entries, classes, tombstoned, defaultClassId, entriesPerClass, origin, curated>>

isClass(b) == classes[b].interfaceTag # NoTag
isEntry(b) == entries[b].impl # NoImpl

NoOrigin == [class |-> NoClass, entry |-> NoEntry]

Init ==
    /\ entries = [b \in Bytes4 |-> NoEntry]
    /\ classes = [b \in Bytes4 |-> NoClass]
    /\ tombstoned = {}
    /\ defaultClassId = ChainDefault
    /\ entriesPerClass = [b \in Bytes4 |-> 0]
    /\ origin = [b \in Bytes4 |-> NoOrigin]
    /\ curated = {}

\* The history of registering b.
Introduce(b, class, entry) ==
    IF origin[b] = NoOrigin
      THEN [origin EXCEPT ![b] = [class |-> class, entry |-> entry]]
      ELSE origin

-----------------------------------------------------------------------------
(* The registry *)

\* Mutant: forgets the tombstones.
available_Tombstoned(b) == b # ChainDefault /\ ~isClass(b) /\ ~isEntry(b)

\* Nothing is, or ever was, registered under b.
available(b) ==
    b # ChainDefault /\ b \notin tombstoned /\ ~isClass(b) /\ ~isEntry(b)

\* Mutant: a second default class is accepted.
wellFormed_SecondDefault(metadata) ==
    /\ metadata.defaultGasLimit # 0
    /\ metadata.interfaceTag \in {VerifierTag, JointTag, AssessorTag}
    /\ IF metadata.interfaceTag = VerifierTag
         THEN /\ metadata.requiredAssessorClass # ChainDefault
              /\ classes[metadata.requiredAssessorClass].interfaceTag = AssessorTag
         ELSE /\ metadata.requiredAssessorClass = ChainDefault
              /\ metadata.interfaceTag = AssessorTag => ~metadata.permissionlessInstantiate
    /\ metadata.isDefault => metadata.interfaceTag = VerifierTag

\* The checks of addClass on the metadata.
wellFormed(metadata) ==
    /\ metadata.defaultGasLimit # 0
    /\ metadata.interfaceTag \in {VerifierTag, JointTag, AssessorTag}
    /\ IF metadata.interfaceTag = VerifierTag
         THEN /\ metadata.requiredAssessorClass # ChainDefault
              /\ classes[metadata.requiredAssessorClass].interfaceTag = AssessorTag
         ELSE /\ metadata.requiredAssessorClass = ChainDefault
              /\ metadata.interfaceTag = AssessorTag => ~metadata.permissionlessInstantiate
    /\ metadata.isDefault => metadata.interfaceTag = VerifierTag /\ defaultClassId = ChainDefault

\* Called by an admin, as are removeClass and removeEntry.
addClass(classId, metadata) ==
    /\ available(classId)
    /\ wellFormed(metadata)
    /\ classes' = [classes EXCEPT ![classId] = metadata]
    /\ defaultClassId' = IF metadata.isDefault THEN classId ELSE defaultClassId
    /\ origin' = Introduce(classId, metadata, NoEntry)
    /\ UNCHANGED <<entries, tombstoned, entriesPerClass, curated>>

removeClass(classId) ==
    /\ isClass(classId)
    /\ entriesPerClass[classId] = 0
    /\ defaultClassId' = IF defaultClassId = classId THEN ChainDefault ELSE defaultClassId
    /\ classes' = [classes EXCEPT ![classId] = NoClass]
    /\ tombstoned' = tombstoned \cup {classId}
    /\ UNCHANGED <<entries, entriesPerClass, origin, curated>>

\* Mutant: a permissionless class opens the reserved selectors too.
authorized_AnySelector(selector, parentClassId, isAdmin) ==
    classes[parentClassId].permissionlessInstantiate \/ isAdmin

authorized(selector, parentClassId, isAdmin) ==
    \/ classes[parentClassId].permissionlessInstantiate /\ selector \notin Reserved
    \/ isAdmin

\* Mutant: the class's live entries are not counted.
instantiate_NoCount(selector, impl, parentClassId, gasLimit, isAdmin) ==
    LET parent == classes[parentClassId]
        gas    == IF gasLimit = 0 THEN parent.defaultGasLimit ELSE gasLimit
        entry  == [impl |-> impl, classId |-> parentClassId, gasLimit |-> gas]
    IN  /\ available(selector)
        /\ impl # NoImpl
        /\ isClass(parentClassId)
        /\ authorized(selector, parentClassId, isAdmin)
        /\ parent.interfaceTag \in implements[impl]
        /\ entries' = [entries EXCEPT ![selector] = entry]
        /\ origin' = Introduce(selector, NoClass, entry)
        /\ curated' = IF isAdmin THEN curated \cup {selector} ELSE curated
        /\ UNCHANGED <<classes, tombstoned, defaultClassId, entriesPerClass>>

instantiate(selector, impl, parentClassId, gasLimit, isAdmin) ==
    LET parent == classes[parentClassId]
        gas    == IF gasLimit = 0 THEN parent.defaultGasLimit ELSE gasLimit
        entry  == [impl |-> impl, classId |-> parentClassId, gasLimit |-> gas]
    IN  /\ available(selector)
        /\ impl # NoImpl
        /\ isClass(parentClassId)
        /\ authorized(selector, parentClassId, isAdmin)
        /\ parent.interfaceTag \in implements[impl]
        /\ entries' = [entries EXCEPT ![selector] = entry]
        /\ entriesPerClass' = [entriesPerClass EXCEPT ![parentClassId] = @ + 1]
        /\ origin' = Introduce(selector, NoClass, entry)
        /\ curated' = IF isAdmin THEN curated \cup {selector} ELSE curated
        /\ UNCHANGED <<classes, tombstoned, defaultClassId>>

\* Mutant: the selector is not tombstoned.
removeEntry_NoTombstone(selector) ==
    /\ isEntry(selector)
    /\ entries' = [entries EXCEPT ![selector] = NoEntry]
    /\ entriesPerClass' = [entriesPerClass EXCEPT ![entries[selector].classId] = @ - 1]
    /\ UNCHANGED <<classes, tombstoned, defaultClassId, origin, curated>>

removeEntry(selector) ==
    /\ isEntry(selector)
    /\ entries' = [entries EXCEPT ![selector] = NoEntry]
    /\ entriesPerClass' = [entriesPerClass EXCEPT ![entries[selector].classId] = @ - 1]
    /\ tombstoned' = tombstoned \cup {selector}
    /\ UNCHANGED <<classes, defaultClassId, origin, curated>>

Next ==
    \/ \E x \in ClassInputs : addClass(x[1], x[2])
    \/ \E b \in Bytes4 : removeClass(b)
    \/ \E x \in EntryInputs, isAdmin \in BOOLEAN : instantiate(x[1], x[2], x[3], x[4], isAdmin)
    \/ \E b \in Bytes4 : removeEntry(b)

Spec == Init /\ [][Next]_vars

-----------------------------------------------------------------------------
(* Verification *)

\* _sealSelector and _entryOf return: the seal names a live entry.
resolves(seal) == seal.kind = "selector" /\ isEntry(seal.selector)

\* _matchSignedSelector
matchSignedSelector(sealSel, signedSel, sealClassId) ==
    \/ signedSel = sealSel
    \/ signedSel = sealClassId
    \/ /\ signedSel = ChainDefault
       /\ defaultClassId # ChainDefault
       /\ sealClassId = defaultClassId

\* Mutant: a seal is compared with the first one, not with the one before.
cachedEntry_SinceFirst(fills, i) ==
    LET e[k \in 1..i] == IF k = 1 \/ fills[k].seal # fills[1].seal
                           THEN entries[fills[k].seal.selector]
                           ELSE e[k-1]
    IN  e[i]

\* The entry the loop of verifyBatch has at hand for fill i: looked up again only
\* when the selector differs from the one before it.
cachedEntry(fills, i) ==
    LET e[k \in 1..i] == IF k = 1 \/ fills[k].seal # fills[k-1].seal
                           THEN entries[fills[k].seal.selector]
                           ELSE e[k-1]
    IN  e[i]

\* The selector of fill i, checked only when it differs from the one before.
selectorOK(fills, i, classId) ==
    (i > 1 /\ fills[i].seal # fills[i-1].seal) =>
        resolves(fills[i].seal) /\ entries[fills[i].seal.selector].classId = classId

\* The assessor dispatch of a verifier class; a joint class must have none.
assessorOK(batch, classId, isVerifier) ==
    IF ~isVerifier
      THEN batch.assessorSeal.kind = "none"
      ELSE /\ resolves(batch.assessorSeal)
           /\ LET e == entries[batch.assessorSeal.selector]
              IN  e.classId = classes[classId].requiredAssessorClass /\ e.impl \in batch.accepted

verifyBatch(batch) ==
    LET fills   == batch.fills
        classId == entries[fills[1].seal.selector].classId
        tag     == classes[classId].interfaceTag
    IN  /\ fills # <<>>
        /\ resolves(fills[1].seal)
        /\ tag \in {VerifierTag, JointTag}
        /\ \A i \in DOMAIN fills :
              /\ selectorOK(fills, i, classId)
              /\ matchSignedSelector(fills[i].seal.selector, fills[i].signed, classId)
              /\ cachedEntry(fills, i).impl \in fills[i].accepted
        /\ assessorOK(batch, classId, tag = VerifierTag)

-----------------------------------------------------------------------------
(* Properties *)

\* The registry and the history have their types.
TypeOK ==
    /\ entries \in [Bytes4 -> Entry]
    /\ classes \in [Bytes4 -> ClassMetadata]
    /\ tombstoned \subseteq Bytes4
    /\ defaultClassId \in Bytes4
    /\ entriesPerClass \in [Bytes4 -> Nat]
    /\ origin \in [Bytes4 -> [class: ClassMetadata, entry: Entry]]
    /\ curated \subseteq Bytes4

\* A bytes4 is at most one of class, entry and tombstone, and the sentinel is
\* none: what lets _entryOf and _matchSignedSelector skip their diagnostics
\* when a lookup succeeds (BoundlessRouter.sol:33-37, 520-524, 556-561).
NamespacesDisjoint ==
    /\ ~isClass(ChainDefault) /\ ~isEntry(ChainDefault) /\ ChainDefault \notin tombstoned
    /\ \A b \in Bytes4 : /\ ~(isClass(b) /\ isEntry(b))
                         /\ b \in tombstoned => ~isClass(b) /\ ~isEntry(b)

\* Every entry belongs to a live class, and entriesPerClass counts the entries
\* of every class: removeClass never orphans an entry (BoundlessRouter.sol:338-341).
EntriesBelong ==
    /\ \A b \in Bytes4 : isEntry(b) => isClass(entries[b].classId)
    /\ \A c \in Bytes4 :
          entriesPerClass[c] = Cardinality({b \in Bytes4 : isEntry(b) /\ entries[b].classId = c})

\* At most one class is flagged isDefault; defaultClassId is that class, a verifier
\* class, and the sentinel when there is none (BoundlessRouter.sol:80-82, 111-112).
DefaultIsMirrored ==
    /\ \A c \in Bytes4 : isClass(c) =>
          (classes[c].isDefault <=> c = defaultClassId)
    /\ defaultClassId # ChainDefault => classes[defaultClassId].interfaceTag = VerifierTag

\* A signed request can never be repointed: whatever is registered under a
\* bytes4 is what it was first registered as (BoundlessRouter.sol:33-37).
NeverRepointed ==
    \A b \in Bytes4 :
        (isClass(b) \/ isEntry(b)) => origin[b] = [class |-> classes[b], entry |-> entries[b]]

\* An entry that anybody could add is not under the reserved prefix and can
\* never pass as the assessor of a verifier class, however classes and entries
\* were added and removed (AssessorClassMustBeCurated, BoundlessRouter.sol:162-169).
PermissionlessIsConfined ==
    \A b \in Bytes4 :
        (isEntry(b) /\ b \notin curated) =>
            /\ b \notin Reserved
            /\ \A v \in Bytes4 :
                  isClass(v) => classes[v].requiredAssessorClass # entries[b].classId

\* What verifyBatch should accept: some class has all the fills, each proved by
\* the adapter its own seal names and signed for that seal, that class or the
\* default; a verifier class brings an assessor of the class it requires.
Acceptable(batch) ==
    \E c \in Bytes4 :
        /\ classes[c].interfaceTag \in {VerifierTag, JointTag}
        /\ batch.fills # <<>>
        /\ \A i \in DOMAIN batch.fills :
              LET fill == batch.fills[i]
              IN  /\ resolves(fill.seal)
                  /\ entries[fill.seal.selector].classId = c
                  /\ entries[fill.seal.selector].impl \in fill.accepted
                  /\ \/ fill.signed \in {fill.seal.selector, c}
                     \/ fill.signed = ChainDefault /\ classes[c].isDefault
        /\ IF classes[c].interfaceTag = JointTag
             THEN batch.assessorSeal.kind = "none"
             ELSE \E a \in Bytes4 :
                    /\ batch.assessorSeal = [kind |-> "selector", selector |-> a]
                    /\ entries[a].classId = classes[c].requiredAssessorClass
                    /\ entries[a].impl \in batch.accepted

\* The loop of verifyBatch, with its cached entry and its class taken from the
\* first fill, accepts exactly the batches it should (BoundlessRouter.sol:432-510).
VerifyBatchIsExact == \A batch \in Batches : verifyBatch(batch) <=> Acceptable(batch)

\* The doc of requiredAssessorClass: "Must be a registered class with
\* interfaceTag == IBoundlessAssessor" (BoundlessRouter.sol:84-86).
RequiredAssessorRegistered ==
    \A c \in Bytes4 :
        classes[c].interfaceTag = VerifierTag =>
            classes[classes[c].requiredAssessorClass].interfaceTag = AssessorTag
=============================================================================
