------------------------- MODULE MCBoundlessRouter -------------------------
(***************************************************************************)
(* BoundlessRouter on small instances.                                     *)
(***************************************************************************)
EXTENDS BoundlessRouter

CONSTANTS b0, b1, b2, b3, b4, b5, b6, i1, i2

Class(tag, open, default, assessor) ==
    [interfaceTag |-> tag, permissionlessInstantiate |-> open, isDefault |-> default,
     requiredAssessorClass |-> assessor, defaultGasLimit |-> 1]

\* Registry: any of four values, one of them reserved, in any role.
RegistryBytes4 == {b0, b1, b2, b3, b4}
RegistryReserved == {b0, b1}
RegistryImpls == {i1, i2}
RegistryImplements == [i \in {i1, i2} |-> IF i = i1 THEN {VerifierTag, JointTag} ELSE {JointTag, AssessorTag}]
Metadata(assessor) ==
    {Class(VerifierTag, TRUE, TRUE, assessor), Class(VerifierTag, FALSE, FALSE, assessor)}
OtherMetadata ==
    {Class(AssessorTag, FALSE, FALSE, b0), Class(AssessorTag, TRUE, FALSE, b0),
     Class(JointTag, TRUE, FALSE, b0), Class(OtherTag, FALSE, FALSE, b0)}
RegistryClasses ==
    (RegistryBytes4 \X OtherMetadata)
      \cup UNION {{b} \X Metadata(a) : b \in RegistryBytes4, a \in {b2, b3}}
RegistryEntries == RegistryBytes4 \X {i1, i2, NoImpl} \X RegistryBytes4 \X {0}
NoBatches == {}

\* Dispatch: each value has one role.  b1 is an assessor class with entry b2,
\* b3 a verifier class, the default or not, with entry b4; b5, of another
\* adapter, is an entry of b3 or of the joint class b6.
DispatchBytes4 == {b0, b1, b2, b3, b4, b5, b6}
DispatchImpls == {i1, i2}
DispatchImplements == [i \in {i1, i2} |-> {VerifierTag, JointTag, AssessorTag}]
DispatchClasses ==
    {<<b1, Class(AssessorTag, FALSE, FALSE, b0)>>, <<b3, Class(VerifierTag, FALSE, TRUE, b1)>>,
     <<b3, Class(VerifierTag, FALSE, FALSE, b1)>>, <<b6, Class(JointTag, TRUE, FALSE, b0)>>}
DispatchEntries ==
    {<<b2, i1, b1, 0>>, <<b4, i1, b3, 0>>, <<b5, i2, b3, 2>>, <<b5, i2, b6, 0>>}
Sel(b) == [kind |-> "selector", selector |-> b]
DispatchSeals == {[kind |-> "none"], [kind |-> "short"], Sel(b2), Sel(b3), Sel(b4), Sel(b5)}
DispatchFills ==
    [seal: DispatchSeals \ {[kind |-> "none"]}, signed: {b0, b3, b4, b5}, accepted: {{i1}, {i1, i2}}]
\* Fills that leave a selector and come back to it, or stay with the second.
SwitchingFills == [seal: {Sel(b4), Sel(b5)}, signed: {b3, b6}, accepted: {{i1}, {i2}}]
DispatchBatches ==
    [fills: {<<>>} \cup [1..1 -> DispatchFills] \cup [1..2 -> DispatchFills]
              \cup [1..3 -> SwitchingFills],
     assessorSeal: {[kind |-> "none"], [kind |-> "short"], Sel(b2), Sel(b4)}, accepted: {{i1}, {i2}}]
=============================================================================
