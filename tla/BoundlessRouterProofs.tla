----------------------- MODULE BoundlessRouterProofs -----------------------
(***************************************************************************)
(* The registry of BoundlessRouter keeps its invariants for every set of   *)
(* bytes4 values, adapters and calls.  The inductive invariant adds to the *)
(* checked properties what they rest on: unregistered slots are blank, a   *)
(* value never registered has no history, and what a class may require.    *)
(***************************************************************************)
EXTENDS BoundlessRouter, FiniteSetTheorems, TLAPS

\* The slots of removed or never registered values are zero.
BlankSlots ==
    \A b \in Bytes4 : /\ ~isClass(b) => classes[b] = NoClass
                      /\ ~isEntry(b) => entries[b] = NoEntry

\* What was ever registered is live or tombstoned.
KnownIsKept ==
    \A b \in Bytes4 :
        (~isClass(b) /\ ~isEntry(b) /\ b \notin tombstoned) => origin[b] = NoOrigin

\* The live entries of class c.
Members(c) == {b \in Bytes4 : isEntry(b) /\ entries[b].classId = c}

\* Assessor classes are curated; a verifier class requires an assessor class
\* or one since removed; no other class requires one.
ClassesWellFormed ==
    \A c \in Bytes4 :
        /\ classes[c].interfaceTag = AssessorTag => ~classes[c].permissionlessInstantiate
        /\ classes[c].interfaceTag # VerifierTag => classes[c].requiredAssessorClass = ChainDefault
        /\ LET r == classes[c].requiredAssessorClass
           IN  r = ChainDefault \/ classes[r].interfaceTag = AssessorTag \/ r \in tombstoned

\* Entries added without an admin are outside the reserved prefix and in
\* classes open to everybody.
OpenEntries ==
    \A b \in Bytes4 :
        (isEntry(b) /\ b \notin curated) =>
            b \notin Reserved /\ classes[entries[b].classId].permissionlessInstantiate

IInv ==
    /\ TypeOK /\ NamespacesDisjoint /\ EntriesBelong /\ DefaultIsMirrored /\ NeverRepointed
    /\ BlankSlots /\ KnownIsKept /\ ClassesWellFormed /\ OpenEntries

-----------------------------------------------------------------------------

\* Every class and entry record the calls write has its type.
LEMMA BlankTypes == NoClass \in ClassMetadata /\ NoEntry \in Entry
BY RouterAssumption DEF NoClass, NoEntry, ClassMetadata, Entry, InterfaceTags, NoTag

\* The empty registry satisfies the invariant.
LEMMA InitIInv == Init => IInv
<1> SUFFICES ASSUME Init PROVE IInv OBVIOUS
<1>1. \A b \in Bytes4 : ~isClass(b) /\ ~isEntry(b)
  BY DEF Init, isClass, isEntry, NoClass, NoEntry
<1>2. TypeOK
  BY BlankTypes, RouterAssumption DEF Init, TypeOK, NoOrigin
<1>3. \A c \in Bytes4 : Cardinality({b \in Bytes4 : isEntry(b) /\ entries[b].classId = c}) = 0
  <2> TAKE c \in Bytes4
  <2>1. {b \in Bytes4 : isEntry(b) /\ entries[b].classId = c} = {} BY <1>1
  <2> QED BY <2>1, FS_EmptySet
<1>4. EntriesBelong BY <1>1, <1>3 DEF EntriesBelong, Init
<1>5. NamespacesDisjoint /\ NeverRepointed
  BY <1>1, RouterAssumption DEF NamespacesDisjoint, NeverRepointed, Init
<1>6. DefaultIsMirrored BY <1>1 DEF DefaultIsMirrored, Init
<1>7. BlankSlots /\ KnownIsKept BY <1>1 DEF BlankSlots, KnownIsKept, Init
<1>8. ClassesWellFormed
  BY DEF ClassesWellFormed, Init, NoClass, AssessorTag, VerifierTag, NoTag
<1>9. OpenEntries BY <1>1 DEF OpenEntries
<1> QED BY <1>2, <1>4, <1>5, <1>6, <1>7, <1>8, <1>9 DEF IInv

\* addClass preserves the invariant.
LEMMA AddClassIInv ==
    ASSUME IInv, NEW c \in Bytes4, NEW metadata \in ClassMetadata, addClass(c, metadata)
    PROVE  IInv'
<1> USE DEF isClass, isEntry
<1>0. available(c) /\ wellFormed(metadata) /\ TypeOK
  BY DEF addClass, IInv
<1>1. /\ classes' = [classes EXCEPT ![c] = metadata]
      /\ defaultClassId' = IF metadata.isDefault THEN c ELSE defaultClassId
      /\ entries' = entries /\ tombstoned' = tombstoned /\ entriesPerClass' = entriesPerClass
      /\ curated' = curated
  BY DEF addClass
<1>2. /\ c # ChainDefault /\ c \notin tombstoned
      /\ classes[c] = NoClass /\ entries[c] = NoEntry /\ origin[c] = NoOrigin
  BY <1>0 DEF available, IInv, BlankSlots, KnownIsKept
<1>3. origin' = [origin EXCEPT ![c] = [class |-> metadata, entry |-> NoEntry]]
  BY <1>2 DEF addClass, Introduce
<1>4. metadata.interfaceTag \in {VerifierTag, JointTag, AssessorTag} /\ metadata.interfaceTag # NoTag
  BY <1>0 DEF wellFormed, VerifierTag, JointTag, AssessorTag, NoTag
<1>5. TypeOK'
  BY <1>0, <1>1, <1>3, BlankTypes DEF TypeOK
<1>6. \A b \in Bytes4 : classes'[b] = IF b = c THEN metadata ELSE classes[b]
  BY <1>0, <1>1 DEF TypeOK
<1>7. NamespacesDisjoint'
  BY <1>0, <1>1, <1>2, <1>6, RouterAssumption DEF IInv, NamespacesDisjoint, NoEntry
<1>8. EntriesBelong'
  <2>1. \A b \in Bytes4 : isEntry(b) => isClass(entries[b].classId) /\ entries[b].classId \in Bytes4
    BY <1>0 DEF IInv, EntriesBelong, TypeOK, Entry
  <2>2. \A b \in Bytes4 : isEntry(b) => classes'[entries[b].classId].interfaceTag # NoTag
    BY <1>1, <1>4, <1>6, <2>1
  <2> QED BY <1>1, <2>2 DEF IInv, EntriesBelong
<1>9. DefaultIsMirrored'
  BY <1>0, <1>1, <1>2, <1>4, <1>6, RouterAssumption
  DEF IInv, DefaultIsMirrored, NamespacesDisjoint, wellFormed, TypeOK, ClassMetadata, NoClass, NoTag, VerifierTag
<1>10. NeverRepointed'
  BY <1>0, <1>1, <1>2, <1>3, <1>6 DEF IInv, NeverRepointed, TypeOK
<1>11. BlankSlots' /\ KnownIsKept'
  BY <1>0, <1>1, <1>3, <1>4, <1>6 DEF IInv, BlankSlots, KnownIsKept, TypeOK
<1>12. ClassesWellFormed'
  <2>1. metadata.requiredAssessorClass # c
    BY <1>0, <1>2 DEF wellFormed, NoClass, NoTag, AssessorTag
  <2>2. \A b \in Bytes4 : classes[b].requiredAssessorClass \in Bytes4
    BY <1>0 DEF TypeOK, ClassMetadata
  <2>3. \A b \in Bytes4 : classes[b].requiredAssessorClass = c => c = ChainDefault
    BY <1>2, <2>2 DEF IInv, ClassesWellFormed, NoClass, NoTag, AssessorTag
  <2> SUFFICES ASSUME NEW b \in Bytes4
               PROVE  LET r == classes'[b].requiredAssessorClass
                      IN  /\ classes'[b].interfaceTag = AssessorTag => ~classes'[b].permissionlessInstantiate
                          /\ classes'[b].interfaceTag # VerifierTag => r = ChainDefault
                          /\ r = ChainDefault \/ classes'[r].interfaceTag = AssessorTag \/ r \in tombstoned
    BY <1>1 DEF ClassesWellFormed
  <2>4. CASE b = c
    <3>1. /\ metadata.interfaceTag = AssessorTag => ~metadata.permissionlessInstantiate
          /\ metadata.interfaceTag # VerifierTag => metadata.requiredAssessorClass = ChainDefault
          /\ \/ metadata.requiredAssessorClass = ChainDefault
             \/ classes[metadata.requiredAssessorClass].interfaceTag = AssessorTag
      BY <1>0 DEF wellFormed, AssessorTag, VerifierTag
    <3>2. metadata.requiredAssessorClass \in Bytes4 BY DEF ClassMetadata
    <3> QED BY <1>6, <2>1, <2>4, <3>1, <3>2
  <2>5. CASE b # c
    BY <1>2, <1>6, <2>2, <2>3, <2>5 DEF IInv, ClassesWellFormed
  <2> QED BY <2>4, <2>5
<1>13. OpenEntries'
  <2>1. \A b \in Bytes4 : isEntry(b) => isClass(entries[b].classId) /\ entries[b].classId \in Bytes4
    BY <1>0 DEF IInv, EntriesBelong, TypeOK, Entry
  <2>2. \A b \in Bytes4 : isEntry(b) => entries[b].classId # c
    BY <1>2, <2>1 DEF NoClass
  <2> QED BY <1>1, <1>6, <2>1, <2>2 DEF IInv, OpenEntries
<1> QED
  BY <1>5, <1>7, <1>8, <1>9, <1>10, <1>11, <1>12, <1>13 DEF IInv

\* removeClass preserves the invariant.
LEMMA RemoveClassIInv ==
    ASSUME IInv, NEW c \in Bytes4, removeClass(c)
    PROVE  IInv'
<1> USE DEF isClass, isEntry
<1>0. TypeOK BY DEF IInv
<1>1. /\ classes' = [classes EXCEPT ![c] = NoClass]
      /\ defaultClassId' = IF defaultClassId = c THEN ChainDefault ELSE defaultClassId
      /\ tombstoned' = tombstoned \cup {c}
      /\ entries' = entries /\ entriesPerClass' = entriesPerClass
      /\ origin' = origin /\ curated' = curated
      /\ classes[c].interfaceTag # NoTag /\ entriesPerClass[c] = 0
  BY DEF removeClass
<1>2. c # ChainDefault /\ ~isEntry(c)
  BY <1>1 DEF IInv, NamespacesDisjoint
<1>3. \A b \in Bytes4 : classes'[b] = IF b = c THEN NoClass ELSE classes[b]
  BY <1>0, <1>1 DEF TypeOK
<1>4. \A b \in Bytes4 : isEntry(b) => entries[b].classId # c
  <2> SUFFICES ASSUME NEW b \in Bytes4, isEntry(b), entries[b].classId = c PROVE FALSE OBVIOUS
  <2>1. b \in Members(c) BY DEF Members
  <2>2. IsFiniteSet(Members(c))
    BY FS_Subset, RouterAssumption DEF Members
  <2>3. Cardinality(Members(c)) = 0
    BY <1>1 DEF IInv, EntriesBelong, Members
  <2> QED BY <2>1, <2>2, <2>3, FS_EmptySet
<1>5. TypeOK'
  BY <1>0, <1>1, BlankTypes, RouterAssumption DEF TypeOK
<1>6. NamespacesDisjoint'
  BY <1>1, <1>2, <1>3, RouterAssumption DEF IInv, NamespacesDisjoint, NoClass
<1>7. EntriesBelong'
  <2>1. \A b \in Bytes4 : isEntry(b) => isClass(entries[b].classId) /\ entries[b].classId \in Bytes4
    BY <1>0 DEF IInv, EntriesBelong, TypeOK, Entry
  <2>2. \A b \in Bytes4 : isEntry(b) => classes'[entries[b].classId].interfaceTag # NoTag
    BY <1>1, <1>3, <1>4, <2>1
  <2> QED BY <1>1, <2>2 DEF IInv, EntriesBelong
<1>8. DefaultIsMirrored'
  BY <1>0, <1>1, <1>2, <1>3, RouterAssumption
  DEF IInv, DefaultIsMirrored, NamespacesDisjoint, TypeOK, ClassMetadata, NoClass, NoTag, VerifierTag
<1>9. NeverRepointed'
  BY <1>1, <1>2, <1>3 DEF IInv, NeverRepointed, NoClass
<1>10. BlankSlots' /\ KnownIsKept'
  BY <1>1, <1>3 DEF IInv, BlankSlots, KnownIsKept
<1>11. ClassesWellFormed'
  <2>1. \A b \in Bytes4 : classes[b].requiredAssessorClass \in Bytes4
    BY <1>0 DEF TypeOK, ClassMetadata
  <2> QED BY <1>1, <1>3, <2>1 DEF IInv, ClassesWellFormed, NoClass, NoTag, AssessorTag, VerifierTag
<1>12. OpenEntries'
  <2>1. \A b \in Bytes4 : entries[b].classId \in Bytes4
    BY <1>0 DEF TypeOK, Entry
  <2> QED BY <1>1, <1>3, <1>4, <2>1 DEF IInv, OpenEntries
<1> QED
  BY <1>5, <1>6, <1>7, <1>8, <1>9, <1>10, <1>11, <1>12 DEF IInv

\* instantiate preserves the invariant, called by an admin or by anybody.
LEMMA InstantiateIInv ==
    ASSUME IInv, NEW s \in Bytes4, NEW impl \in Impls \cup {NoImpl}, NEW p \in Bytes4,
           NEW gasLimit \in Nat, NEW isAdmin \in BOOLEAN, instantiate(s, impl, p, gasLimit, isAdmin)
    PROVE  IInv'
<1> DEFINE gas   == IF gasLimit = 0 THEN classes[p].defaultGasLimit ELSE gasLimit
           entry == [impl |-> impl, classId |-> p, gasLimit |-> gas]
<1> USE DEF isClass, isEntry
<1>0. TypeOK BY DEF IInv
<1>1. /\ available(s) /\ authorized(s, p, isAdmin)
      /\ impl # NoImpl /\ classes[p].interfaceTag # NoTag
      /\ entries' = [entries EXCEPT ![s] = entry]
      /\ entriesPerClass' = [entriesPerClass EXCEPT ![p] = @ + 1]
      /\ curated' = IF isAdmin THEN curated \cup {s} ELSE curated
      /\ classes' = classes /\ tombstoned' = tombstoned /\ defaultClassId' = defaultClassId
      /\ origin' = Introduce(s, NoClass, entry)
  BY DEF instantiate
<1>2. /\ s # ChainDefault /\ s \notin tombstoned
      /\ classes[s] = NoClass /\ entries[s] = NoEntry /\ origin[s] = NoOrigin
  BY <1>1 DEF available, IInv, BlankSlots, KnownIsKept
<1>3. entry \in Entry /\ entry.impl = impl /\ entry.classId = p
  BY <1>0 DEF TypeOK, ClassMetadata, Entry
<1> HIDE DEF entry, gas
<1>4. origin' = [origin EXCEPT ![s] = [class |-> NoClass, entry |-> entry]]
  BY <1>1, <1>2 DEF Introduce
<1>5. TypeOK'
  BY <1>0, <1>1, <1>3, <1>4, BlankTypes DEF TypeOK
<1>6. \A b \in Bytes4 : entries'[b] = IF b = s THEN entry ELSE entries[b]
  BY <1>0, <1>1 DEF TypeOK
<1>7. NamespacesDisjoint'
  BY <1>1, <1>2, <1>6, RouterAssumption DEF IInv, NamespacesDisjoint, NoClass
<1>8. EntriesBelong'
  <2>1. \A b \in Bytes4 : entries'[b].impl # NoImpl => classes[entries'[b].classId].interfaceTag # NoTag
    BY <1>1, <1>3, <1>6 DEF IInv, EntriesBelong
  <2>2. \A c \in Bytes4 : Members(c)' = IF c = p THEN Members(c) \cup {s} ELSE Members(c)
    BY <1>1, <1>2, <1>3, <1>6 DEF Members, NoEntry
  <2>3. \A c \in Bytes4 : IsFiniteSet(Members(c)) /\ s \notin Members(c)
    BY <1>2, FS_Subset, RouterAssumption DEF Members, NoEntry
  <2>4. \A c \in Bytes4 : entriesPerClass[c] = Cardinality(Members(c))
    BY DEF IInv, EntriesBelong, Members
  <2>5. Cardinality(Members(p) \cup {s}) = Cardinality(Members(p)) + 1
    BY <2>3, FS_AddElement
  <2>6. \A c \in Bytes4 : entriesPerClass'[c] = Cardinality(Members(c)')
    BY <1>0, <1>1, <2>2, <2>4, <2>5 DEF TypeOK
  <2> QED BY <1>1, <2>1, <2>6 DEF EntriesBelong, Members
<1>9. DefaultIsMirrored'
  BY <1>1 DEF IInv, DefaultIsMirrored
<1>10. NeverRepointed'
  BY <1>0, <1>1, <1>2, <1>4, <1>6 DEF IInv, NeverRepointed, TypeOK
<1>11. BlankSlots' /\ KnownIsKept'
  BY <1>0, <1>1, <1>3, <1>4, <1>6 DEF IInv, BlankSlots, KnownIsKept, TypeOK
<1>12. ClassesWellFormed'
  BY <1>1 DEF IInv, ClassesWellFormed
<1>13. OpenEntries'
  BY <1>1, <1>3, <1>6 DEF IInv, OpenEntries, authorized
<1> QED
  BY <1>5, <1>7, <1>8, <1>9, <1>10, <1>11, <1>12, <1>13 DEF IInv

\* removeEntry preserves the invariant.
LEMMA RemoveEntryIInv ==
    ASSUME IInv, NEW s \in Bytes4, removeEntry(s)
    PROVE  IInv'
<1> DEFINE p == entries[s].classId
<1> USE DEF isClass, isEntry
<1>0. TypeOK BY DEF IInv
<1>1. /\ entries[s].impl # NoImpl
      /\ entries' = [entries EXCEPT ![s] = NoEntry]
      /\ entriesPerClass' = [entriesPerClass EXCEPT ![p] = @ - 1]
      /\ tombstoned' = tombstoned \cup {s}
      /\ classes' = classes /\ defaultClassId' = defaultClassId
      /\ origin' = origin /\ curated' = curated
  BY DEF removeEntry
<1>2. s # ChainDefault /\ ~isClass(s)
  BY <1>1 DEF IInv, NamespacesDisjoint
<1>3. \A b \in Bytes4 : entries'[b] = IF b = s THEN NoEntry ELSE entries[b]
  BY <1>0, <1>1 DEF TypeOK
<1>4. p \in Bytes4 BY <1>0 DEF TypeOK, Entry
<1>5. \A c \in Bytes4 : entriesPerClass[c] = Cardinality(Members(c))
  BY DEF IInv, EntriesBelong, Members
<1>6. \A c \in Bytes4 : IsFiniteSet(Members(c))
  BY FS_Subset, RouterAssumption DEF Members
<1>7. s \in Members(p) BY <1>1 DEF Members
<1>8. /\ Cardinality(Members(p) \ {s}) = Cardinality(Members(p)) - 1
      /\ Cardinality(Members(p) \ {s}) \in Nat
  BY <1>4, <1>6, <1>7, FS_RemoveElement, FS_CardinalityType
<1>9. TypeOK'
  <2>1. entriesPerClass[p] - 1 \in Nat BY <1>4, <1>5, <1>8
  <2>2. entriesPerClass' \in [Bytes4 -> Nat] BY <1>0, <1>1, <2>1 DEF TypeOK
  <2> QED BY <1>0, <1>1, <2>2, BlankTypes DEF TypeOK
<1>10. NamespacesDisjoint'
  BY <1>1, <1>2, <1>3, RouterAssumption DEF IInv, NamespacesDisjoint, NoEntry
<1>11. EntriesBelong'
  <2>1. \A b \in Bytes4 : entries'[b].impl # NoImpl => classes[entries'[b].classId].interfaceTag # NoTag
    BY <1>1, <1>3 DEF IInv, EntriesBelong, NoEntry
  <2>2. \A c \in Bytes4 : Members(c)' = IF c = p THEN Members(c) \ {s} ELSE Members(c)
    BY <1>1, <1>3 DEF Members, NoEntry
  <2>3. \A c \in Bytes4 : entriesPerClass'[c] = Cardinality(Members(c)')
    BY <1>0, <1>1, <1>4, <1>5, <1>8, <2>2 DEF TypeOK
  <2> QED BY <1>1, <2>1, <2>3 DEF EntriesBelong, Members
<1>12. DefaultIsMirrored'
  BY <1>1 DEF IInv, DefaultIsMirrored
<1>13. NeverRepointed'
  BY <1>1, <1>2, <1>3 DEF IInv, NeverRepointed, NoEntry
<1>14. BlankSlots' /\ KnownIsKept'
  BY <1>1, <1>3 DEF IInv, BlankSlots, KnownIsKept
<1>15. ClassesWellFormed'
  BY <1>1 DEF IInv, ClassesWellFormed
<1>16. OpenEntries'
  BY <1>1, <1>3 DEF IInv, OpenEntries, NoEntry
<1> QED
  BY <1>9, <1>10, <1>11, <1>12, <1>13, <1>14, <1>15, <1>16 DEF IInv

\* Only entries in classes open to everybody come without an admin, and no class
\* requires such a class as its assessor.
LEMMA ConfinedFromIInv == IInv => PermissionlessIsConfined
<1> SUFFICES ASSUME IInv, NEW b \in Bytes4, isEntry(b), b \notin curated
             PROVE  /\ b \notin Reserved
                    /\ \A v \in Bytes4 :
                          isClass(v) => classes[v].requiredAssessorClass # entries[b].classId
  BY DEF PermissionlessIsConfined
<1>1. b \notin Reserved /\ classes[entries[b].classId].permissionlessInstantiate
  BY DEF IInv, OpenEntries
<1>2. entries[b].classId \in Bytes4 /\ isClass(entries[b].classId)
  BY DEF IInv, TypeOK, Entry, EntriesBelong
<1>3. entries[b].classId # ChainDefault /\ entries[b].classId \notin tombstoned
  BY <1>2 DEF IInv, NamespacesDisjoint
<1>4. classes[entries[b].classId].interfaceTag # AssessorTag
  BY <1>1, <1>2 DEF IInv, ClassesWellFormed
<1> QED BY <1>1, <1>3, <1>4 DEF IInv, ClassesWellFormed

-----------------------------------------------------------------------------

\* The invariant holds in every reachable registry, whatever classes and entries
\* are added and removed (BoundlessRouter.sol:288-400).
THEOREM RouterInvariant == Spec => []IInv
<1>1. ASSUME IInv, [Next]_vars PROVE IInv'
  <2>1. CASE UNCHANGED vars
    BY <1>1, <2>1 DEF vars, IInv, TypeOK, NamespacesDisjoint, EntriesBelong, DefaultIsMirrored,
       NeverRepointed, BlankSlots, KnownIsKept, ClassesWellFormed, OpenEntries, isClass, isEntry
  <2>2. ASSUME NEW x \in ClassInputs, addClass(x[1], x[2]) PROVE IInv'
    <3>1. x[1] \in Bytes4 /\ x[2] \in ClassMetadata BY RouterAssumption
    <3> QED BY <1>1, <2>2, <3>1, AddClassIInv
  <2>3. ASSUME NEW b \in Bytes4, removeClass(b) PROVE IInv'
    BY <1>1, <2>3, RemoveClassIInv
  <2>4. ASSUME NEW x \in EntryInputs, NEW isAdmin \in BOOLEAN,
               instantiate(x[1], x[2], x[3], x[4], isAdmin)
        PROVE  IInv'
    <3>1. x[1] \in Bytes4 /\ x[2] \in Impls \cup {NoImpl} /\ x[3] \in Bytes4 /\ x[4] \in Nat
      BY RouterAssumption
    <3> QED BY <1>1, <2>4, <3>1, InstantiateIInv
  <2>5. ASSUME NEW b \in Bytes4, removeEntry(b) PROVE IInv'
    BY <1>1, <2>5, RemoveEntryIInv
  <2> QED BY <1>1, <2>1, <2>2, <2>3, <2>4, <2>5 DEF Next
<1> QED BY InitIInv, <1>1, PTL DEF Spec

\* The registry always has its type; in particular entriesPerClass never goes
\* below zero in removeEntry.
THEOREM RouterTypeCorrect == Spec => []TypeOK
<1>1. IInv => TypeOK BY DEF IInv
<1> QED BY RouterInvariant, <1>1, PTL

\* Class ids, selectors and tombstones never overlap (BoundlessRouter.sol:33-37).
THEOREM RouterNamespaces == Spec => []NamespacesDisjoint
<1>1. IInv => NamespacesDisjoint BY DEF IInv
<1> QED BY RouterInvariant, <1>1, PTL

\* removeClass never orphans an entry, because the counter of each class is the
\* number of its live entries (BoundlessRouter.sol:338-341).
THEOREM RouterEntriesBelong == Spec => []EntriesBelong
<1>1. IInv => EntriesBelong BY DEF IInv
<1> QED BY RouterInvariant, <1>1, PTL

\* defaultClassId mirrors the one class flagged isDefault (BoundlessRouter.sol:110-112).
THEOREM RouterDefault == Spec => []DefaultIsMirrored
<1>1. IInv => DefaultIsMirrored BY DEF IInv
<1> QED BY RouterInvariant, <1>1, PTL

\* No later registration repoints a bytes4 that a request was signed with
\* (BoundlessRouter.sol:33-37).
THEOREM RouterNeverRepoints == Spec => []NeverRepointed
<1>1. IInv => NeverRepointed BY DEF IInv
<1> QED BY RouterInvariant, <1>1, PTL

\* What anybody may register never assesses a verifier class and never takes a
\* reserved selector (BoundlessRouter.sol:318-322, 378-382).
THEOREM RouterConfines == Spec => []PermissionlessIsConfined
BY RouterInvariant, ConfinedFromIInv, PTL
=============================================================================
