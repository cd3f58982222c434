------------------------ MODULE ArticleSummaryProofs ------------------------
(* Theorems about ArticleSummary and their proofs. *)
EXTENDS ArticleSummary, FiniteSetTheorems, TLAPS

-----------------------------------------------------------------------------
(* The highest of a set of version numbers *)

LEMMA Bounds ==
  /\ Attempts \in Nat \ {0} /\ MaxRevision \in Nat \ {0} /\ MaxVersions \in Nat \ {0, 1}
  /\ MaxEvents \in Nat
BY SummaryAssumption DEF SummaryAssumption

\* The sets {v \in S : v >= u} of a set S of numbers are well-founded under strict
\* inclusion, and a minimal one is that of the highest number.
LEMMA HasHighest ==
  ASSUME NEW N \in Nat, NEW S, S \subseteq 1..N, S # {}
  PROVE  \E v \in S : \A u \in S : u <= v
<1> DEFINE Above(u) == {v \in S : v >= u}
<1> DEFINE Family == {Above(u) : u \in S}
<1>1. IsFiniteSet(S)
  <2>1. IsFiniteSet(1..N)
    BY FS_Interval
  <2>2. QED BY <2>1, FS_Subset
<1>2. Family \subseteq FiniteSubsetsOf(S) /\ Family # {}
  <2>1. ASSUME NEW u \in S PROVE Above(u) \in FiniteSubsetsOf(S)
    <3>1. Above(u) \in SUBSET S
      OBVIOUS
    <3>2. QED BY <1>1, <3>1, FS_Subset DEF FiniteSubsetsOf
  <2>2. QED BY <2>1
<1>3. PICK A \in Family : \A B \in Family : ~(<<B, A>> \in StrictSubsetOrdering(S))
  <2> HIDE DEF Family
  <2>1. IsWellFoundedOn(StrictSubsetOrdering(S), FiniteSubsetsOf(S))
    BY FS_StrictSubsetOrderingWellFounded
  <2>2. QED BY <1>2, <2>1, WFMin
<1>4. PICK v \in S : A = Above(v)
  OBVIOUS
<1>5. ASSUME NEW u \in S, ~(u <= v) PROVE FALSE
  <2>0. u \in Nat /\ v \in Nat /\ u > v /\ \A x \in S : x \in Nat
    BY <1>5
  <2>1. v \notin Above(u) /\ v \in Above(v)
    BY <2>0
  <2>5. \A x \in S : x >= u => x >= v
    BY <2>0
  <2>6. Above(u) \subseteq Above(v)
    BY <2>5
  <2>2. <<Above(u), Above(v)>> \in (SUBSET S) \X (SUBSET S)
    OBVIOUS
  <2>3. <<Above(u), Above(v)>> \in StrictSubsetOrdering(S)
    BY <2>1, <2>2, <2>6 DEF StrictSubsetOrdering
  <2>4. QED BY <1>3, <1>4, <2>3
<1>6. QED BY <1>5

LEMMA HighestIs ==
  ASSUME NEW S, S \subseteq Versions, S # {}
  PROVE  Highest(S) \in S /\ \A u \in S : u <= Highest(S)
<1>1. \E v \in S : \A u \in S : u <= v
  BY Bounds, HasHighest DEF Versions
<1>2. QED BY <1>1 DEF Highest

-----------------------------------------------------------------------------
(* The version rows *)

\* The article was published once, with the first row; a draft is a later row,
\* and there is one at most.
History ==
  /\ version[1].kind = "published" /\ version[1].born = 0
  /\ \A v \in Versions : version[v].kind # "absent" => version[v].body \in Bodies
  /\ \A v \in Versions : version[v].kind = "draft" => version[v].born # 0
  /\ \A u, v \in Drafts : u = v

\* What requests and workers have read.
Reading ==
  /\ \A e \in Savers : edit[e].pc \in {"save", "autosave"} => edit[e].body \in Bodies
  /\ \A e \in Savers : edit[e].pc = "enqueue" => edit[e].revision \in Revisions
  /\ \A e \in Discarders : discard[e].pc # "idle" =>
       discard[e].body \in Bodies /\ discard[e].number \in Versions /\ discard[e].born # 0
  /\ \A w \in Workers : hand[w].pc # "idle" => hand[w].revision \in Revisions

Formed == TypeOK /\ History /\ Reading

LEMMA InVersions == 1 \in Versions /\ Versions \subseteq Nat /\ \A v \in Nat \ {0} : v \in Versions <=> v <= MaxVersions
BY Bounds DEF Versions

LEMMA LastIs ==
  ASSUME History
  PROVE  LastPublished \in Published /\ \A v \in Published : v <= LastPublished
<1>1. 1 \in Published /\ Published \subseteq Versions
  BY InVersions DEF History, Published
<1>2. QED BY <1>1, HighestIs DEF LastPublished

LEMMA NextIs ==
  ASSUME TypeOK, History, NextNumber \in Versions
  PROVE  /\ version[NextNumber].kind = "absent"
         /\ \A v \in Drafts \union Published : v < NextNumber
<1> DEFINE taken == Drafts \union Published
<1>1. 1 \in taken /\ taken \subseteq Versions
  BY InVersions DEF History, Published, Drafts
<1>2. Highest(taken) \in taken /\ \A v \in taken : v <= Highest(taken)
  BY <1>1, HighestIs
<1>3. NextNumber = Highest(taken) + 1 /\ \A v \in taken : v \in Nat
  BY <1>1, InVersions DEF NextNumber
<1>4. \A v \in taken : v < NextNumber
  <2> HIDE DEF taken
  <2>1. QED BY <1>2, <1>3
<1>5. NextNumber \notin taken
  <2> HIDE DEF taken
  <2>1. QED BY <1>3, <1>4
<1>6. version[NextNumber].kind \in {"absent", "draft", "published"}
  BY DEF TypeOK, Version
<1>7. QED BY <1>4, <1>5, <1>6 DEF Drafts, Published

\* Where an editor's write goes: to the draft, or to a new row above all.
LEMMA EditIs ==
  ASSUME TypeOK, History, EditNumber \in Versions
  PROVE  /\ EditNumber # 1 /\ version[EditNumber].kind # "published"
         /\ HasDraft => EditNumber \in Drafts
         /\ ~HasDraft => /\ version[EditNumber].kind = "absent"
                         /\ \A v \in Published : v < EditNumber
<1>1. CASE HasDraft
  <2>1. EditNumber \in Drafts
    BY <1>1, HighestIs DEF EditNumber, HasDraft, Drafts
  <2>2. QED BY <1>1, <2>1 DEF Drafts, History
<1>2. CASE ~HasDraft
  <2>1. EditNumber = NextNumber
    BY <1>2 DEF EditNumber
  <2>2. version[EditNumber].kind = "absent" /\ \A v \in Published : v < EditNumber
    BY <2>1, NextIs
  <2>3. QED BY <1>2, <2>2 DEF History
<1>3. QED BY <1>1, <1>2

\* Publishing a row that is not published.
LEMMA PublishIs ==
  ASSUME TypeOK, History, row.revision < MaxRevision, NEW v \in Versions, NEW b \in Bodies,
         v # 1, version[v].kind # "published", Publish(v, b), Drafts \subseteq {v} \/ v \notin Drafts
  PROVE  /\ version' \in [Versions -> Version] /\ History'
         /\ Published' = Published \union {v} /\ version'[v].body = b
         /\ \A u \in Versions : u # v => version'[u] = version[u]
         /\ Drafts' = Drafts \ {v}
<1>0. version \in [Versions -> Version] /\ row.revision + 1 \in 1..MaxRevision
  BY Bounds DEF TypeOK, Article, Revisions
<1>1. PICK n \in 0..MaxRevision : version' = [version EXCEPT ![v] = [kind |-> "published", body |-> b, born |-> n]]
  <2>1. version[v].born \in 0..MaxRevision /\ row.revision + 1 \in 0..MaxRevision
    BY <1>0, Bounds DEF Version
  <2>2. CASE version[v].kind = "absent"
    <3>1. version' = [version EXCEPT ![v] = [kind |-> "published", body |-> b, born |-> row.revision + 1]]
      BY <1>0, <2>2 DEF Publish
    <3>2. QED BY <2>1, <3>1
  <2>3. CASE version[v].kind # "absent"
    <3>1. version' = [version EXCEPT ![v] = [kind |-> "published", body |-> b, born |-> version[v].born]]
      BY <1>0, <2>3 DEF Publish
    <3>2. QED BY <2>1, <3>1
  <2>4. QED BY <2>2, <2>3
<1>2. version'[v] = [kind |-> "published", body |-> b, born |-> n]
      /\ \A u \in Versions : u # v => version'[u] = version[u]
  BY <1>0, <1>1
<1>3. [kind |-> "published", body |-> b, born |-> n] \in Version
  BY DEF Version
<1>4. version' \in [Versions -> Version]
  BY <1>0, <1>1, <1>3
<1>5. Published' = Published \union {v} /\ Drafts' = Drafts \ {v}
  BY <1>2 DEF Published, Drafts
<1>6. History'
  BY <1>2, <1>5, InVersions DEF History
<1>7. QED BY <1>2, <1>4, <1>5, <1>6

\* Writing the draft.
LEMMA DraftIs ==
  ASSUME TypeOK, History, row.revision < MaxRevision, NEW b \in Bodies, EditNumber \in Versions,
         version' = [version EXCEPT ![EditNumber] =
                       [kind |-> "draft", body |-> b,
                        born |-> IF @.kind = "draft" THEN @.born ELSE row.revision + 1]]
  PROVE  /\ version' \in [Versions -> Version] /\ History' /\ HasDraft'
         /\ Published' = Published /\ \A u \in Published : version'[u] = version[u]
<1>0. version \in [Versions -> Version] /\ row.revision + 1 \in 1..MaxRevision
  BY Bounds DEF TypeOK, Article, Revisions
<1>1. EditNumber # 1 /\ version[EditNumber].kind # "published" /\ (HasDraft => EditNumber \in Drafts)
  BY EditIs
<1>2. PICK v \in Versions : v = EditNumber
  OBVIOUS
<1>3. PICK n \in 1..MaxRevision : version' = [version EXCEPT ![v] = [kind |-> "draft", body |-> b, born |-> n]]
  <2>1. version[v].kind = "draft" => version[v].born \in 1..MaxRevision
    BY <1>0, Bounds DEF History, Version
  <2>2. QED BY <1>0, <1>2, <2>1
<1>4. version'[v] = [kind |-> "draft", body |-> b, born |-> n]
      /\ \A u \in Versions : u # v => version'[u] = version[u]
  BY <1>0, <1>3
<1>5. n # 0 /\ [kind |-> "draft", body |-> b, born |-> n] \in Version
  BY Bounds DEF Version
<1>6. version' \in [Versions -> Version]
  BY <1>0, <1>3, <1>5
<1>7. Published' = Published /\ Drafts' = Drafts \union {v}
  BY <1>1, <1>2, <1>4 DEF Published, Drafts
<1>8. Drafts \subseteq {v}
  BY <1>1, <1>2 DEF History, HasDraft
<1>9. History' /\ HasDraft'
  BY <1>1, <1>2, <1>4, <1>5, <1>7, <1>8, InVersions DEF History, HasDraft
<1>10. QED BY <1>1, <1>2, <1>4, <1>6, <1>7, <1>9 DEF Published

\* Deleting the row that was a draft.
LEMMA WithoutIs ==
  ASSUME TypeOK, History, NEW n \in Versions, NEW born, born # 0, version' = Without(n, born)
  PROVE  /\ version' \in [Versions -> Version] /\ History'
         /\ Drafts' \subseteq Drafts /\ Published' \subseteq Published
         /\ version[n].kind # "published" \/ version[n].born # born =>
              Published' = Published /\ \A u \in Published : version'[u] = version[u]
<1>0. version \in [Versions -> Version]
  BY DEF TypeOK
<1>1. CASE version' = version
  BY <1>0, <1>1 DEF History, Drafts, Published
<1>2. CASE version[n].born = born /\ version' = [version EXCEPT ![n] = NoVersion]
  <2>1. n # 1
    BY <1>2 DEF History
  <2>2. version'[n] = NoVersion /\ \A u \in Versions : u # n => version'[u] = version[u]
    BY <1>0, <1>2
  <2>3. NoVersion \in Version /\ NoVersion.kind = "absent"
    BY Bounds DEF NoVersion, Version
  <2>4. version' \in [Versions -> Version]
    BY <1>0, <1>2, <2>3
  <2>5. Drafts' = Drafts \ {n} /\ Published' = Published \ {n}
    BY <2>2, <2>3 DEF Drafts, Published
  <2>6. History'
    BY <2>1, <2>2, <2>3, <2>5, InVersions DEF History
  <2>7. version[n].kind # "published" => Published' = Published /\ \A u \in Published : version'[u] = version[u]
    BY <2>2, <2>5 DEF Published
  <2>8. QED BY <1>2, <2>4, <2>5, <2>6, <2>7
<1>3. QED BY <1>1, <1>2 DEF Without

-----------------------------------------------------------------------------
(* What requests and workers have read, and the types *)

LEMMA AtMostOne ==
  ASSUME NEW S, \A u, v \in S : u = v
  PROVE  Cardinality(S) <= 1
<1>1. CASE S = {}
  BY <1>1, FS_EmptySet
<1>2. CASE S # {}
  <2>1. PICK v : S = {v}
    BY <1>2
  <2>2. QED BY <2>1, FS_Singleton
<1>3. QED BY <1>1, <1>2

LEMMA Names ==
  /\ NoBody \notin Bodies /\ 0 \notin Versions /\ 0 \notin Revisions
  /\ Revisions \subseteq 0..MaxRevision /\ Versions \subseteq 0..MaxVersions
BY Bounds, SummaryAssumption DEF SummaryAssumption, Versions, Revisions

LEMMA InitFormed == Init => Formed
<1> SUFFICES ASSUME Init PROVE Formed
  OBVIOUS
<1>1. PICK b \in Bodies, d \in Bodies :
        /\ row = [revision |-> 1, body |-> d, pending |-> FALSE, of |-> NoBody, archived |-> FALSE]
        /\ version = [v \in Versions |->
                        IF v = 1 THEN [kind |-> "published", body |-> b, born |-> 0]
                        ELSE IF v = 2 /\ d # b THEN [kind |-> "draft", body |-> d, born |-> 1]
                        ELSE NoVersion]
        /\ ever = {b}
  BY DEF Init
<1>2. /\ gate \in BOOLEAN /\ astray = FALSE /\ events = 0
      /\ edit = [e \in Savers |-> IdleEdit]
      /\ discard = [e \in Discarders |-> IdleDiscard]
      /\ job = [r \in Revisions |-> NoJob]
      /\ hand = [w \in Workers |-> IdleHand]
  BY DEF Init
<1>3. row \in Article
  BY <1>1, Bounds DEF Article, Revisions
<1>4. version \in [Versions -> Version]
  <2>1. [kind |-> "published", body |-> b, born |-> 0] \in Version /\ NoVersion \in Version
        /\ [kind |-> "draft", body |-> d, born |-> 1] \in Version
    BY Bounds DEF Version, NoVersion
  <2>2. QED BY <1>1, <2>1
<1>5. History
  <2>1. \A v \in Versions : version[v] = IF v = 1 THEN [kind |-> "published", body |-> b, born |-> 0]
                                         ELSE IF v = 2 /\ d # b THEN [kind |-> "draft", body |-> d, born |-> 1]
                                         ELSE [kind |-> "absent", body |-> NoBody, born |-> 0]
    BY <1>1 DEF NoVersion
  <2>2. Drafts \subseteq {2}
    BY <2>1 DEF Drafts
  <2>3. QED BY <2>1, <2>2, InVersions DEF History
<1>6. edit \in [Savers -> Edit] /\ discard \in [Discarders -> Discard]
  BY <1>2, Bounds DEF Edit, Discard, IdleEdit, IdleDiscard
<1>7. job \in [Revisions -> JobRec] /\ hand \in [Workers -> Hand]
  BY <1>2, Bounds DEF JobRec, Hand, NoJob, IdleHand
<1>8. Reading
  BY <1>2 DEF Reading, IdleEdit, IdleDiscard, IdleHand
<1>9. Cardinality(Drafts) <= 1
  BY <1>5, AtMostOne DEF History
<1>10. TypeOK
  <2>1. ever \subseteq Bodies
    BY <1>1
  <2>2. events \in 0..MaxEvents
    BY <1>2, Bounds
  <2>3. gate \in BOOLEAN /\ astray \in BOOLEAN
    BY <1>2, Zenon
  <2>4. QED BY <1>3, <1>4, <1>6, <1>7, <1>9, <2>1, <2>2, <2>3 DEF TypeOK
<1>11. QED BY <1>5, <1>8, <1>10 DEF Formed

\* Which steps write the version rows, and how.
LEMMA Edited ==
  ASSUME Formed, NEW b \in Bodies, EditNumber \in Versions, row.revision < MaxRevision, Publish(EditNumber, b)
  PROVE  \E v \in Versions :
           /\ v = EditNumber /\ version[v].kind # "published" /\ v # 1
           /\ Publish(v, b) /\ version' \in [Versions -> Version] /\ History'
           /\ Published' = Published \union {v} /\ version'[v].body = b
           /\ \A u \in Versions : u # v => version'[u] = version[u]
           /\ Drafts' = {}
<1>1. PICK v \in Versions : v = EditNumber
  OBVIOUS
<1>2. /\ v # 1 /\ version[v].kind # "published"
      /\ HasDraft => v \in Drafts
  BY <1>1, EditIs DEF Formed
<1>3. Drafts \subseteq {v}
  BY <1>2 DEF Formed, History, HasDraft
<1>4. Publish(v, b)
  BY <1>1
<1>5. /\ version' \in [Versions -> Version] /\ History'
      /\ Published' = Published \union {v} /\ version'[v].body = b
      /\ \A u \in Versions : u # v => version'[u] = version[u]
      /\ Drafts' = Drafts \ {v}
  BY <1>2, <1>3, <1>4, PublishIs DEF Formed
<1>6. QED BY <1>1, <1>2, <1>3, <1>4, <1>5

LEMMA Added ==
  ASSUME Formed, NEW b \in Bodies, NextNumber \in Versions, row.revision < MaxRevision, Publish(NextNumber, b)
  PROVE  \E v \in Versions :
           /\ version[v].kind = "absent" /\ \A u \in Published : u < v
           /\ version' \in [Versions -> Version] /\ History'
           /\ Published' = Published \union {v} /\ version'[v].body = b
           /\ \A u \in Versions : u # v => version'[u] = version[u]
           /\ Drafts' = Drafts
<1>1. PICK v \in Versions : v = NextNumber
  OBVIOUS
<1>2. version[v].kind = "absent" /\ \A u \in Published : u < v
  BY <1>1, NextIs DEF Formed
<1>3. v # 1 /\ v \notin Drafts /\ version[v].kind # "published"
  BY <1>2 DEF Formed, History, Drafts
<1>4. Publish(v, b)
  BY <1>1
<1>5. /\ version' \in [Versions -> Version] /\ History'
      /\ Published' = Published \union {v} /\ version'[v].body = b
      /\ \A u \in Versions : u # v => version'[u] = version[u]
      /\ Drafts' = Drafts \ {v}
  BY <1>3, <1>4, PublishIs DEF Formed
<1>6. QED BY <1>2, <1>3, <1>5

\* A step that leaves the version rows alone, or replaces them soundly.
LEMMA FormedBy ==
  ASSUME Formed,
         row' \in Article, version' \in [Versions -> Version], gate' \in BOOLEAN,
         edit' \in [Savers -> Edit], discard' \in [Discarders -> Discard],
         job' \in [Revisions -> JobRec], hand' \in [Workers -> Hand],
         ever' \subseteq Bodies, astray' \in BOOLEAN, events' \in 0..MaxEvents,
         History', Reading'
  PROVE  Formed'
<1>1. Cardinality(Drafts') <= 1
  <2>1. \A u, v \in Drafts' : u = v
    BY DEF History
  <2>2. QED BY <2>1, AtMostOne
<1>2. TypeOK'
  BY <1>1 DEF TypeOK
<1>3. QED BY <1>2 DEF Formed

LEMMA KeptHistory == ASSUME History, version' = version PROVE History'
BY DEF History, Drafts

LEMMA EditorFormed ==
  ASSUME Formed, NEW e \in Savers,
         (\E op \in {"save", "autosave"}, b \in Bodies : Open(e, op, b)) \/ CommitSave(e) \/ Enqueue(e) \/ CommitAutosave(e)
  PROVE  Formed'
<1>0. /\ row \in Article /\ version \in [Versions -> Version] /\ gate \in BOOLEAN
      /\ edit \in [Savers -> Edit] /\ discard \in [Discarders -> Discard]
      /\ job \in [Revisions -> JobRec] /\ hand \in [Workers -> Hand]
      /\ ever \subseteq Bodies /\ astray \in BOOLEAN /\ events \in 0..MaxEvents
      /\ History /\ Reading /\ TypeOK
  BY DEF Formed, TypeOK
<1>1. ASSUME NEW op \in {"save", "autosave"}, NEW b \in Bodies, Open(e, op, b) PROVE Formed'
  <2>1. PICK x \in Edit : edit' = [edit EXCEPT ![e] = x] /\ x.pc = op /\ x.body = b
    <3> DEFINE x == [IdleEdit EXCEPT !.pc = op, !.body = b, !.read = row.body, !.gate = op = "save" /\ gate]
    <3>1. IdleEdit \in Edit
      BY Bounds DEF IdleEdit, Edit
    <3>2. x \in Edit
      BY <1>0, <3>1 DEF Edit, Article
    <3>3. x.pc = op /\ x.body = b
      BY <3>1 DEF Edit
    <3>4. edit' = [edit EXCEPT ![e] = x]
      BY <1>1 DEF Open
    <3>5. QED
      <4> HIDE DEF x
      <4>1. QED BY <3>2, <3>3, <3>4
  <2>2. edit' \in [Savers -> Edit] /\ \A f \in Savers : edit'[f] = IF f = e THEN x ELSE edit[f]
    BY <1>0, <2>1
  <2>3. UNCHANGED <<row, version, gate, discard, job, hand, ever, astray, events>>
    BY <1>1 DEF Open
  <2>4. Reading'
    BY <1>0, <2>1, <2>2, <2>3 DEF Reading
  <2>5. QED BY <1>0, <2>2, <2>3, <2>4, FormedBy, KeptHistory
<1>2. CASE CommitSave(e)
  <2>1. /\ edit[e].pc = "save" /\ row.revision < MaxRevision
        /\ edit[e].body \in Bodies /\ edit[e].gate \in BOOLEAN
        /\ UNCHANGED <<gate, discard, job, hand, events>>
    BY <1>0, <1>2 DEF CommitSave, Edit, Reading
  <2>2. row.revision + 1 \in Revisions
    BY <1>0, <2>1, Bounds DEF Article, Revisions
  <2>3. row' \in Article
    <3>1. row' = [row EXCEPT !.revision = row.revision + 1, !.body = edit[e].body, !.pending = edit[e].gate, !.of = NoBody]
      BY <1>2 DEF CommitSave
    <3>2. QED BY <1>0, <2>1, <2>2, <3>1 DEF Article
  <2>4. version' \in [Versions -> Version] /\ History' /\ ever' \subseteq Bodies
    <3>1. CASE UNCHANGED <<version, ever>>
      BY <1>0, <3>1, KeptHistory
    <3>2. CASE /\ EditNumber \in Versions /\ Publish(EditNumber, edit[e].body)
               /\ ever' = ever \union {edit[e].body}
      BY <1>0, <2>1, <3>2, Edited
    <3>3. QED BY <1>2, <3>1, <3>2 DEF CommitSave
  <2>5. PICK x \in Edit : edit' = [edit EXCEPT ![e] = x] /\ (x.pc = "idle" \/ (x.pc = "enqueue" /\ x.revision \in Revisions))
    <3> DEFINE y == [IdleEdit EXCEPT !.pc = "enqueue", !.revision = row.revision + 1]
    <3>1. IdleEdit \in Edit /\ IdleEdit.pc = "idle"
      BY Bounds DEF IdleEdit, Edit
    <3>2. y \in Edit
      BY <2>2, <3>1, Names DEF Edit
    <3>3. y.pc = "enqueue" /\ y.revision = row.revision + 1
      BY <3>1 DEF Edit
    <3>4. edit' = [edit EXCEPT ![e] = IdleEdit] \/ edit' = [edit EXCEPT ![e] = y]
      BY <1>2 DEF CommitSave
    <3>5. QED
      <4> HIDE DEF y
      <4>1. CASE edit' = [edit EXCEPT ![e] = IdleEdit]
        BY <3>1, <4>1
      <4>2. CASE edit' = [edit EXCEPT ![e] = y]
        <5>1. y.revision \in Revisions
          BY <2>2, <3>3
        <5>2. QED BY <3>2, <3>3, <4>2, <5>1
      <4>3. QED BY <3>4, <4>1, <4>2
  <2>6. edit' \in [Savers -> Edit] /\ \A f \in Savers : edit'[f] = IF f = e THEN x ELSE edit[f]
    BY <1>0, <2>5
  <2>7. astray' \in BOOLEAN
    BY <1>2 DEF CommitSave
  <2>8. Reading'
    BY <1>0, <2>1, <2>5, <2>6 DEF Reading
  <2>9. QED BY <1>0, <2>1, <2>3, <2>4, <2>6, <2>7, <2>8, FormedBy
<1>3. CASE Enqueue(e)
  <2>1. edit[e].pc = "enqueue" /\ edit' = [edit EXCEPT ![e] = IdleEdit]
        /\ UNCHANGED <<row, version, gate, discard, hand, ever, astray, events>>
    BY <1>3 DEF Enqueue
  <2>2. IdleEdit \in Edit /\ IdleEdit.pc = "idle"
    BY Bounds DEF IdleEdit, Edit
  <2>3. edit' \in [Savers -> Edit] /\ \A f \in Savers : edit'[f] = IF f = e THEN IdleEdit ELSE edit[f]
    BY <1>0, <2>1, <2>2
  <2>4. job' \in [Revisions -> JobRec]
    <3>1. [state |-> "queued", attempts |-> 0] \in JobRec
      BY Bounds DEF JobRec
    <3>2. QED BY <1>0, <1>3, <3>1 DEF Enqueue, AddJob
  <2>5. Reading'
    BY <1>0, <2>1, <2>2, <2>3 DEF Reading
  <2>6. QED BY <1>0, <2>1, <2>3, <2>4, <2>5, FormedBy, KeptHistory
<1>4. CASE CommitAutosave(e)
  <2>1. /\ edit[e].pc = "autosave" /\ row.revision < MaxRevision /\ edit[e].body \in Bodies
        /\ edit' = [edit EXCEPT ![e] = IdleEdit]
        /\ UNCHANGED <<gate, discard, job, hand, ever, events>>
    BY <1>0, <1>4 DEF CommitAutosave, Reading
  <2>2. row' \in Article
    <3>1. row' = [row EXCEPT !.revision = row.revision + 1, !.body = edit[e].body]
      BY <1>4 DEF CommitAutosave
    <3>2. row.revision + 1 \in Revisions
      BY <1>0, <2>1, Bounds DEF Article, Revisions
    <3>3. QED BY <1>0, <2>1, <3>1, <3>2 DEF Article
  <2>3. version' \in [Versions -> Version] /\ History'
    <3>1. CASE UNCHANGED version
      BY <1>0, <3>1, KeptHistory
    <3>2. CASE /\ EditNumber \in Versions
               /\ version' = [version EXCEPT ![EditNumber] =
                                [kind |-> "draft", body |-> edit[e].body,
                                 born |-> IF @.kind = "draft" THEN @.born ELSE row.revision + 1]]
      BY <1>0, <2>1, <3>2, DraftIs
    <3>3. QED BY <1>4, <3>1, <3>2 DEF CommitAutosave
  <2>4. IdleEdit \in Edit /\ IdleEdit.pc = "idle"
    BY Bounds DEF IdleEdit, Edit
  <2>5. edit' \in [Savers -> Edit] /\ \A f \in Savers : edit'[f] = IF f = e THEN IdleEdit ELSE edit[f]
    BY <1>0, <2>1, <2>4
  <2>6. astray' \in BOOLEAN
    BY <1>4 DEF CommitAutosave
  <2>7. Reading'
    BY <1>0, <2>1, <2>4, <2>5 DEF Reading
  <2>8. QED BY <1>0, <2>1, <2>2, <2>3, <2>5, <2>6, <2>7, FormedBy
<1>5. QED BY <1>1, <1>2, <1>3, <1>4

LEMMA DiscarderFormed ==
  ASSUME Formed, NEW e \in Discarders,
         (\E op \in {"discard", "archive"} : ReadDraft(e, op)) \/ CommitDiscard(e)
  PROVE  Formed'
<1>0. /\ row \in Article /\ version \in [Versions -> Version] /\ gate \in BOOLEAN
      /\ edit \in [Savers -> Edit] /\ discard \in [Discarders -> Discard]
      /\ job \in [Revisions -> JobRec] /\ hand \in [Workers -> Hand]
      /\ ever \subseteq Bodies /\ astray \in BOOLEAN /\ events \in 0..MaxEvents
      /\ History /\ Reading /\ TypeOK
  BY DEF Formed, TypeOK
<1>1. ASSUME NEW op \in {"discard", "archive"}, ReadDraft(e, op) PROVE Formed'
  <2>1. PICK d \in Versions : d = Highest(Drafts) /\ version[d].kind = "draft"
    <3>1. Drafts \subseteq Versions /\ Drafts # {}
      BY <1>1 DEF ReadDraft, HasDraft, Drafts
    <3>2. Highest(Drafts) \in Drafts
      BY <3>1, HighestIs
    <3>3. Highest(Drafts) \in Versions /\ version[Highest(Drafts)].kind = "draft"
      BY <3>2 DEF Drafts
    <3>4. QED BY <3>3
  <2>2. PICK p \in Versions : p = LastPublished /\ version[p].kind = "published"
    BY <1>0, LastIs DEF Published
  <2>3. version[d].born # 0 /\ version[d].born \in 0..MaxRevision /\ version[p].body \in Bodies
    BY <1>0, <2>1, <2>2 DEF History, Version
  <2>4. PICK x \in Discard : /\ discard' = [discard EXCEPT ![e] = x]
                             /\ x.body \in Bodies /\ x.number \in Versions /\ x.born # 0
    <3> DEFINE x == [pc |-> op, body |-> version[p].body, number |-> d, born |-> version[d].born]
    <3>1. x \in Discard
      BY <2>3, Names DEF Discard
    <3>2. discard' = [discard EXCEPT ![e] = x]
      BY <1>1, <2>1, <2>2 DEF ReadDraft
    <3>3. QED BY <2>3, <3>1, <3>2
  <2>5. discard' \in [Discarders -> Discard]
        /\ \A f \in Discarders : discard'[f] = IF f = e THEN x ELSE discard[f]
    BY <1>0, <2>4
  <2>6. UNCHANGED <<row, version, gate, edit, job, hand, ever, astray, events>>
    BY <1>1 DEF ReadDraft
  <2>7. Reading'
    BY <1>0, <2>4, <2>5, <2>6 DEF Reading
  <2>8. QED BY <1>0, <2>5, <2>6, <2>7, FormedBy, KeptHistory
<1>2. CASE CommitDiscard(e)
  <2>1. /\ discard[e].pc # "idle" /\ discard' = [discard EXCEPT ![e] = IdleDiscard]
        /\ UNCHANGED <<gate, edit, job, hand, ever, events>>
    BY <1>2 DEF CommitDiscard
  <2>2. discard[e].body \in Bodies /\ discard[e].number \in Versions /\ discard[e].born # 0
    BY <1>0, <2>1 DEF Reading
  <2>3. row' \in Article
    <3>1. row' = [row EXCEPT !.body = discard[e].body, !.archived = row.archived \/ discard[e].pc = "archive"]
      BY <1>2 DEF CommitDiscard
    <3>2. (row.archived \/ discard[e].pc = "archive") \in BOOLEAN
      OBVIOUS
    <3>3. QED BY <1>0, <2>2, <3>1, <3>2 DEF Article
  <2>4. version' \in [Versions -> Version] /\ History'
    <3>1. PICK n \in Versions, born \in 0..MaxRevision : n = discard[e].number /\ born = discard[e].born
      BY <1>0, <2>2 DEF Discard
    <3>2. version' = Without(n, born)
      BY <1>2, <3>1 DEF CommitDiscard
    <3>3. QED BY <1>0, <2>2, <3>1, <3>2, WithoutIs
  <2>5. IdleDiscard \in Discard /\ IdleDiscard.pc = "idle"
    BY Bounds DEF IdleDiscard, Discard
  <2>6. discard' \in [Discarders -> Discard]
        /\ \A f \in Discarders : discard'[f] = IF f = e THEN IdleDiscard ELSE discard[f]
    BY <1>0, <2>1, <2>5
  <2>7. astray' \in BOOLEAN
    BY <1>2 DEF CommitDiscard
  <2>8. Reading'
    BY <1>0, <2>1, <2>5, <2>6 DEF Reading
  <2>9. QED BY <1>0, <2>1, <2>3, <2>4, <2>6, <2>7, <2>8, FormedBy
<1>3. QED BY <1>1, <1>2

LEMMA IntegrationFormed ==
  ASSUME Formed, ArchiveUndrafted \/ Restore \/ IntegrationWrite \/ FlipGate
  PROVE  Formed'
<1>0. /\ row \in Article /\ version \in [Versions -> Version] /\ gate \in BOOLEAN
      /\ edit \in [Savers -> Edit] /\ discard \in [Discarders -> Discard]
      /\ job \in [Revisions -> JobRec] /\ hand \in [Workers -> Hand]
      /\ ever \subseteq Bodies /\ astray \in BOOLEAN /\ events \in 0..MaxEvents
      /\ History /\ Reading /\ TypeOK
  BY DEF Formed, TypeOK
<1>1. CASE ArchiveUndrafted \/ Restore
  <2>1. row' = [row EXCEPT !.archived = TRUE] \/ row' = [row EXCEPT !.archived = FALSE]
    BY <1>1 DEF ArchiveUndrafted, Restore
  <2>2. UNCHANGED <<version, gate, edit, discard, job, hand, ever, astray, events>>
    BY <1>1 DEF ArchiveUndrafted, Restore
  <2>3. row' \in Article
    BY <1>0, <2>1 DEF Article
  <2>4. Reading'
    BY <1>0, <2>2 DEF Reading
  <2>5. QED BY <1>0, <2>2, <2>3, <2>4, FormedBy, KeptHistory
<1>2. CASE IntegrationWrite
  <2>1. row.revision < MaxRevision /\ UNCHANGED <<gate, edit, discard, job, hand, astray, events>>
    BY <1>2 DEF IntegrationWrite
  <2>2. row.revision + 1 \in Revisions
    BY <1>0, <2>1, Bounds DEF Article, Revisions
  <2>3. Reading'
    BY <1>0, <2>1 DEF Reading
  <2>4. ASSUME NEW b \in Bodies, NextNumber \in Versions, Publish(NextNumber, b), ever' = ever \union {b},
               row' = [row EXCEPT !.revision = @ + 1, !.body = b, !.archived = FALSE, !.pending = gate, !.of = NoBody]
        PROVE  Formed'
    <3>1. row' \in Article
      <4>1. row' = [row EXCEPT !.revision = row.revision + 1, !.body = b, !.archived = FALSE, !.pending = gate, !.of = NoBody]
        BY <2>4
      <4>2. QED BY <1>0, <2>2, <4>1 DEF Article
    <3>2. version' \in [Versions -> Version] /\ History'
      BY <2>1, <2>4, Added
    <3>3. ever' \subseteq Bodies
      BY <1>0, <2>4
    <3>4. QED BY <1>0, <2>1, <2>3, <3>1, <3>2, <3>3, FormedBy
  <2>5. CASE row' = [row EXCEPT !.revision = @ + 1, !.archived = FALSE] /\ UNCHANGED <<version, ever>>
    <3>1. row' = [row EXCEPT !.revision = row.revision + 1, !.archived = FALSE]
      BY <2>5
    <3>2. row' \in Article
      BY <1>0, <2>2, <3>1 DEF Article
    <3>3. QED BY <1>0, <2>1, <2>3, <2>5, <3>2, FormedBy, KeptHistory
  <2>6. QED BY <1>2, <2>4, <2>5 DEF IntegrationWrite
<1>3. CASE FlipGate
  <2>1. gate' \in BOOLEAN /\ UNCHANGED <<row, version, edit, discard, job, hand, ever, astray>>
    BY <1>3 DEF FlipGate
  <2>2. events' \in 0..MaxEvents
    BY <1>0, <1>3, Bounds DEF FlipGate
  <2>3. Reading'
    BY <1>0, <2>1 DEF Reading
  <2>4. QED BY <1>0, <2>1, <2>2, <2>3, FormedBy, KeptHistory
<1>4. QED BY <1>1, <1>2, <1>3

LEMMA WorkerFormed ==
  ASSUME Formed, NEW w \in Workers, Take(w) \/ JobStep(w) \/ SweepRead(w) \/ Crash(w)
  PROVE  Formed'
<1>0. /\ row \in Article /\ version \in [Versions -> Version] /\ gate \in BOOLEAN
      /\ edit \in [Savers -> Edit] /\ discard \in [Discarders -> Discard]
      /\ job \in [Revisions -> JobRec] /\ hand \in [Workers -> Hand]
      /\ ever \subseteq Bodies /\ astray \in BOOLEAN /\ events \in 0..MaxEvents
      /\ History /\ Reading /\ TypeOK
  BY DEF Formed, TypeOK
<1>i. IdleHand \in Hand /\ IdleHand.pc = "idle" /\ NoJob \in JobRec
      /\ [state |-> "queued", attempts |-> 0] \in JobRec
      /\ [state |-> "failed", attempts |-> Attempts] \in JobRec
  BY Bounds DEF IdleHand, Hand, NoJob, JobRec
<1>r. ASSUME Rest(w) PROVE hand' \in [Workers -> Hand] /\ \A v \in Workers : hand'[v] = IF v = w THEN IdleHand ELSE hand[v]
  BY <1>0, <1>i, <1>r DEF Rest
<1>j. ASSUME Complete(w) PROVE job' \in [Revisions -> JobRec] /\ Rest(w)
  BY <1>0, <1>i, <1>j DEF Complete
\* A worker's step leaves the editors and the version rows alone.
<1>s. /\ UNCHANGED <<version, gate, edit, discard, ever, astray>>
      /\ row' = row \/ \E b \in Bodies \union {NoBody} : row' = [row EXCEPT !.pending = FALSE, !.of = b]
      /\ events' \in 0..MaxEvents
  <2>1. ASSUME NEW r, NEW b \in Bodies \union {NoBody}, StampSettled(r, b)
        PROVE  row' = row \/ \E c \in Bodies \union {NoBody} : row' = [row EXCEPT !.pending = FALSE, !.of = c]
    BY <2>1 DEF StampSettled
  <2>2. CASE Answer(w)
    <3>1. PICK b \in {hand[w].body, NoBody} : StampSettled(hand[w].revision, b)
      BY <2>2 DEF Answer
    <3>2. b \in Bodies \union {NoBody}
      BY <1>0 DEF Hand
    <3>3. QED BY <1>0, <2>1, <2>2, <3>1, <3>2 DEF Answer
  <2>3. CASE OnFailed(w)
    BY <1>0, <2>1, <2>3 DEF OnFailed
  <2>4. CASE Crash(w)
    BY <1>0, <2>4, Bounds DEF Crash
  <2>5. CASE Take(w) \/ GenerateRead(w) \/ AnswerFails(w) \/ SweepQueue(w) \/ SweepRead(w)
    BY <1>0, <2>5 DEF Take, GenerateRead, AnswerFails, SweepQueue, SweepRead
  <2>6. QED BY <2>2, <2>3, <2>4, <2>5 DEF JobStep
<1>t. row' \in Article
  <2>1. \A b \in Bodies \union {NoBody} : [row EXCEPT !.pending = FALSE, !.of = b] \in Article
    BY <1>0 DEF Article
  <2>2. QED BY <1>0, <1>s, <2>1
<1>p. /\ job' \in [Revisions -> JobRec]
      /\ \E x \in Hand : /\ hand' = [hand EXCEPT ![w] = x]
                         /\ x.pc # "idle" => x.revision \in Revisions
  <2>0. hand[w] \in Hand /\ (hand[w].pc # "idle" => hand[w].revision \in Revisions)
    BY <1>0 DEF Reading
  <2>1. ASSUME Rest(w) PROVE \E x \in Hand : /\ hand' = [hand EXCEPT ![w] = x]
                                             /\ x.pc # "idle" => x.revision \in Revisions
    BY <1>i, <2>1, Zenon DEF Rest
  <2>2. CASE Take(w)
    <3>1. PICK r \in Revisions : /\ job' = [job EXCEPT ![r].state = "active"]
                                 /\ hand' = [hand EXCEPT ![w] = [IdleHand EXCEPT !.pc = "read", !.revision = r]]
      BY <2>2 DEF Take
    <3>2. [IdleHand EXCEPT !.pc = "read", !.revision = r] \in Hand
          /\ [IdleHand EXCEPT !.pc = "read", !.revision = r].revision = r
      BY <1>i, Names DEF Hand
    <3>3. job' \in [Revisions -> JobRec]
      BY <1>0, <3>1 DEF JobRec
    <3>4. QED BY <3>1, <3>2, <3>3
  <2>3. CASE GenerateRead(w)
    <3>1. CASE Complete(w)
      BY <1>j, <2>1, <3>1
    <3>2. CASE hand' = [hand EXCEPT ![w].pc = "ask", ![w].body = row.body] /\ UNCHANGED job
      <4> DEFINE x == [hand[w] EXCEPT !.pc = "ask", !.body = row.body]
      <4>1. x \in Hand /\ x.revision = hand[w].revision
        BY <1>0, <2>0 DEF Hand, Article
      <4>2. hand' = [hand EXCEPT ![w] = x]
        BY <1>0, <3>2
      <4>3. hand[w].revision \in Revisions
        BY <2>0, <2>3 DEF GenerateRead
      <4>4. QED
        <5> HIDE DEF x
        <5>1. QED BY <1>0, <3>2, <4>1, <4>2, <4>3
    <3>3. QED BY <2>3, <3>1, <3>2 DEF GenerateRead
  <2>4. CASE Answer(w)
    BY <1>j, <2>1, <2>4 DEF Answer
  <2>5. CASE AnswerFails(w)
    <3>0. hand[w].revision \in Revisions
      BY <2>0, <2>5 DEF AnswerFails
    <3>1. PICK r \in Revisions : r = hand[w].revision
      BY <3>0
    <3>2. CASE /\ job[r].attempts + 1 < Attempts
               /\ job' = [job EXCEPT ![r] = [state |-> "queued", attempts |-> @.attempts + 1]] /\ Rest(w)
      <4>1. job[r].attempts + 1 \in 0..Attempts
        BY <1>0, <3>2, Bounds DEF JobRec
      <4>2. [state |-> "queued", attempts |-> job[r].attempts + 1] \in JobRec
        BY <4>1 DEF JobRec
      <4>3. QED BY <1>0, <2>1, <3>2, <4>2
    <3>3. CASE /\ job' = [job EXCEPT ![r] = [state |-> "failed", attempts |-> Attempts]]
               /\ hand' = [hand EXCEPT ![w].pc = "onFailed", ![w].body = NoBody]
      <4> DEFINE x == [hand[w] EXCEPT !.pc = "onFailed", !.body = NoBody]
      <4>1. x \in Hand /\ x.revision = hand[w].revision
        BY <1>0, <2>0 DEF Hand
      <4>2. hand' = [hand EXCEPT ![w] = x]
        BY <1>0, <3>3
      <4>3. job' \in [Revisions -> JobRec]
        BY <1>0, <1>i, <3>3
      <4>4. QED
        <5> HIDE DEF x
        <5>1. QED BY <3>0, <4>1, <4>2, <4>3
    <3>4. QED BY <2>5, <3>1, <3>2, <3>3 DEF AnswerFails
  <2>6. CASE OnFailed(w)
    BY <1>0, <2>1, <2>6 DEF OnFailed
  <2>7. CASE SweepQueue(w)
    <3>1. job' \in [Revisions -> JobRec]
      BY <1>0, <1>i, <2>7 DEF SweepQueue, QueueOrRetry, JobRec
    <3>2. QED BY <2>1, <2>7, <3>1 DEF SweepQueue
  <2>8. CASE SweepRead(w)
    <3>1. hand' = [hand EXCEPT ![w] = [IdleHand EXCEPT !.pc = "sweep", !.revision = row.revision]] /\ job' = job
      BY <2>8 DEF SweepRead
    <3>2. [IdleHand EXCEPT !.pc = "sweep", !.revision = row.revision] \in Hand
          /\ [IdleHand EXCEPT !.pc = "sweep", !.revision = row.revision].revision \in Revisions
      BY <1>0, <1>i, Names DEF Hand, Article
    <3>3. QED BY <1>0, <3>1, <3>2
  <2>9. CASE Crash(w)
    <3>1. job' \in [Revisions -> JobRec]
      BY <1>0, <2>9 DEF Crash, JobRec
    <3>2. QED BY <2>1, <2>9, <3>1 DEF Crash
  <2>10. QED BY <2>2, <2>3, <2>4, <2>5, <2>6, <2>7, <2>8, <2>9 DEF JobStep
<1>q. PICK x \in Hand : hand' = [hand EXCEPT ![w] = x] /\ (x.pc # "idle" => x.revision \in Revisions)
  BY <1>p
<1>h. hand' \in [Workers -> Hand] /\ \A v \in Workers : hand'[v] = IF v = w THEN x ELSE hand[v]
  BY <1>0, <1>q
<1>1. Reading'
  BY <1>0, <1>s, <1>q, <1>h DEF Reading
<1>2. QED BY <1>0, <1>s, <1>t, <1>p, <1>h, <1>1, FormedBy, KeptHistory

LEMMA NextFormed == Formed /\ [Next]_vars => Formed'
<1> SUFFICES ASSUME Formed, [Next]_vars PROVE Formed'
  OBVIOUS
<1>1. CASE EditorStep
  BY <1>1, EditorFormed, DiscarderFormed DEF EditorStep
<1>2. CASE \E r \in Revisions : Evict(r)
  <2>1. PICK r \in Revisions : Evict(r)
    BY <1>2
  <2>2. NoJob \in JobRec
    BY Bounds DEF NoJob, JobRec
  <2>3. job' \in [Revisions -> JobRec] /\ UNCHANGED <<row, version, gate, edit, discard, hand, ever, astray, events>>
    BY <2>1, <2>2 DEF Evict, Formed, TypeOK
  <2>4. Reading'
    BY <2>3 DEF Reading, Formed
  <2>5. QED BY <2>3, <2>4, FormedBy, KeptHistory DEF Formed, TypeOK
<1>3. CASE UNCHANGED vars
  <2>1. History' /\ Reading'
    BY <1>3, KeptHistory DEF vars, Formed, Reading
  <2>2. QED BY <1>3, <2>1, FormedBy DEF vars, Formed, TypeOK
<1>4. QED BY <1>1, <1>2, <1>3, IntegrationFormed, WorkerFormed DEF Next

\* The state has its types, and there is one draft at most, whoever writes it.
THEOREM TypeCorrect == Spec => []TypeOK
<1>1. Spec => Init /\ [][Next]_vars
  BY PTL DEF Spec
<1>2. Formed => TypeOK
  BY DEF Formed
<1>3. QED BY <1>1, <1>2, InitFormed, NextFormed, PTL

-----------------------------------------------------------------------------
(* The last published version *)

\* The text a reader of the history finds.
Top == version[LastPublished].body

LEMMA TopKept ==
  ASSUME History, Published' = Published, \A u \in Published : version'[u] = version[u]
  PROVE  Top' = Top
<1>1. LastPublished \in Published
  BY LastIs
<1>2. LastPublished' = LastPublished
  BY DEF LastPublished
<1>3. QED BY <1>1, <1>2 DEF Top

LEMMA TopNew ==
  ASSUME NEW v \in Versions, \A u \in Published : u < v, Published' = Published \union {v}
  PROVE  Top' = version'[v].body
<1> DEFINE S == Published \union {v}
<1>1. S \subseteq Versions /\ S # {}
  BY DEF Published
<1>2. Highest(S) \in S /\ \A u \in S : u <= Highest(S)
  <2> HIDE DEF S
  <2>1. QED BY <1>1, HighestIs
<1>3. v \in Nat /\ (\A u \in Published : u \in Nat)
  BY InVersions DEF Published
<1>4. Highest(S) = v
  <2>1. Highest(S) \in Nat /\ v <= Highest(S)
    BY <1>2, <1>3
  <2>2. Highest(S) \in Published => Highest(S) < v
    OBVIOUS
  <2>3. QED BY <1>2, <1>3, <2>1, <2>2
<1>5. LastPublished' = v
  BY <1>4 DEF LastPublished
<1>6. QED BY <1>5 DEF Top

\* A step that publishes nothing.
Unpublished == Published' = Published /\ \A u \in Published : version'[u] = version[u]

\* A step that publishes a text above all of the history, and makes it live.
PublishedLast ==
  \E v \in Versions :
    /\ v \notin Published /\ \A u \in Published : u < v
    /\ Published' = Published \union {v} /\ \A u \in Published : version'[u] = version[u]
    /\ row'.body = version'[v].body /\ ever' = ever \union {version'[v].body}
    /\ row'.of = NoBody /\ row'.revision = row.revision + 1

\* A save.
LEMMA SavedLast ==
  ASSUME Formed, NEW e \in Savers, CommitSave(e), ~astray'
  PROVE  /\ row'.of = NoBody /\ row'.revision = row.revision + 1
         /\ \/ /\ Unpublished /\ row'.body = row.body /\ ~HasDraft /\ ~HasDraft' /\ ever' = ever
            \/ PublishedLast
<1>0. row \in Article /\ History /\ TypeOK
  BY DEF Formed, TypeOK
<1>1. /\ edit[e].read = row.body
      /\ HasDraft => ~(LastPublished > EditNumber)
      /\ row.revision < MaxRevision /\ edit[e].body \in Bodies
  BY DEF CommitSave, SaveStray, Formed, Reading
<1>2. row'.of = NoBody /\ row'.revision = row.revision + 1 /\ row'.body = edit[e].body
  BY <1>0 DEF CommitSave, Article
<1>3. CASE edit[e].body = edit[e].read /\ ~HasDraft /\ UNCHANGED <<version, ever>>
  <2>1. Published' = Published /\ Drafts' = Drafts /\ version' = version
    BY <1>3 DEF Published, Drafts
  <2>2. QED BY <1>1, <1>2, <1>3, <2>1 DEF Unpublished, HasDraft
<1>4. CASE /\ EditNumber \in Versions /\ Publish(EditNumber, edit[e].body)
           /\ ever' = ever \union {edit[e].body}
  <2>1. PICK v \in Versions :
           /\ v = EditNumber /\ version[v].kind # "published"
           /\ Published' = Published \union {v} /\ version'[v].body = edit[e].body
           /\ \A u \in Versions : u # v => version'[u] = version[u]
    BY <1>1, <1>4, Edited
  <2>2. v \notin Published /\ Published \subseteq Versions
    BY <2>1 DEF Published
  <2>3. \A u \in Published : u < v
    <3>1. CASE HasDraft
      <4>1. LastPublished \in Published /\ \A u \in Published : u <= LastPublished
        BY <1>0, LastIs
      <4>2. ~(LastPublished > v) /\ LastPublished # v
        BY <1>1, <2>1, <2>2, <3>1, <4>1
      <4>3. v \in Nat /\ LastPublished \in Nat /\ \A u \in Published : u \in Nat
        BY <2>2, <4>1, InVersions
      <4>4. QED BY <4>1, <4>2, <4>3
    <3>2. CASE ~HasDraft
      BY <1>0, <1>4, <2>1, <3>2, EditIs
    <3>3. QED BY <3>1, <3>2
  <2>4. \A u \in Published : version'[u] = version[u]
    BY <2>1, <2>2
  <2>5. PublishedLast
    BY <1>2, <1>4, <2>1, <2>2, <2>3, <2>4 DEF PublishedLast
  <2>6. QED BY <1>2, <2>5
<1>5. QED BY <1>3, <1>4 DEF CommitSave

\* An autosave.
LEMMA AutosavedAside ==
  ASSUME Formed, NEW e \in Savers, CommitAutosave(e), ~astray'
  PROVE  /\ Unpublished /\ row'.of = row.of /\ row'.revision = row.revision + 1 /\ row'.pending = row.pending
         /\ HasDraft' \/ (row'.body = row.body /\ HasDraft' = HasDraft)
<1>0. row \in Article /\ History /\ TypeOK
  BY DEF Formed, TypeOK
<1>1. /\ edit[e].read = row.body /\ row.revision < MaxRevision /\ edit[e].body \in Bodies
  BY DEF CommitAutosave, Formed, Reading
<1>2. /\ row'.of = row.of /\ row'.revision = row.revision + 1 /\ row'.pending = row.pending
      /\ row'.body = edit[e].body
  BY <1>0 DEF CommitAutosave, Article
<1>3. CASE edit[e].body = edit[e].read /\ UNCHANGED version
  <2>1. Published' = Published /\ Drafts' = Drafts /\ version' = version
    BY <1>3 DEF Published, Drafts
  <2>2. QED BY <1>1, <1>2, <1>3, <2>1 DEF Unpublished, HasDraft
<1>4. CASE /\ EditNumber \in Versions
           /\ version' = [version EXCEPT ![EditNumber] =
                            [kind |-> "draft", body |-> edit[e].body,
                             born |-> IF @.kind = "draft" THEN @.born ELSE row.revision + 1]]
  BY <1>0, <1>1, <1>2, <1>4, DraftIs DEF Unpublished
<1>5. QED BY <1>3, <1>4 DEF CommitAutosave

\* A discard.
LEMMA DiscardedBack ==
  ASSUME Formed, NEW e \in Discarders, CommitDiscard(e), ~astray'
  PROVE  /\ Unpublished /\ row'.body = Top
         /\ row'.of = row.of /\ row'.revision = row.revision /\ row'.pending = row.pending
<1>0. row \in Article /\ History /\ TypeOK
  BY DEF Formed, TypeOK
<1>1. discard[e].number \in Versions /\ discard[e].born # 0
  BY DEF CommitDiscard, Formed, Reading
<1>2. PICK n \in Versions : n = discard[e].number
  BY <1>1
<1>3. /\ discard[e].body = Top /\ version' = Without(n, discard[e].born)
      /\ ~(version[n].kind = "published" /\ version[n].born = discard[e].born)
  BY <1>2 DEF CommitDiscard, DiscardStray, Top
<1>4. Unpublished
  BY <1>0, <1>1, <1>3, WithoutIs DEF Unpublished
<1>5. /\ row'.of = row.of /\ row'.revision = row.revision /\ row'.pending = row.pending
      /\ row'.body = discard[e].body
  BY <1>0 DEF CommitDiscard, Article
<1>6. QED BY <1>3, <1>4, <1>5

\* An integration's write.
LEMMA WrittenLast ==
  ASSUME Formed, IntegrationWrite
  PROVE  /\ row'.revision = row.revision + 1
         /\ \/ PublishedLast
            \/ /\ Unpublished /\ row'.body = row.body /\ row'.of = row.of /\ HasDraft' = HasDraft /\ ever' = ever
<1>0. row \in Article /\ History /\ TypeOK /\ row.revision < MaxRevision
  BY DEF Formed, TypeOK, IntegrationWrite
<1>1. ASSUME NEW b \in Bodies, NextNumber \in Versions, Publish(NextNumber, b), ever' = ever \union {b},
             row' = [row EXCEPT !.revision = @ + 1, !.body = b, !.archived = FALSE, !.pending = gate, !.of = NoBody]
      PROVE  PublishedLast /\ row'.revision = row.revision + 1
  <2>1. PICK v \in Versions :
           /\ version[v].kind = "absent" /\ \A u \in Published : u < v
           /\ Published' = Published \union {v} /\ version'[v].body = b
           /\ \A u \in Versions : u # v => version'[u] = version[u]
    BY <1>0, <1>1, Added
  <2>2. v \notin Published /\ Published \subseteq Versions
    BY <2>1 DEF Published
  <2>3. row'.body = b /\ row'.of = NoBody /\ row'.revision = row.revision + 1
    BY <1>0, <1>1 DEF Article
  <2>4. QED BY <1>1, <2>1, <2>2, <2>3 DEF PublishedLast
<1>2. CASE row' = [row EXCEPT !.revision = @ + 1, !.archived = FALSE] /\ UNCHANGED <<version, ever>>
  <2>1. row'.body = row.body /\ row'.of = row.of /\ row'.revision = row.revision + 1
    BY <1>0, <1>2 DEF Article
  <2>2. Published' = Published /\ Drafts' = Drafts /\ version' = version
    BY <1>2 DEF Published, Drafts
  <2>3. QED BY <1>2, <2>1, <2>2 DEF Unpublished, HasDraft
<1>3. QED BY <1>1, <1>2 DEF IntegrationWrite

\* Every other step leaves the history alone.
Aside == UNCHANGED <<version, ever, astray>>

LEMMA OtherSteps ==
  ASSUME [Next]_vars
  PROVE  \/ \E e \in Savers : CommitSave(e) \/ CommitAutosave(e)
         \/ \E e \in Discarders : CommitDiscard(e)
         \/ IntegrationWrite
         \/ Aside
BY DEF Next, EditorStep, JobStep, Open, Enqueue, ReadDraft, ArchiveUndrafted, Restore, FlipGate, Take,
       GenerateRead, Answer, AnswerFails, OnFailed, SweepRead, SweepQueue, Crash, Evict, Aside, vars

\* A published version stays as it was published.
LEMMA HistoryStep ==
  ASSUME Formed, [Next]_vars
  PROVE  \A v \in Published : version'[v] = version[v] \/ astray'
<1> SUFFICES ASSUME ~astray' PROVE \A v \in Published : version'[v] = version[v]
  OBVIOUS
<1>1. PublishedLast => \A v \in Published : version'[v] = version[v]
  BY DEF PublishedLast
<1>2. Unpublished => \A v \in Published : version'[v] = version[v]
  BY DEF Unpublished
<1>3. QED BY <1>1, <1>2, OtherSteps, SavedLast, AutosavedAside, DiscardedBack, WrittenLast DEF Aside

\* A published version stays as it was published: no discard, autosave or late
\* commit removes or rewrites one that it has read.
THEOREM HistoryStands == Spec => HistoryKept
<1>1. Spec => Init /\ [][Next]_vars
  BY PTL DEF Spec
<1>2. Formed /\ [Next]_vars => [\A v \in Published : version'[v] = version[v] \/ astray']_vars
  BY HistoryStep
<1>3. QED BY <1>1, <1>2, InitFormed, NextFormed, PTL DEF HistoryKept

-----------------------------------------------------------------------------
(* The summary, the live text and the history agree *)

SummaryFits == row.of # NoBody => row.of = Top
LiveFits == ~HasDraft => row.body = Top
EverHolds == \A v \in Published : version[v].body \in ever

\* What a worker has asked about is published, and not newer than the row; while
\* the row stands at its revision and waits, it is the published text.
AsksPublished ==
  \A w \in Workers : hand[w].pc = "ask" =>
    /\ hand[w].body \in ever /\ hand[w].revision <= row.revision
    /\ row.revision = hand[w].revision /\ row.pending => hand[w].body = Top

Agreed == SummaryFits /\ LiveFits /\ EverHolds /\ AsksPublished

SafeInv == Formed /\ (astray \/ Agreed)

\* A step of the history: the queue's workers hold what they held.
LEMMA AgreedMoves ==
  ASSUME Formed, Agreed, hand' = hand, row'.revision = row.revision + 1,
         \/ PublishedLast
         \/ /\ Unpublished /\ ever' = ever
            /\ row'.of = NoBody \/ row'.of = row.of
            /\ HasDraft' \/ (row'.body = row.body /\ HasDraft' = HasDraft)
  PROVE  Agreed'
<1>0. row \in Article /\ hand \in [Workers -> Hand] /\ History
  BY DEF Formed, TypeOK
<1>1. ever \subseteq ever'
  BY DEF PublishedLast
<1>2. AsksPublished'
  <2>1. \A w \in Workers : hand'[w].pc = "ask" =>
          hand'[w].body \in ever' /\ hand'[w].revision <= row'.revision /\ row'.revision # hand'[w].revision
    BY <1>0, <1>1, Bounds DEF Agreed, AsksPublished, Hand, Article, Revisions
  <2>2. QED BY <2>1 DEF AsksPublished
<1>3. CASE PublishedLast
  <2>1. PICK v \in Versions :
          /\ v \notin Published /\ \A u \in Published : u < v
          /\ Published' = Published \union {v} /\ \A u \in Published : version'[u] = version[u]
          /\ row'.body = version'[v].body /\ ever' = ever \union {version'[v].body}
          /\ row'.of = NoBody
    BY <1>3 DEF PublishedLast
  <2>2. row'.body = Top'
    BY <2>1, TopNew
  <2>3. EverHolds'
    BY <2>1 DEF Agreed, EverHolds
  <2>4. QED BY <1>2, <2>1, <2>2, <2>3 DEF Agreed, SummaryFits, LiveFits
<1>4. CASE /\ Unpublished /\ ever' = ever
           /\ row'.of = NoBody \/ row'.of = row.of
           /\ HasDraft' \/ (row'.body = row.body /\ HasDraft' = HasDraft)
  <2>1. Top' = Top
    BY <1>0, <1>4, TopKept DEF Unpublished
  <2>2. EverHolds'
    BY <1>4 DEF Agreed, EverHolds, Unpublished
  <2>3. SummaryFits' /\ LiveFits'
    BY <1>4, <2>1 DEF Agreed, SummaryFits, LiveFits
  <2>4. QED BY <1>2, <2>2, <2>3 DEF Agreed
<1>5. QED BY <1>3, <1>4

\* A discard.
LEMMA AgreedDiscard ==
  ASSUME Formed, Agreed, NEW e \in Discarders, CommitDiscard(e), ~astray'
  PROVE  Agreed'
<1>1. /\ Unpublished /\ row'.body = Top
      /\ row'.of = row.of /\ row'.revision = row.revision /\ row'.pending = row.pending
      /\ hand' = hand /\ ever' = ever
  BY DiscardedBack DEF CommitDiscard
<1>2. Top' = Top
  BY <1>1, TopKept DEF Unpublished, Formed
<1>3. EverHolds'
  BY <1>1 DEF Agreed, EverHolds, Unpublished
<1>4. SummaryFits' /\ LiveFits'
  BY <1>1, <1>2 DEF Agreed, SummaryFits, LiveFits
<1>5. AsksPublished'
  BY <1>1, <1>2 DEF Agreed, AsksPublished
<1>6. QED BY <1>3, <1>4, <1>5 DEF Agreed

\* A step that leaves the text, the summary and the workers alone.
LEMMA AgreedElse ==
  ASSUME Formed, Agreed, hand' = hand, Aside,
         row'.body = row.body, row'.of = row.of, row'.revision = row.revision, row'.pending = row.pending
  PROVE  Agreed'
<1>1. Top' = Top /\ HasDraft' = HasDraft /\ Published' = Published /\ version' = version /\ ever' = ever
  BY DEF Aside, Top, HasDraft, Drafts, Published, LastPublished
<1>2. QED BY <1>1 DEF Agreed, SummaryFits, LiveFits, EverHolds, AsksPublished

\* A worker's step: the text that goes out is the live one, of an article on
\* which no draft is in progress, and the answer is stamped at its revision.
LEMMA AgreedWorker ==
  ASSUME Formed, Agreed, NEW w \in Workers, Take(w) \/ JobStep(w) \/ SweepRead(w) \/ Crash(w)
  PROVE  Agreed'
<1>0. row \in Article /\ hand \in [Workers -> Hand] /\ History
  BY DEF Formed, TypeOK
<1>1. Aside
  BY DEF Take, JobStep, GenerateRead, Answer, AnswerFails, OnFailed, SweepRead, SweepQueue, Crash, Aside
<1>2. Top' = Top /\ HasDraft' = HasDraft /\ Published' = Published /\ version' = version /\ ever' = ever
  BY <1>1 DEF Aside, Top, HasDraft, Drafts, Published, LastPublished
<1>3. ASSUME NEW r, NEW b, StampSettled(r, b)
      PROVE  \/ row' = row
             \/ /\ row.revision = r /\ row.pending /\ ~row'.pending
                /\ row'.body = row.body /\ row'.revision = row.revision /\ row'.of = b
  BY <1>0, <1>3 DEF StampSettled, Matches, Article
<1>4. IdleHand.pc # "ask"
  BY DEF IdleHand
<1>5. row'.body = row.body /\ row'.revision = row.revision /\ (row'.pending => row.pending)
  <2>1. CASE Answer(w) \/ OnFailed(w)
    BY <1>3, <2>1 DEF Answer, OnFailed
  <2>2. CASE row' = row
    BY <2>2
  <2>3. QED BY <2>1, <2>2 DEF Take, JobStep, GenerateRead, AnswerFails, SweepRead, SweepQueue, Crash
<1>6. SummaryFits'
  <2>1. CASE Answer(w)
    <3>1. PICK b \in {hand[w].body, NoBody} : StampSettled(hand[w].revision, b)
      BY <2>1 DEF Answer
    <3>2. hand[w].pc = "ask"
      BY <2>1 DEF Answer
    <3>3. row.revision = hand[w].revision /\ row.pending => hand[w].body = Top
      BY <3>2 DEF Agreed, AsksPublished
    <3>4. CASE row' = row
      BY <1>2, <3>4 DEF Agreed, SummaryFits
    <3>5. CASE row.revision = hand[w].revision /\ row.pending /\ row'.of = b
      BY <1>2, <3>1, <3>3, <3>5 DEF SummaryFits
    <3>6. QED BY <1>3, <3>1, <3>4, <3>5
  <2>2. CASE OnFailed(w)
    <3>1. row' = row \/ row'.of = NoBody
      BY <1>3, <2>2 DEF OnFailed
    <3>2. QED BY <1>2, <3>1 DEF Agreed, SummaryFits
  <2>3. CASE row' = row
    BY <1>2, <2>3 DEF Agreed, SummaryFits
  <2>4. QED BY <2>1, <2>2, <2>3 DEF Take, JobStep, GenerateRead, AnswerFails, SweepRead, SweepQueue, Crash
<1>7. LiveFits' /\ EverHolds'
  BY <1>2, <1>5 DEF Agreed, LiveFits, EverHolds
<1>8. /\ \A v \in Workers : v # w => hand'[v] = hand[v]
      /\ hand'[w].pc = "ask" =>
           /\ hand'[w].body = row.body /\ hand'[w].revision = row.revision
           /\ row \in Article /\ ~HasDraft
  <2>1. ASSUME Rest(w) PROVE hand'[w].pc # "ask" /\ \A v \in Workers : v # w => hand'[v] = hand[v]
    BY <1>0, <1>4, <2>1 DEF Rest
  <2>2. CASE GenerateRead(w)
    <3>1. CASE Complete(w)
      BY <2>1, <3>1 DEF Complete
    <3>2. CASE /\ Due /\ row.revision = hand[w].revision
               /\ hand' = [hand EXCEPT ![w].pc = "ask", ![w].body = row.body]
      BY <1>0, <3>2 DEF Hand, Due, DraftHold
    <3>3. QED BY <2>2, <3>1, <3>2 DEF GenerateRead
  <2>3. CASE Take(w) \/ SweepRead(w)
    <3>1. PICK x : hand' = [hand EXCEPT ![w] = x] /\ x.pc # "ask"
      <4>1. CASE Take(w)
        <5>1. PICK r : hand' = [hand EXCEPT ![w] = [IdleHand EXCEPT !.pc = "read", !.revision = r]]
          BY <4>1 DEF Take
        <5>2. [IdleHand EXCEPT !.pc = "read", !.revision = r].pc # "ask"
          BY DEF IdleHand
        <5>3. QED BY <5>1, <5>2
      <4>2. CASE SweepRead(w)
        <5>1. hand' = [hand EXCEPT ![w] = [IdleHand EXCEPT !.pc = "sweep", !.revision = row.revision]]
          BY <4>2 DEF SweepRead
        <5>2. [IdleHand EXCEPT !.pc = "sweep", !.revision = row.revision].pc # "ask"
          BY DEF IdleHand
        <5>3. QED BY <5>1, <5>2
      <4>3. QED BY <2>3, <4>1, <4>2
    <3>2. QED BY <1>0, <3>1
  <2>4. CASE AnswerFails(w)
    <3>1. CASE Rest(w)
      BY <2>1, <3>1
    <3>2. CASE hand' = [hand EXCEPT ![w].pc = "onFailed", ![w].body = NoBody]
      BY <1>0, <3>2 DEF Hand
    <3>3. QED BY <2>4, <3>1, <3>2 DEF AnswerFails
  <2>5. CASE Rest(w)
    BY <2>1, <2>5
  <2>6. QED BY <2>2, <2>3, <2>4, <2>5 DEF JobStep, Answer, OnFailed, SweepQueue, Crash, Complete
<1>9. AsksPublished'
  <2> SUFFICES ASSUME NEW v \in Workers, hand'[v].pc = "ask"
               PROVE  /\ hand'[v].body \in ever' /\ hand'[v].revision <= row'.revision
                      /\ row'.revision = hand'[v].revision /\ row'.pending => hand'[v].body = Top'
    BY DEF AsksPublished
  <2>1. CASE v # w
    BY <1>2, <1>5, <1>8, <2>1 DEF Agreed, AsksPublished
  <2>2. CASE v = w
    <3>1. row.body = Top /\ Top \in ever
      <4>1. LastPublished \in Published
        BY <1>0, LastIs
      <4>2. QED BY <1>8, <2>2, <4>1 DEF Agreed, LiveFits, EverHolds, Top
    <3>2. row.revision <= row.revision
      BY <1>0, Bounds DEF Article, Revisions
    <3>3. QED BY <1>2, <1>5, <1>8, <2>2, <3>1, <3>2
  <2>3. QED BY <2>1, <2>2
<1>10. QED BY <1>6, <1>7, <1>9 DEF Agreed

LEMMA InitSafeInv == Init => SafeInv
<1> SUFFICES ASSUME Init PROVE SafeInv
  OBVIOUS
<1>1. Formed
  BY InitFormed
<1>2. PICK b \in Bodies, d \in Bodies :
        /\ row = [revision |-> 1, body |-> d, pending |-> FALSE, of |-> NoBody, archived |-> FALSE]
        /\ version = [v \in Versions |->
                        IF v = 1 THEN [kind |-> "published", body |-> b, born |-> 0]
                        ELSE IF v = 2 /\ d # b THEN [kind |-> "draft", body |-> d, born |-> 1]
                        ELSE NoVersion]
        /\ ever = {b}
  BY DEF Init
<1>3. Published = {1} /\ version[1].body = b
  <2>1. \A v \in Versions : version[v] = IF v = 1 THEN [kind |-> "published", body |-> b, born |-> 0]
                                         ELSE IF v = 2 /\ d # b THEN [kind |-> "draft", body |-> d, born |-> 1]
                                         ELSE [kind |-> "absent", body |-> NoBody, born |-> 0]
    BY <1>2 DEF NoVersion
  <2>2. version[1] = [kind |-> "published", body |-> b, born |-> 0]
    BY <2>1, InVersions
  <2>3. \A v \in Versions : v # 1 => version[v].kind # "published"
    BY <2>1
  <2>4. 1 \in Published /\ \A v \in Published : v = 1
    BY <2>2, <2>3, InVersions DEF Published
  <2>5. QED BY <2>2, <2>4
<1>4. Top = b
  <2>1. LastPublished = 1
    BY <1>1, <1>3, LastIs DEF Formed
  <2>2. QED BY <1>3, <2>1 DEF Top
<1>5. SummaryFits /\ EverHolds
  BY <1>2, <1>3 DEF SummaryFits, EverHolds
<1>6. AsksPublished
  BY DEF Init, AsksPublished, IdleHand
<1>7. LiveFits
  <2>1. CASE d = b
    BY <1>2, <1>4, <2>1 DEF LiveFits
  <2>2. CASE d # b
    <3>0. 2 \in Versions
      BY Bounds DEF Versions
    <3>1. version[2] = [kind |-> "draft", body |-> d, born |-> 1]
      BY <1>2, <2>2, <3>0
    <3>2. 2 \in Drafts
      BY <3>0, <3>1 DEF Drafts
    <3>3. QED BY <3>2 DEF LiveFits, HasDraft
  <2>3. QED BY <2>1, <2>2
<1>8. QED BY <1>1, <1>5, <1>6, <1>7 DEF SafeInv, Agreed

LEMMA NextSafeInv == SafeInv /\ [Next]_vars => SafeInv'
<1> SUFFICES ASSUME SafeInv, [Next]_vars, ~astray' PROVE Agreed'
  BY NextFormed DEF SafeInv
<1>0. Formed /\ row \in Article
  BY DEF SafeInv, Formed, TypeOK
<1>1. ~astray
  BY DEF Next, EditorStep, JobStep, Open, CommitSave, Enqueue, CommitAutosave, ReadDraft, CommitDiscard,
         ArchiveUndrafted, Restore, IntegrationWrite, FlipGate, Take, GenerateRead, Answer, AnswerFails,
         OnFailed, SweepRead, SweepQueue, Crash, Evict, vars
<1>2. Agreed
  BY <1>1 DEF SafeInv
<1>3. ASSUME NEW e \in Savers, CommitSave(e) PROVE Agreed'
  <2>1. hand' = hand
    BY <1>3 DEF CommitSave
  <2>2. /\ row'.of = NoBody /\ row'.revision = row.revision + 1
        /\ \/ /\ Unpublished /\ row'.body = row.body /\ ~HasDraft /\ ~HasDraft' /\ ever' = ever
           \/ PublishedLast
    BY <1>0, <1>3, SavedLast
  <2>3. CASE PublishedLast
    BY <1>0, <1>2, <2>1, <2>2, <2>3, AgreedMoves
  <2>4. CASE Unpublished /\ row'.body = row.body /\ ~HasDraft /\ ~HasDraft' /\ ever' = ever
    <3>1. HasDraft' = HasDraft
      BY <2>4 DEF HasDraft
    <3>2. QED BY <1>0, <1>2, <2>1, <2>2, <2>4, <3>1, AgreedMoves
  <2>5. QED BY <2>2, <2>3, <2>4
<1>4. ASSUME NEW e \in Savers, CommitAutosave(e) PROVE Agreed'
  <2>1. hand' = hand /\ ever' = ever
    BY <1>4 DEF CommitAutosave
  <2>2. QED BY <1>0, <1>2, <1>4, <2>1, AutosavedAside, AgreedMoves
<1>5. ASSUME NEW e \in Discarders, CommitDiscard(e) PROVE Agreed'
  BY <1>0, <1>2, <1>5, AgreedDiscard
<1>6. CASE IntegrationWrite
  <2>1. hand' = hand
    BY <1>6 DEF IntegrationWrite
  <2>2. QED BY <1>0, <1>2, <1>6, <2>1, WrittenLast, AgreedMoves
<1>7. ASSUME NEW w \in Workers, Take(w) \/ JobStep(w) \/ SweepRead(w) \/ Crash(w) PROVE Agreed'
  BY <1>0, <1>2, <1>7, AgreedWorker
<1>8. CASE ArchiveUndrafted \/ Restore
  <2>1. row'.body = row.body /\ row'.of = row.of /\ row'.revision = row.revision /\ row'.pending = row.pending
    BY <1>0, <1>8 DEF ArchiveUndrafted, Restore, Article
  <2>2. hand' = hand /\ Aside
    BY <1>8 DEF ArchiveUndrafted, Restore, Aside
  <2>3. QED BY <1>0, <1>2, <2>1, <2>2, AgreedElse
<1>9. ASSUME row' = row, hand' = hand, Aside PROVE Agreed'
  BY <1>0, <1>2, <1>9, AgreedElse
<1>10. ASSUME NEW e \in Savers, (\E op \in {"save", "autosave"}, b \in Bodies : Open(e, op, b)) \/ Enqueue(e)
       PROVE  Agreed'
  BY <1>9, <1>10 DEF Open, Enqueue, Aside
<1>11. ASSUME NEW e \in Discarders, \E op \in {"discard", "archive"} : ReadDraft(e, op) PROVE Agreed'
  BY <1>9, <1>11 DEF ReadDraft, Aside
<1>12. ASSUME FlipGate \/ (\E r \in Revisions : Evict(r)) \/ UNCHANGED vars PROVE Agreed'
  BY <1>9, <1>12 DEF FlipGate, Evict, Aside, vars
<1>13. QED BY <1>3, <1>4, <1>5, <1>6, <1>7, <1>8, <1>10, <1>11, <1>12 DEF Next, EditorStep

\* The stored summary is of the last published version's text, through every
\* draft, discard, late answer, retry and sweep.
THEOREM SummaryFollows == Spec => []SummaryOfPublished
<1>1. Spec => Init /\ [][Next]_vars
  BY PTL DEF Spec
<1>2. SafeInv => SummaryOfPublished
  BY DEF SafeInv, Agreed, SummaryFits, SummaryOfPublished, Top
<1>3. QED BY <1>1, <1>2, InitSafeInv, NextSafeInv, PTL

\* An article without a draft shows the text of its last published version.
THEOREM LiveFollows == Spec => []LiveIsPublished
<1>1. Spec => Init /\ [][Next]_vars
  BY PTL DEF Spec
<1>2. SafeInv => LiveIsPublished
  BY DEF SafeInv, Agreed, LiveFits, LiveIsPublished, Top
<1>3. QED BY <1>1, <1>2, InitSafeInv, NextSafeInv, PTL

\* The provider is sent published texts only: autosaved drafts stay here.
THEOREM DraftsStayHere == Spec => []OnlyPublishedLeaves
<1>1. Spec => Init /\ [][Next]_vars
  BY PTL DEF Spec
<1>2. SafeInv => OnlyPublishedLeaves
  BY DEF SafeInv, Agreed, AsksPublished, OnlyPublishedLeaves
<1>3. QED BY <1>1, <1>2, InitSafeInv, NextSafeInv, PTL
=============================================================================
