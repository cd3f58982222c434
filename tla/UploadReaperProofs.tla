------------------------- MODULE UploadReaperProofs -------------------------
(* Theorems about UploadReaper and their proofs. *)
EXTENDS UploadReaper, FiniteSetTheorems, TLAPS

-----------------------------------------------------------------------------
(* Types *)

PutType == [pc: {"idle", "claim", "write", "mark"}, upload: Ids]
ConfType == [pc: {"idle", "validate", "hash", "insert", "close"}, upload: Ids, sha: Bytes]
SweepType == [pc: {"idle", "list", "reap", "drop", "orphans"}, rows: SUBSET Uploads,
              at: Ids, budget: 0..Batch, dirs: SUBSET Uploads]

\* A request that runs, and a sweep that drops a row, have an upload at hand.
Placed ==
  /\ \A p \in Puts : put[p].pc # "idle" => put[p].upload \in Uploads
  /\ \A k \in Confirms : conf[k].pc # "idle" => conf[k].upload \in Uploads
  /\ \A s \in Sweepers : sweep[s].pc = "drop" => sweep[s].at \in Uploads

\* A sweep that runs holds the lock, so one sweep runs at a time.
OneSweep ==
  \A s \in Sweepers : sweep[s] # IdleSweep => lock.by = s /\ lock.holds > 0

LEMMA IdleTypes == IdlePut \in PutType /\ IdleConf \in ConfType /\ IdleSweep \in SweepType
BY ReaperAssumption
DEF ReaperAssumption, IdlePut, IdleConf, IdleSweep, PutType, ConfType, SweepType, Ids, Bytes

LEMMA TypeParts ==
  TypeOK <=>
    /\ session \in [Uploads -> {"none", "live", "gone"}]
    /\ slot \in [Uploads -> {"free", "writing", "done"}]
    /\ disk \in [Uploads -> Bytes]
    /\ dir \in [Uploads -> {"none", "young", "old"}]
    /\ row \in [Uploads -> [state: {"absent", "live", "deleted", "due", "purged"}, sha: Bytes]]
    /\ put \in [Puts -> PutType]
    /\ conf \in [Confirms -> ConfType]
    /\ lock \in [by: Sweepers \union {Nobody}, holds: Nat]
    /\ sweep \in [Sweepers -> SweepType]
    /\ caught \subseteq Uploads /\ slow \subseteq Uploads /\ lapsed \subseteq Uploads
    /\ faults \in 0..MaxFaults
BY DEF TypeOK, PutType, ConfType, SweepType

LEMMA InitTypeOK == Init => TypeOK /\ Placed /\ OneSweep
<1> SUFFICES ASSUME Init PROVE TypeOK /\ Placed /\ OneSweep
  OBVIOUS
<1>1. \A u \in Uploads : row[u] \in [state: {"absent", "live", "deleted", "due", "purged"}, sha: Bytes]
  BY DEF Init, NoRow, Bytes
<1>2. faults \in 0..MaxFaults
  BY ReaperAssumption DEF ReaperAssumption, Init
<1>3. TypeOK
  BY <1>1, <1>2, IdleTypes, TypeParts DEF Init, Bytes
<1>4. Placed
  BY DEF Init, Placed, IdlePut, IdleConf, IdleSweep
<1>5. OneSweep
  BY DEF Init, OneSweep
<1>6. QED BY <1>3, <1>4, <1>5

\* Moving one request, one sweep or the row of one upload keeps the tables typed.
LEMMA PutMoves ==
  ASSUME TypeOK, NEW p \in Puts, NEW x \in PutType, put' = [put EXCEPT ![p] = x]
  PROVE  put' \in [Puts -> PutType]
BY TypeParts

LEMMA ConfMoves ==
  ASSUME TypeOK, NEW k \in Confirms, NEW x \in ConfType, conf' = [conf EXCEPT ![k] = x]
  PROVE  conf' \in [Confirms -> ConfType]
BY TypeParts

LEMMA SweepMoves ==
  ASSUME TypeOK, NEW s \in Sweepers, NEW x \in SweepType, sweep' = [sweep EXCEPT ![s] = x]
  PROVE  sweep' \in [Sweepers -> SweepType]
BY TypeParts

LEMMA FaultType == TypeOK /\ (Fault \/ UNCHANGED faults) => faults' \in 0..MaxFaults
BY ReaperAssumption DEF ReaperAssumption, TypeOK, Fault

\* init and relayPut.
LEMMA PutTypes ==
  ASSUME TypeOK, Placed,
         \/ \E u \in Uploads : InitUpload(u)
         \/ \E p \in Puts, u \in Uploads : PutBegin(p, u)
         \/ \E p \in Puts : PutClaim(p) \/ PutWrite(p) \/ PutMark(p)
  PROVE  TypeOK' /\ Placed'
<1>1. CASE \E u \in Uploads : InitUpload(u)
  BY <1>1 DEF InitUpload, TypeOK, Placed
<1>2. ASSUME NEW p \in Puts, NEW u \in Uploads, PutBegin(p, u)
      PROVE  TypeOK' /\ Placed'
  <2>1. [pc |-> "claim", upload |-> u] \in PutType
    BY DEF PutType, Ids
  <2>2. put' \in [Puts -> PutType]
    BY <1>2, <2>1, PutMoves DEF PutBegin
  <2>3. TypeOK'
    BY <1>2, <2>2 DEF PutBegin, TypeOK, PutType
  <2>4. Placed'
    BY <1>2 DEF PutBegin, Placed, TypeOK
  <2>5. QED BY <2>3, <2>4
<1>3. ASSUME NEW p \in Puts, PutClaim(p) \/ PutWrite(p) \/ PutMark(p)
      PROVE  TypeOK' /\ Placed'
  <2>1. put[p] \in PutType /\ put[p].upload \in Uploads
    BY <1>3 DEF PutClaim, PutWrite, PutMark, Placed, TypeOK, PutType
  <2>2. \A pc \in {"write", "mark"} : [put[p] EXCEPT !.pc = pc] \in PutType
    BY <2>1 DEF PutType
  <2>3. /\ \E x \in PutType : put' = [put EXCEPT ![p] = x]
    BY <1>3, <2>2, IdleTypes DEF PutClaim, PutWrite, PutMark
  <2>4. put' \in [Puts -> PutType]
    BY <2>3, PutMoves
  <2>5. /\ slot' \in [Uploads -> {"free", "writing", "done"}]
        /\ disk' \in [Uploads -> Bytes]
        /\ dir' \in [Uploads -> {"none", "young", "old"}]
    <3>1. /\ slot \in [Uploads -> {"free", "writing", "done"}]
          /\ disk \in [Uploads -> Bytes]
          /\ dir \in [Uploads -> {"none", "young", "old"}]
      BY DEF TypeOK
    <3>2. CASE PutClaim(p)
      BY <2>1, <3>1, <3>2 DEF PutClaim
    <3>3. CASE PutWrite(p)
      BY <2>1, <3>1, <3>3 DEF PutWrite, Bytes
    <3>4. CASE PutMark(p)
      BY <2>1, <3>1, <3>4 DEF PutMark
    <3>5. QED BY <1>3, <3>2, <3>3, <3>4
  <2>6. TypeOK'
    BY <1>3, <2>4, <2>5 DEF PutClaim, PutWrite, PutMark, TypeOK, PutType
  <2>7. Placed'
    <3>1. \A q \in Puts : put'[q].pc # "idle" => put'[q].upload = put[q].upload /\ put[q].pc # "idle"
      <4>1. \/ put' = [put EXCEPT ![p] = IdlePut]
            \/ \E pc \in {"write", "mark"} : put' = [put EXCEPT ![p] = [put[p] EXCEPT !.pc = pc]]
        BY <1>3 DEF PutClaim, PutWrite, PutMark
      <4>2. put \in [Puts -> PutType] /\ put[p].pc # "idle"
        BY <1>3, TypeParts DEF PutClaim, PutWrite, PutMark
      <4>3. CASE put' = [put EXCEPT ![p] = IdlePut]
        BY <4>2, <4>3 DEF IdlePut
      <4>4. CASE \E pc \in {"write", "mark"} : put' = [put EXCEPT ![p] = [put[p] EXCEPT !.pc = pc]]
        BY <4>2, <4>4 DEF PutType
      <4>5. QED BY <4>1, <4>3, <4>4
    <3>2. UNCHANGED <<conf, sweep>>
      BY <1>3 DEF PutClaim, PutWrite, PutMark
    <3>3. QED BY <3>1, <3>2 DEF Placed
  <2>8. QED BY <2>6, <2>7
<1>4. QED BY <1>1, <1>2, <1>3

\* confirm.
LEMMA ConfirmTypes ==
  ASSUME TypeOK, Placed,
         \/ \E k \in Confirms, u \in Uploads : ConfirmBegin(k, u)
         \/ \E k \in Confirms : ConfirmValidate(k) \/ ConfirmHash(k) \/ ConfirmInsert(k) \/ ConfirmClose(k)
  PROVE  TypeOK' /\ Placed'
<1>1. ASSUME NEW k \in Confirms, NEW u \in Uploads, ConfirmBegin(k, u)
      PROVE  TypeOK' /\ Placed'
  <2>1. [IdleConf EXCEPT !.pc = "validate", !.upload = u] \in ConfType
    BY IdleTypes DEF ConfType, Ids
  <2>2. conf' \in [Confirms -> ConfType]
    BY <1>1, <2>1, ConfMoves DEF ConfirmBegin
  <2>3. TypeOK'
    BY <1>1, <2>2 DEF ConfirmBegin, TypeOK, ConfType
  <2>4. Placed'
    BY <1>1 DEF ConfirmBegin, Placed, TypeOK, IdleConf
  <2>5. QED BY <2>3, <2>4
<1>2. ASSUME NEW k \in Confirms,
             ConfirmValidate(k) \/ ConfirmHash(k) \/ ConfirmInsert(k) \/ ConfirmClose(k)
      PROVE  TypeOK' /\ Placed'
  <2>1. conf[k] \in ConfType /\ conf[k].upload \in Uploads
    BY <1>2 DEF ConfirmValidate, ConfirmHash, ConfirmInsert, ConfirmClose, Placed, TypeOK, ConfType
  <2>2. /\ \A pc \in {"hash", "close"} : [conf[k] EXCEPT !.pc = pc] \in ConfType
        /\ [conf[k] EXCEPT !.pc = "insert", !.sha = disk[conf[k].upload]] \in ConfType
    BY <2>1 DEF ConfType, TypeOK
  <2>3. \E x \in ConfType : conf' = [conf EXCEPT ![k] = x] /\ (x.pc # "idle" => x.upload \in Uploads)
    <3>0. /\ \A pc \in {"hash", "close"} : [conf[k] EXCEPT !.pc = pc].upload \in Uploads
          /\ [conf[k] EXCEPT !.pc = "insert", !.sha = disk[conf[k].upload]].upload \in Uploads
          /\ IdleConf.pc = "idle"
      BY <2>1 DEF ConfType, IdleConf
    <3>1. CASE ConfirmValidate(k)
      BY <3>0, <3>1, <2>2, IdleTypes DEF ConfirmValidate, ConfirmEnds
    <3>2. CASE ConfirmHash(k)
      <4>1. \/ conf' = [conf EXCEPT ![k] = IdleConf]
            \/ conf' = [conf EXCEPT ![k] = [conf[k] EXCEPT !.pc = "insert", !.sha = disk[conf[k].upload]]]
        BY <3>2, <2>1 DEF ConfirmHash, ConfirmEnds, TypeOK, ConfType
      <4>2. QED BY <3>0, <4>1, <2>2, IdleTypes
    <3>3. CASE ConfirmInsert(k)
      BY <3>0, <3>3, <2>2, IdleTypes DEF ConfirmInsert, ConfirmEnds
    <3>4. CASE ConfirmClose(k)
      BY <3>0, <3>4, IdleTypes DEF ConfirmClose, ConfirmEnds
    <3>5. QED BY <1>2, <3>1, <3>2, <3>3, <3>4
  <2>4. conf' \in [Confirms -> ConfType]
    BY <2>3, ConfMoves
  <2>5. /\ session' \in [Uploads -> {"none", "live", "gone"}]
        /\ disk' \in [Uploads -> Bytes]
    <3>1. UNCHANGED session \/ session' = [session EXCEPT ![conf[k].upload] = "gone"]
      BY <1>2 DEF ConfirmValidate, ConfirmHash, ConfirmInsert, ConfirmClose
    <3>2. UNCHANGED disk \/ disk' = [disk EXCEPT ![conf[k].upload] = Nothing]
      BY <1>2 DEF ConfirmValidate, ConfirmHash, ConfirmInsert, ConfirmClose
    <3>3. session' \in [Uploads -> {"none", "live", "gone"}]
      BY <3>1, TypeParts
    <3>4. disk \in [Uploads -> Bytes] /\ Nothing \in Bytes
      BY TypeParts DEF Bytes
    <3>5. disk' \in [Uploads -> Bytes]
      BY <3>2, <3>4
    <3>6. QED BY <3>3, <3>5
  <2>6. row' \in [Uploads -> [state: {"absent", "live", "deleted", "due", "purged"}, sha: Bytes]]
    <3>1. row \in [Uploads -> [state: {"absent", "live", "deleted", "due", "purged"}, sha: Bytes]]
          /\ conf[k].sha \in Bytes
      BY <2>1, TypeParts DEF ConfType
    <3>2. UNCHANGED row \/ row' = [row EXCEPT ![conf[k].upload] = [state |-> "live", sha |-> conf[k].sha]]
      BY <1>2 DEF ConfirmValidate, ConfirmHash, ConfirmInsert, ConfirmClose
    <3>3. QED BY <2>1, <3>1, <3>2
  <2>7. TypeOK'
    <3>1. UNCHANGED <<slot, put, lock, sweep, caught, slow, lapsed, faults>>
      BY <1>2 DEF ConfirmValidate, ConfirmHash, ConfirmInsert, ConfirmClose
    <3>2. dir' = dir
      BY <1>2 DEF ConfirmValidate, ConfirmHash, ConfirmInsert, ConfirmClose
    <3>3. QED BY <2>4, <2>5, <2>6, <3>1, <3>2 DEF TypeOK, ConfType
  <2>8. Placed'
    <3>1. UNCHANGED <<put, sweep>>
      BY <1>2 DEF ConfirmValidate, ConfirmHash, ConfirmInsert, ConfirmClose
    <3>2. conf \in [Confirms -> ConfType]
      BY TypeParts
    <3>3. \A l \in Confirms : conf'[l].pc # "idle" => conf'[l].upload \in Uploads
      BY <2>3, <3>2 DEF Placed
    <3>4. QED BY <3>1, <3>3 DEF Placed
  <2>9. QED BY <2>7, <2>8
<1>3. QED BY <1>1, <1>2

\* The rows and the passing of time.
LEMMA RowTypes ==
  ASSUME TypeOK, Placed, NEW u \in Uploads,
         SoftDelete(u) \/ RestoreUpload(u) \/ TimePasses(u)
  PROVE  TypeOK' /\ Placed'
<1>1. CASE SoftDelete(u) \/ RestoreUpload(u) \/ PassRetention(u)
  <2>1. \A state \in {"live", "deleted", "due"} :
          [row[u] EXCEPT !.state = state] \in [state: {"absent", "live", "deleted", "due", "purged"}, sha: Bytes]
    BY DEF TypeOK
  <2>2. row' \in [Uploads -> [state: {"absent", "live", "deleted", "due", "purged"}, sha: Bytes]]
    <3>1. \E state \in {"live", "deleted", "due"} : row' = [row EXCEPT ![u] = [row[u] EXCEPT !.state = state]]
      BY <1>1 DEF SoftDelete, RestoreUpload, PassRetention, SetRow
    <3>2. QED BY <2>1, <3>1, TypeParts
  <2>3. caught' \subseteq Uploads /\ slow' \subseteq Uploads
    BY <1>1 DEF SoftDelete, RestoreUpload, PassRetention, TypeOK
  <2>4. UNCHANGED <<session, slot, disk, dir, put, conf, lock, sweep, lapsed, faults>>
    BY <1>1 DEF SoftDelete, RestoreUpload, PassRetention
  <2>5. QED BY <2>2, <2>3, <2>4 DEF TypeOK, Placed
<1>2. CASE ExpireSession(u) \/ AgeDir(u)
  <2>1. session' \in [Uploads -> {"none", "live", "gone"}] /\ dir' \in [Uploads -> {"none", "young", "old"}]
    <3>1. UNCHANGED session \/ session' = [session EXCEPT ![u] = "gone"]
      BY <1>2 DEF ExpireSession, AgeDir
    <3>2. UNCHANGED dir \/ dir' = [dir EXCEPT ![u] = "old"]
      BY <1>2 DEF ExpireSession, AgeDir
    <3>3. session' \in [Uploads -> {"none", "live", "gone"}]
      BY <3>1, TypeParts
    <3>4. dir' \in [Uploads -> {"none", "young", "old"}]
      BY <3>2, TypeParts
    <3>5. QED BY <3>3, <3>4
  <2>2. slow' \subseteq Uploads
    BY <1>2 DEF ExpireSession, AgeDir, TypeOK
  <2>3. UNCHANGED <<slot, disk, row, put, conf, lock, sweep, caught, lapsed, faults>>
    BY <1>2 DEF ExpireSession, AgeDir
  <2>4. QED BY <2>1, <2>2, <2>3 DEF TypeOK, Placed
<1>3. CASE ExpireSlot(u)
  <2>1. slot' \in [Uploads -> {"free", "writing", "done"}]
    BY <1>3 DEF ExpireSlot, TypeOK
  <2>2. lapsed' \subseteq Uploads /\ faults' \in 0..MaxFaults
    BY <1>3, FaultType DEF ExpireSlot, TypeOK
  <2>3. UNCHANGED <<session, disk, dir, row, put, conf, lock, sweep, caught, slow>>
    BY <1>3 DEF ExpireSlot
  <2>4. QED BY <2>1, <2>2, <2>3 DEF TypeOK, Placed
<1>4. QED BY <1>1, <1>2, <1>3 DEF TimePasses

\* The sweep.
LEMMA SweepTypes ==
  ASSUME TypeOK, Placed, OneSweep, NEW s \in Sweepers, SweepLock(s) \/ SweepStep(s)
  PROVE  TypeOK' /\ Placed'
<1>0. sweep[s] \in SweepType
  BY DEF TypeOK, SweepType
<1>1. CASE SweepLock(s)
  <2>1. [sweep[s] EXCEPT !.pc = "list"] \in SweepType
    BY <1>0 DEF SweepType
  <2>2. sweep' \in [Sweepers -> SweepType]
    BY <1>1, <2>1, SweepMoves DEF SweepLock, Step
  <2>3. \A t \in Sweepers : sweep'[t] = sweep[t] \/ sweep'[t].pc = "list"
    BY <1>1 DEF SweepLock, Step, TypeOK
  <2>4. Placed'
    BY <1>1, <2>3 DEF SweepLock, Placed
  <2>5. lock' \in [by: Sweepers \union {Nobody}, holds: Nat]
    BY <1>1 DEF SweepLock, TypeOK
  <2>6. QED BY <1>1, <2>2, <2>4, <2>5 DEF SweepLock, TypeOK, SweepType
<1>2. CASE SweepList(s)
  <2>1. PICK rows \in SUBSET DueRows :
          /\ Cardinality(rows) = Batch \/ (rows = DueRows /\ Cardinality(rows) < Batch)
          /\ sweep' = [sweep EXCEPT ![s].pc = "reap", ![s].rows = rows, ![s].budget = WorkLeft(rows)]
    BY <1>2 DEF SweepList
  <2>2. rows \subseteq Uploads /\ Cardinality(rows) \in Nat
    BY ReaperAssumption, FS_Subset, FS_CardinalityType DEF ReaperAssumption, DueRows
  <2>3. WorkLeft(rows) \in 0..Batch
    BY <2>1, <2>2, ReaperAssumption DEF ReaperAssumption, WorkLeft
  <2>4. [sweep[s] EXCEPT !.pc = "reap", !.rows = rows, !.budget = WorkLeft(rows)] \in SweepType
    BY <1>0, <2>2, <2>3 DEF SweepType
  <2>5. sweep' = [sweep EXCEPT ![s] = [sweep[s] EXCEPT !.pc = "reap", !.rows = rows, !.budget = WorkLeft(rows)]]
    <3>1. sweep \in [Sweepers -> SweepType]
      BY TypeParts
    <3>2. QED BY <2>1, <3>1 DEF SweepType
  <2>6. sweep' \in [Sweepers -> SweepType]
    BY <2>4, <2>5, SweepMoves
  <2>7. QED BY <1>2, <2>1, <2>6 DEF SweepList, TypeOK, SweepType, Placed
<1>3. CASE ReapBytes(s)
  <2>1. PICK u \in sweep[s].rows :
          \/ /\ disk' = [disk EXCEPT ![u] = Nothing]
             /\ dir' = [dir EXCEPT ![u] = "none"]
             /\ sweep' = [sweep EXCEPT ![s].pc = "drop", ![s].rows = @ \ {u}, ![s].at = u]
             /\ UNCHANGED faults
          \/ /\ Fault
             /\ sweep' = [sweep EXCEPT ![s].rows = @ \ {u}]
             /\ UNCHANGED <<disk, dir>>
    BY <1>3 DEF ReapBytes
  <2>2. u \in Uploads
    BY <1>0 DEF SweepType
  <2>3. /\ [sweep[s] EXCEPT !.pc = "drop", !.rows = @ \ {u}, !.at = u] \in SweepType
        /\ [sweep[s] EXCEPT !.rows = @ \ {u}] \in SweepType
    BY <1>0, <2>2 DEF SweepType, Ids
  <2>4. \E x \in SweepType : sweep' = [sweep EXCEPT ![s] = x]
    <3>1. \/ sweep' = [sweep EXCEPT ![s] = [sweep[s] EXCEPT !.pc = "drop", !.rows = @ \ {u}, !.at = u]]
          \/ sweep' = [sweep EXCEPT ![s] = [sweep[s] EXCEPT !.rows = @ \ {u}]]
      BY <2>1, <1>0 DEF TypeOK, SweepType
    <3>2. QED BY <3>1, <2>3
  <2>5. sweep' \in [Sweepers -> SweepType] /\ faults' \in 0..MaxFaults
    BY <2>1, <2>4, SweepMoves, FaultType
  <2>6. disk' \in [Uploads -> Bytes] /\ dir' \in [Uploads -> {"none", "young", "old"}]
    <3>1. disk' = disk \/ disk' = [disk EXCEPT ![u] = Nothing]
      BY <2>1
    <3>2. dir' = dir \/ dir' = [dir EXCEPT ![u] = "none"]
      BY <2>1
    <3>3. QED BY <3>1, <3>2, TypeParts DEF Bytes
  <2>7. Placed'
    <3>1. \A t \in Sweepers : sweep'[t].pc = "drop" => sweep'[t].at = u \/ sweep'[t] = sweep[t]
      BY <1>3, <2>1, <1>0 DEF ReapBytes, TypeOK, SweepType
    <3>2. QED BY <1>3, <2>2, <3>1 DEF ReapBytes, Placed
  <2>8. QED BY <1>3, <2>5, <2>6, <2>7 DEF ReapBytes, TypeOK, SweepType
<1>4. CASE ReapRow(s)
  <2>1. [sweep[s] EXCEPT !.pc = "reap", !.at = Nothing] \in SweepType
    BY <1>0 DEF SweepType, Ids
  <2>2. sweep' = [sweep EXCEPT ![s] = [sweep[s] EXCEPT !.pc = "reap", !.at = Nothing]]
    BY <1>4, <1>0 DEF ReapRow, TypeOK, SweepType
  <2>3. sweep' \in [Sweepers -> SweepType] /\ faults' \in 0..MaxFaults
    BY <1>4, <2>1, <2>2, SweepMoves, FaultType DEF ReapRow
  <2>4. row' \in [Uploads -> [state: {"absent", "live", "deleted", "due", "purged"}, sha: Bytes]]
    <3>1. [state |-> "purged", sha |-> Nothing] \in [state: {"absent", "live", "deleted", "due", "purged"}, sha: Bytes]
      BY DEF Bytes
    <3>2. UNCHANGED row \/ row' = [row EXCEPT ![sweep[s].at] = [state |-> "purged", sha |-> Nothing]]
      BY <1>4 DEF ReapRow
    <3>3. QED BY <3>1, <3>2, TypeParts
  <2>5. QED BY <1>4, <2>3, <2>4 DEF ReapRow, TypeOK, SweepType, Placed
<1>5. CASE OrphanList(s)
  <2> DEFINE D == IF sweep[s].budget = 0 THEN {} ELSE {u \in Uploads : dir[u] = "old" /\ ~Owned(u)}
  <2>1. [sweep[s] EXCEPT !.pc = "orphans", !.dirs = D] \in SweepType
    BY <1>0 DEF SweepType
  <2>2. sweep' = [sweep EXCEPT ![s] = [sweep[s] EXCEPT !.pc = "orphans", !.dirs = D]]
    <3>1. sweep \in [Sweepers -> SweepType]
      BY TypeParts
    <3>2. sweep' = [sweep EXCEPT ![s].pc = "orphans", ![s].dirs = D]
      BY <1>5 DEF OrphanList
    <3> HIDE DEF D
    <3>3. QED BY <3>1, <3>2 DEF SweepType
  <2> HIDE DEF D
  <2>3. sweep' \in [Sweepers -> SweepType]
    BY <2>1, <2>2, SweepMoves
  <2>4. \A t \in Sweepers : sweep'[t] = sweep[t] \/ sweep'[t].pc = "orphans"
    BY <1>0, <2>2 DEF TypeOK, SweepType
  <2>5. Placed'
    BY <1>5, <2>4 DEF OrphanList, Placed
  <2>6. QED BY <1>5, <2>3, <2>5 DEF OrphanList, TypeOK, SweepType
<1>6. CASE OrphanRemove(s)
  <2>1. PICK u \in sweep[s].dirs :
          /\ \/ sweep' = [sweep EXCEPT ![s].dirs = @ \ {u}]
             \/ sweep' = [sweep EXCEPT ![s].dirs = @ \ {u}, ![s].budget = @ - 1]
          /\ \/ UNCHANGED <<disk, dir>>
             \/ disk' = [disk EXCEPT ![u] = Nothing] /\ dir' = [dir EXCEPT ![u] = "none"]
          /\ Fault \/ UNCHANGED faults
    BY <1>6 DEF OrphanRemove
  <2>2. sweep[s].budget - 1 \in 0..Batch
    BY <1>0, <1>6, ReaperAssumption DEF ReaperAssumption, OrphanRemove, SweepType
  <2>3. /\ [sweep[s] EXCEPT !.dirs = @ \ {u}] \in SweepType
        /\ [sweep[s] EXCEPT !.dirs = @ \ {u}, !.budget = @ - 1] \in SweepType
    BY <1>0, <2>2 DEF SweepType
  <2>4. \E x \in SweepType : sweep' = [sweep EXCEPT ![s] = x]
    <3>1. \/ sweep' = [sweep EXCEPT ![s] = [sweep[s] EXCEPT !.dirs = @ \ {u}]]
          \/ sweep' = [sweep EXCEPT ![s] = [sweep[s] EXCEPT !.dirs = @ \ {u}, !.budget = @ - 1]]
      BY <2>1, <1>0 DEF TypeOK, SweepType
    <3>2. QED BY <3>1, <2>3
  <2>5. sweep' \in [Sweepers -> SweepType] /\ faults' \in 0..MaxFaults
    BY <2>1, <2>4, SweepMoves, FaultType
  <2>6. disk' \in [Uploads -> Bytes] /\ dir' \in [Uploads -> {"none", "young", "old"}]
    <3>1. disk' = disk \/ disk' = [disk EXCEPT ![u] = Nothing]
      BY <2>1
    <3>2. dir' = dir \/ dir' = [dir EXCEPT ![u] = "none"]
      BY <2>1
    <3>3. QED BY <3>1, <3>2, TypeParts DEF Bytes
  <2>7. \A t \in Sweepers : sweep'[t].pc = sweep[t].pc /\ sweep'[t].at = sweep[t].at
    <3>1. sweep \in [Sweepers -> SweepType]
      BY TypeParts
    <3>2. QED BY <2>1, <3>1 DEF SweepType
  <2>8. QED BY <1>6, <2>5, <2>6, <2>7 DEF OrphanRemove, TypeOK, SweepType, Placed
<1>7. CASE SweepEnd(s)
  <2>1. sweep' \in [Sweepers -> SweepType] /\ faults' \in 0..MaxFaults
    BY <1>7, IdleTypes, SweepMoves, FaultType DEF SweepEnd
  <2>2. \A t \in Sweepers : sweep'[t] = sweep[t] \/ sweep'[t].pc = "idle"
    BY <1>7 DEF SweepEnd, TypeOK, IdleSweep
  <2>3. lock' \in [by: Sweepers \union {Nobody}, holds: Nat]
    <3>1. lock.holds \in Nat /\ lock \in [by: Sweepers \union {Nobody}, holds: Nat]
      BY DEF TypeOK
    <3>2. lock.holds - 1 \in Nat
      BY <1>7, <3>1 DEF SweepEnd, OneSweep, IdleSweep
    <3>3. Unlocked(s) \in [by: Sweepers \union {Nobody}, holds: Nat]
      BY <3>2 DEF Unlocked
    <3>4. QED BY <1>7, <3>1, <3>3 DEF SweepEnd
  <2>4. Placed'
    BY <1>7, <2>2 DEF SweepEnd, Placed
  <2>5. QED BY <1>7, <2>1, <2>3, <2>4 DEF SweepEnd, TypeOK, SweepType
<1>8. QED BY <1>1, <1>2, <1>3, <1>4, <1>5, <1>6, <1>7 DEF SweepStep

LEMMA CrashTypes ==
  ASSUME TypeOK, Placed, RequestDies \/ \E s \in Sweepers : SweeperDies(s)
  PROVE  TypeOK' /\ Placed'
<1>0. faults' \in 0..MaxFaults
  BY FaultType DEF RequestDies, SweeperDies
<1>1. CASE RequestDies
  <2>1. put' \in [Puts -> PutType]
    BY <1>1, IdleTypes, PutMoves DEF RequestDies, TypeOK, PutType
  <2>2. conf' \in [Confirms -> ConfType]
    BY <1>1, IdleTypes, ConfMoves DEF RequestDies, ConfirmEnds, TypeOK, ConfType
  <2>3. TypeOK'
    BY <1>0, <1>1, <2>1, <2>2 DEF RequestDies, TypeOK, PutType, ConfType
  <2>4. Placed'
    <3>1. \A q \in Puts : put'[q] = put[q] \/ put'[q] = IdlePut
      BY <1>1 DEF RequestDies, TypeOK
    <3>2. \A k \in Confirms : conf'[k] = conf[k] \/ conf'[k] = IdleConf
      BY <1>1 DEF RequestDies, ConfirmEnds, TypeOK
    <3>3. UNCHANGED sweep
      BY <1>1 DEF RequestDies
    <3>4. QED BY <3>1, <3>2, <3>3 DEF Placed, IdlePut, IdleConf
  <2>5. QED BY <2>3, <2>4
<1>2. ASSUME NEW s \in Sweepers, SweeperDies(s) PROVE TypeOK' /\ Placed'
  <2>1. sweep' \in [Sweepers -> SweepType]
    BY <1>2, IdleTypes, SweepMoves DEF SweeperDies
  <2>2. QED BY <1>0, <1>2, <2>1 DEF SweeperDies, TypeOK, SweepType, Placed, IdleSweep
<1>3. QED BY <1>1, <1>2

LEMMA NextOneSweep == TypeOK /\ OneSweep /\ [Next]_vars => OneSweep'
<1> SUFFICES ASSUME TypeOK, OneSweep, [Next]_vars PROVE OneSweep'
  OBVIOUS
<1>0. /\ sweep \in [Sweepers -> SweepType] /\ lock \in [by: Sweepers \union {Nobody}, holds: Nat]
      /\ Nobody \notin Sweepers
  BY TypeParts, ReaperAssumption DEF ReaperAssumption
<1>1. CASE UNCHANGED <<sweep, lock>>
  BY <1>1 DEF OneSweep
<1>2. ASSUME NEW s \in Sweepers, lock.by \in {Nobody, s}, lock'.by = s, lock'.holds = lock.holds + 1,
             \A t \in Sweepers \ {s} : sweep'[t] = sweep[t]
      PROVE  OneSweep'
  <2>1. \A t \in Sweepers \ {s} : sweep'[t] = IdleSweep
    BY <1>0, <1>2 DEF OneSweep
  <2>2. lock'.by = s /\ lock'.holds > 0
    BY <1>0, <1>2
  <2>3. QED BY <2>1, <2>2 DEF OneSweep
<1>3. ASSUME NEW s \in Sweepers, SweepLock(s) PROVE OneSweep'
  <2>1. /\ lock.by \in {Nobody, s} /\ lock'.by = s /\ lock'.holds = lock.holds + 1
        /\ \A t \in Sweepers \ {s} : sweep'[t] = sweep[t]
    BY <1>0, <1>3 DEF SweepLock, CanLock, Step
  <2>2. QED BY <1>2, <2>1
<1>4. ASSUME NEW s \in Sweepers, SweepEnd(s) PROVE OneSweep'
  <2>1. sweep[s] # IdleSweep /\ lock.by = s
    BY <1>4 DEF SweepEnd, IdleSweep, OneSweep
  <2>2. sweep' = [sweep EXCEPT ![s] = IdleSweep]
    BY <1>4 DEF SweepEnd
  <2>3. \A t \in Sweepers : sweep'[t] = IdleSweep
    BY <1>0, <2>1, <2>2 DEF OneSweep
  <2>4. QED BY <2>3 DEF OneSweep
<1>5. ASSUME NEW s \in Sweepers, SweeperDies(s) PROVE OneSweep'
  <2>1. sweep' = [sweep EXCEPT ![s] = IdleSweep] /\ (lock.by # s => lock' = lock)
    BY <1>5 DEF SweeperDies
  <2>2. ASSUME NEW t \in Sweepers, sweep'[t] # IdleSweep PROVE lock'.by = t /\ lock'.holds > 0
    <3>1. t # s /\ sweep[t] # IdleSweep
      BY <1>0, <2>1, <2>2
    <3>2. QED BY <2>1, <3>1 DEF OneSweep
  <2>3. QED BY <2>2 DEF OneSweep
<1>6. ASSUME NEW s \in Sweepers, SweepStep(s), ~SweepEnd(s) PROVE OneSweep'
  <2>1. UNCHANGED lock /\ sweep[s].pc # "idle"
    BY <1>6 DEF SweepStep, SweepList, ReapBytes, ReapRow, OrphanList, OrphanRemove
  <2>2. sweep[s] # IdleSweep
    BY <2>1 DEF IdleSweep
  <2>3. \A t \in Sweepers \ {s} : sweep'[t] = sweep[t]
    BY <1>0, <1>6 DEF SweepStep, SweepList, ReapBytes, ReapRow, OrphanList, OrphanRemove
  <2>4. QED BY <2>1, <2>2, <2>3 DEF OneSweep
<1>7. CASE \E u \in Uploads : InitUpload(u) \/ SoftDelete(u) \/ RestoreUpload(u) \/ TimePasses(u)
  BY <1>1, <1>7
  DEF InitUpload, SoftDelete, RestoreUpload, TimePasses, ExpireSession, ExpireSlot, PassRetention, AgeDir
<1>8. CASE RequestStep \/ RequestDies \/ UNCHANGED vars
  BY <1>1, <1>8
  DEF RequestStep, PutClaim, PutWrite, PutMark, ConfirmValidate, ConfirmHash, ConfirmInsert, ConfirmClose,
      RequestDies, vars
<1>9. CASE \E u \in Uploads : (\E p \in Puts : PutBegin(p, u)) \/ \E k \in Confirms : ConfirmBegin(k, u)
  BY <1>1, <1>9 DEF PutBegin, ConfirmBegin
<1>10. QED BY <1>3, <1>4, <1>5, <1>6, <1>7, <1>8, <1>9 DEF Next

LEMMA NextTypeOK == TypeOK /\ Placed /\ OneSweep /\ [Next]_vars => TypeOK' /\ Placed' /\ OneSweep'
<1> SUFFICES ASSUME TypeOK, Placed, OneSweep, [Next]_vars PROVE TypeOK' /\ Placed'
  BY NextOneSweep
<1>1. CASE UNCHANGED vars
  BY <1>1 DEF vars, TypeOK, Placed
<1>2. CASE Next
  BY <1>2, PutTypes, ConfirmTypes, RowTypes, SweepTypes, CrashTypes DEF Next, RequestStep
<1>3. QED BY <1>1, <1>2

\* Every reachable state is well typed, whatever the uploads, the requests and
\* the sweeping workers.
THEOREM TypeCorrect == Spec => []TypeOK
BY InitTypeOK, NextTypeOK, PTL DEF Spec

-----------------------------------------------------------------------------
(* The inductive invariant *)

\* Whoever claims the body slot of u from now on finds it taken, or has no session.
Closed(u) == slot[u] # "free" \/ (session[u] = "gone" /\ \A p \in Puts : ~Claiming(p, u))

\* Nobody is writing the body of u, and nobody ever will.
NoWriter(u) ==
  /\ Closed(u)
  /\ \A p \in Puts : put[p].pc = "write" => put[p].upload # u

Writing(p) == put[p].pc \in {"write", "mark"}

\* The body slot of u admits one writer, and none once the file is there.
SoleWriter(u) ==
  /\ \A p \in Puts : Writing(p) /\ put[p].upload = u => Closed(u)
  /\ \A p, q \in Puts : Writing(p) /\ Writing(q) /\ put[p].upload = u /\ put[q].upload = u => p = q
  /\ disk[u] # Nothing \/ row[u].state # "absent" => NoWriter(u)
  /\ \A k \in Confirms : conf[k].pc \in {"hash", "insert"} /\ conf[k].upload = u => NoWriter(u)

\* So it is as long as the slot has not expired under a claim.
OneWriter == \A u \in Uploads \ lapsed : SoleWriter(u)

\* What confirm has validated, and what it has hashed, is the file, until a sweep
\* removes it.
Confirmed ==
  /\ \A k \in Confirms : conf[k].pc = "hash" =>
       disk[conf[k].upload] \notin Bad \/ conf[k].upload \in lapsed
  /\ \A k \in Confirms : conf[k].pc = "insert" =>
       /\ conf[k].sha \in Contents
       /\ \/ conf[k].sha \notin Bad /\ disk[conf[k].upload] \in {conf[k].sha, Nothing}
          \/ conf[k].upload \in lapsed
  /\ \A u \in Uploads :
       /\ HasRow(u) <=> row[u].sha # Nothing
       /\ row[u].sha # Nothing /\ u \notin lapsed =>
            row[u].sha \in Contents \ Bad /\ disk[u] \in {row[u].sha, Nothing}
       /\ row[u].state = "purged" => disk[u] = Nothing \/ u \in lapsed

\* The session of u is over, and whatever still runs for it is slow.
Expired(u) == session[u] = "gone" /\ (InFlight(u) => u \in slow)

\* A sweep may remove the bytes and the row of u.
MayReap(u) == HasRow(u) /\ Expired(u) /\ (row[u].state = "due" \/ u \in caught)

\* What a sweep has listed may be removed.
Listed ==
  /\ \A p \in Puts : put[p].pc # "idle" => session[put[p].upload] # "none"
  /\ \A u \in Uploads : dir[u] # "none" => session[u] # "none"
  /\ \A u \in Uploads : dir[u] = "old" \/ row[u].state \in {"due", "purged"} => Expired(u)
  /\ \A s \in Sweepers : \A u \in sweep[s].dirs : Expired(u) /\ (Owned(u) => u \in slow)
  /\ \A s \in Sweepers : \A u \in sweep[s].rows : MayReap(u)
  /\ \A s \in Sweepers : sweep[s].pc = "drop" =>
       /\ disk[sweep[s].at] = Nothing \/ sweep[s].at \in lapsed
       /\ MayReap(sweep[s].at) /\ sweep[s].at \notin sweep[s].rows

\* A file that was hashed, or that a live row points to, is still there.
Kept ==
  /\ \A k \in Confirms : conf[k].pc \in {"hash", "insert"} =>
       \/ row[conf[k].upload].state # "absent"
       \/ disk[conf[k].upload] # Nothing
       \/ conf[k].upload \in slow \union lapsed
  /\ \A u \in Uploads : row[u].state = "live" => disk[u] # Nothing \/ u \in caught \union slow \union lapsed

IInv == TypeOK /\ Placed /\ OneSweep /\ OneWriter /\ Confirmed /\ Listed /\ Kept

LEMMA InitIInv == Init => IInv
<1> SUFFICES ASSUME Init PROVE IInv
  OBVIOUS
<1> USE DEF Init, IdlePut, IdleConf, IdleSweep, NoRow
<1>1. OneWriter
  BY DEF OneWriter, SoleWriter, NoWriter, Closed, Writing
<1>2. Confirmed
  BY DEF Confirmed, HasRow
<1>3. Listed
  BY DEF Listed
<1>4. Kept
  BY DEF Kept
<1>5. QED BY InitTypeOK, <1>1, <1>2, <1>3, <1>4 DEF IInv

-----------------------------------------------------------------------------
(* What each step does to the tables *)

LEMMA NextLapsed == [Next]_vars => lapsed \subseteq lapsed'
<1> SUFFICES ASSUME [Next]_vars PROVE lapsed \subseteq lapsed'
  OBVIOUS
<1>1. ASSUME NEW u \in Uploads, InitUpload(u) \/ SoftDelete(u) \/ RestoreUpload(u) \/ TimePasses(u)
      PROVE  lapsed \subseteq lapsed'
  BY <1>1
  DEF InitUpload, SoftDelete, RestoreUpload, TimePasses, ExpireSession, ExpireSlot, PassRetention, AgeDir
<1>2. ASSUME NEW s \in Sweepers, SweepLock(s) \/ SweepStep(s) \/ SweeperDies(s)
      PROVE  lapsed \subseteq lapsed'
  BY <1>2
  DEF SweepStep, SweepLock, SweepList, ReapBytes, ReapRow, OrphanList, OrphanRemove, SweepEnd, SweeperDies
<1>3. CASE RequestDies \/ UNCHANGED vars
  BY <1>3 DEF RequestDies, vars
<1>4. CASE \/ \E p \in Puts, u \in Uploads : PutBegin(p, u)
           \/ \E p \in Puts : PutClaim(p) \/ PutWrite(p) \/ PutMark(p)
           \/ \E k \in Confirms, u \in Uploads : ConfirmBegin(k, u)
           \/ \E k \in Confirms : ConfirmValidate(k) \/ ConfirmHash(k) \/ ConfirmInsert(k) \/ ConfirmClose(k)
  BY <1>4
  DEF PutBegin, PutClaim, PutWrite, PutMark, ConfirmBegin, ConfirmValidate, ConfirmHash, ConfirmInsert,
      ConfirmClose
<1>5. QED BY <1>1, <1>2, <1>3, <1>4 DEF Next, RequestStep

\* The body of an upload is written by the one PUT that holds its slot.
LEMMA WriterStep ==
  ASSUME IInv, NEW p \in Puts, put[p].pc = "write"
  PROVE  /\ put[p].upload \in Uploads
         /\ put[p].upload \notin lapsed =>
              /\ disk[put[p].upload] = Nothing /\ row[put[p].upload].state = "absent"
              /\ \A k \in Confirms : conf[k].pc \in {"hash", "insert"} => conf[k].upload # put[p].upload
BY DEF IInv, Placed, OneWriter, SoleWriter, NoWriter

\* A sweep removes nothing but what it may, and drops the row at hand.
Removable(s, u) ==
  \/ sweep[s].pc = "reap" /\ u \in sweep[s].rows
  \/ sweep[s].pc = "orphans" /\ u \in sweep[s].dirs

LEMMA SweepEffects ==
  ASSUME IInv, NEW s \in Sweepers, SweepLock(s) \/ SweepStep(s) \/ SweeperDies(s)
  PROVE  /\ UNCHANGED <<session, slot, put, conf, caught, slow, lapsed>>
         /\ \/ UNCHANGED <<disk, dir>>
            \/ \E u \in Uploads : /\ Removable(s, u)
                                  /\ disk' = [disk EXCEPT ![u] = Nothing]
                                  /\ dir' = [dir EXCEPT ![u] = "none"]
         /\ \/ UNCHANGED row
            \/ /\ sweep[s].pc = "drop"
               /\ row' = [row EXCEPT ![sweep[s].at] = [state |-> "purged", sha |-> Nothing]]
<1>1. CASE ReapBytes(s)
  <2>1. PICK u \in sweep[s].rows :
          \/ disk' = [disk EXCEPT ![u] = Nothing] /\ dir' = [dir EXCEPT ![u] = "none"]
          \/ UNCHANGED <<disk, dir>>
    BY <1>1 DEF ReapBytes
  <2>2. u \in Uploads /\ Removable(s, u)
    <3>1. sweep[s].rows \subseteq Uploads
      BY TypeParts DEF IInv, SweepType
    <3>2. sweep[s].pc = "reap"
      BY <1>1 DEF ReapBytes
    <3>3. u \in sweep[s].rows
      BY <2>1
    <3>4. QED BY <3>1, <3>2, <3>3 DEF Removable
  <2>3. QED BY <1>1, <2>1, <2>2 DEF ReapBytes
<1>2. CASE OrphanRemove(s)
  BY <1>2 DEF OrphanRemove, Removable, IInv, TypeOK
<1>3. QED BY <1>1, <1>2
      DEF SweepStep, SweepLock, SweepList, ReapRow, OrphanList, SweepEnd, SweeperDies

\* The row of an upload is tombstoned, restored or due: it keeps its hash.
RowEdit(u) ==
  \E state \in {"live", "deleted", "due"} :
    /\ row[u].state \in {"live", "deleted", "due"}
    /\ row' = [row EXCEPT ![u].state = state]
    /\ state = "live" => u \in Tombstones

LEMMA UploadEffects ==
  ASSUME IInv, NEW u \in Uploads,
         InitUpload(u) \/ SoftDelete(u) \/ RestoreUpload(u) \/ TimePasses(u)
  PROVE  UNCHANGED <<disk, put, conf, sweep>> /\ (UNCHANGED row \/ RowEdit(u))
BY DEF InitUpload, SoftDelete, RestoreUpload, TimePasses, ExpireSession, ExpireSlot, PassRetention, AgeDir,
       SetRow, Tombstones, RowEdit

LEMMA RequestDiesEffects ==
  ASSUME IInv, RequestDies
  PROVE  /\ UNCHANGED <<session, slot, disk, dir, row, sweep, caught, slow, lapsed>>
         /\ \A p \in Puts : put'[p] = put[p] \/ put'[p] = IdlePut
         /\ \A k \in Confirms : conf'[k] = conf[k] \/ conf'[k] = IdleConf
BY DEF RequestDies, ConfirmEnds, IInv, TypeOK

LEMMA NextOneWriter == IInv /\ [Next]_vars => OneWriter'
<1> SUFFICES ASSUME IInv, [Next]_vars, NEW u \in Uploads, u \notin lapsed' PROVE SoleWriter(u)'
  BY DEF OneWriter
<1>0. TypeOK /\ Placed /\ SoleWriter(u)
  BY NextLapsed DEF IInv, OneWriter
<1>a. /\ put \in [Puts -> PutType] /\ conf \in [Confirms -> ConfType]
      /\ slot \in [Uploads -> {"free", "writing", "done"}] /\ disk \in [Uploads -> Bytes]
      /\ session \in [Uploads -> {"none", "live", "gone"}]
  BY <1>0, TypeParts
<1>b. \A q \in Puts : \A v : Claiming(q, v)' <=> put'[q].pc = "claim" /\ put'[q].upload = v
  BY DEF Claiming
<1>c. ASSUME slot[u] # "free" => slot'[u] # "free",
             session[u] = "gone" => session'[u] = "gone",
             \A q \in Puts : Claiming(q, u)' => Claiming(q, u)
      PROVE  Closed(u) => Closed(u)'
  BY <1>c DEF Closed
<1>d. ASSUME Closed(u) => Closed(u)',
             \A q \in Puts : Writing(q)' /\ put'[q].upload = u =>
               put[q].upload = u /\ put'[q].pc = put[q].pc,
             disk'[u] # Nothing \/ row'[u].state # "absent" => NoWriter(u),
             \A k \in Confirms : conf'[k].pc \in {"hash", "insert"} /\ conf'[k].upload = u => NoWriter(u)
      PROVE  SoleWriter(u)'
  <2>1. NoWriter(u) => NoWriter(u)'
    BY <1>d DEF NoWriter, Writing
  <2>2. \A q \in Puts : Writing(q)' /\ put'[q].upload = u => Writing(q) /\ put[q].upload = u
    BY <1>d DEF Writing
  <2>3. QED BY <1>0, <1>d, <2>1, <2>2 DEF SoleWriter
<1>e. ASSUME UNCHANGED <<disk, row, conf>>,
             Closed(u) => Closed(u)',
             \A q \in Puts : Writing(q)' /\ put'[q].upload = u =>
               put[q].upload = u /\ put'[q].pc = put[q].pc
      PROVE  SoleWriter(u)'
  BY <1>0, <1>d, <1>e DEF SoleWriter
<1>1. ASSUME NEW p \in Puts, PutClaim(p) PROVE SoleWriter(u)'
  <2>1. UNCHANGED <<session, disk, row, conf>>
    BY <1>1 DEF PutClaim
  <2>2. CASE SlotFree(put[p].upload) /\ put[p].upload = u
    <3>1. /\ slot[u] = "free" /\ Claiming(p, u)
          /\ slot' = [slot EXCEPT ![u] = "writing"]
          /\ put' = [put EXCEPT ![p] = [put[p] EXCEPT !.pc = "write"]]
      BY <1>1, <2>2 DEF PutClaim, SlotFree, Claiming
    <3>2. ~Closed(u)
      BY <3>1 DEF Closed
    <3>3. /\ \A q \in Puts : ~(Writing(q) /\ put[q].upload = u)
          /\ disk[u] = Nothing /\ row[u].state = "absent"
          /\ \A k \in Confirms : ~(conf[k].pc \in {"hash", "insert"} /\ conf[k].upload = u)
      BY <1>0, <3>2 DEF SoleWriter, NoWriter
    <3>4. Closed(u)'
      BY <1>a, <3>1 DEF Closed
    <3>5. \A q \in Puts : q # p => put'[q] = put[q]
      BY <1>a, <3>1
    <3>6. \A q \in Puts : Writing(q)' /\ put'[q].upload = u => q = p
      BY <3>3, <3>5 DEF Writing
    <3>7. QED BY <2>1, <3>3, <3>4, <3>6 DEF SoleWriter
  <2>3. CASE SlotFree(put[p].upload) /\ put[p].upload # u
    <3>1. /\ \A q \in Puts : put'[q] = put[q] \/ put'[q].upload # u
          /\ slot'[u] = slot[u]
      BY <1>1, <1>a, <2>3 DEF PutClaim, PutType
    <3>2. Closed(u) => Closed(u)'
      BY <1>b, <1>c, <2>1, <3>1 DEF Claiming
    <3>3. QED BY <1>e, <2>1, <3>1, <3>2
  <2>4. CASE ~SlotFree(put[p].upload)
    <3>1. UNCHANGED slot /\ \A q \in Puts : put'[q] = put[q] \/ put'[q] = IdlePut
      BY <1>1, <1>a, <2>4 DEF PutClaim
    <3>2. Closed(u) => Closed(u)'
      BY <1>b, <1>c, <2>1, <3>1 DEF Claiming, IdlePut
    <3>3. QED BY <1>e, <2>1, <3>1, <3>2 DEF Writing, IdlePut
  <2>5. QED BY <2>2, <2>3, <2>4
<1>2. ASSUME NEW p \in Puts, PutWrite(p) PROVE SoleWriter(u)'
  <2>1. UNCHANGED <<session, row, conf>> /\ put[p].pc = "write"
    BY <1>2 DEF PutWrite
  <2>2. \/ put' = [put EXCEPT ![p] = [put[p] EXCEPT !.pc = "mark"]] /\ UNCHANGED slot
        \/ put' = [put EXCEPT ![p] = IdlePut] /\ UNCHANGED disk
    BY <1>2 DEF PutWrite
  <2>3. \A q \in Puts : q # p => put'[q] = put[q]
    BY <1>a, <2>2
  <2>4. CASE put[p].upload = u
    <3>1. Writing(p) /\ ~NoWriter(u)
      BY <2>1, <2>4 DEF Writing, NoWriter
    <3>2. /\ Closed(u)
          /\ \A q \in Puts : Writing(q) /\ put[q].upload = u => q = p
          /\ disk[u] = Nothing /\ row[u].state = "absent"
          /\ \A k \in Confirms : ~(conf[k].pc \in {"hash", "insert"} /\ conf[k].upload = u)
      BY <1>0, <2>4, <3>1 DEF SoleWriter
    <3>3. \A q \in Puts : Writing(q)' /\ put'[q].upload = u => q = p
      BY <2>3, <3>2 DEF Writing
    <3>4. CASE put' = [put EXCEPT ![p] = [put[p] EXCEPT !.pc = "mark"]] /\ UNCHANGED slot
      <4>1. put'[p].pc = "mark"
        BY <1>a, <3>4 DEF PutType
      <4>2. Closed(u)'
        BY <1>b, <1>c, <2>1, <2>3, <3>2, <3>4, <4>1 DEF Claiming
      <4>3. \A q \in Puts : ~(put'[q].pc = "write" /\ put'[q].upload = u)
        BY <3>3, <4>1 DEF Writing
      <4>4. NoWriter(u)'
        BY <4>2, <4>3 DEF NoWriter
      <4>5. QED BY <3>3, <4>2, <4>4 DEF SoleWriter
    <3>5. CASE put' = [put EXCEPT ![p] = IdlePut] /\ UNCHANGED disk
      <4>1. put'[p] = IdlePut
        BY <1>a, <3>5
      <4>2. \A q \in Puts : ~(Writing(q)' /\ put'[q].upload = u)
        BY <3>3, <4>1 DEF Writing, IdlePut
      <4>3. QED BY <2>1, <3>2, <3>5, <4>2 DEF SoleWriter
    <3>6. QED BY <2>2, <3>4, <3>5
  <2>5. CASE put[p].upload # u
    <3>1. disk'[u] = disk[u] /\ slot'[u] = slot[u]
      BY <1>2, <1>a, <2>5 DEF PutWrite
    <3>2. \A q \in Puts : put'[q] = put[q] \/ put'[q].upload # u \/ put'[q] = IdlePut
      BY <1>a, <2>2, <2>5 DEF PutType
    <3>3. Closed(u) => Closed(u)'
      BY <1>b, <1>c, <2>1, <3>1, <3>2 DEF Claiming, IdlePut
    <3>4. \A q \in Puts : Writing(q)' /\ put'[q].upload = u =>
            put[q].upload = u /\ put'[q].pc = put[q].pc
      BY <3>2 DEF Writing, IdlePut
    <3>5. QED BY <1>0, <1>d, <2>1, <3>1, <3>3, <3>4 DEF SoleWriter
  <2>6. QED BY <2>4, <2>5
<1>3. ASSUME NEW p \in Puts, PutMark(p) PROVE SoleWriter(u)'
  <2>1. UNCHANGED <<session, disk, row, conf>> /\ (slot[u] # "free" => slot'[u] # "free")
    BY <1>3, <1>a DEF PutMark
  <2>2. \A q \in Puts : put'[q] = put[q] \/ put'[q] = IdlePut
    BY <1>3, <1>a DEF PutMark
  <2>3. Closed(u) => Closed(u)'
    BY <1>b, <1>c, <2>1, <2>2 DEF Claiming, IdlePut
  <2>4. QED BY <1>e, <2>1, <2>2, <2>3 DEF Writing, IdlePut
<1>4. ASSUME NEW p \in Puts, NEW v \in Uploads, PutBegin(p, v) PROVE SoleWriter(u)'
  <2>1. /\ UNCHANGED <<session, slot, disk, row, conf>> /\ session[v] = "live"
        /\ \A q \in Puts : put'[q] = put[q] \/ put'[q] = [pc |-> "claim", upload |-> v]
    BY <1>4, <1>a DEF PutBegin
  <2>2. Closed(u) => Closed(u)'
    BY <1>b, <2>1 DEF Closed, Claiming
  <2>3. QED BY <1>e, <2>1, <2>2 DEF Writing
<1>5. ASSUME NEW k \in Confirms,
             \/ \E v \in Uploads : ConfirmBegin(k, v)
             \/ ConfirmValidate(k) \/ ConfirmHash(k) \/ ConfirmInsert(k) \/ ConfirmClose(k)
      PROVE  SoleWriter(u)'
  <2>1. /\ UNCHANGED <<slot, put>>
        /\ UNCHANGED session \/ session' = [session EXCEPT ![conf[k].upload] = "gone"]
    BY <1>5 DEF ConfirmBegin, ConfirmValidate, ConfirmHash, ConfirmInsert, ConfirmClose
  <2>2. Closed(u) => Closed(u)'
    BY <1>a, <1>c, <2>1 DEF Claiming
  <2>3. \A l \in Confirms : conf'[l].pc \in {"hash", "insert"} /\ conf'[l].upload = u => NoWriter(u)
    <3>1. CASE \E v \in Uploads : ConfirmBegin(k, v)
      BY <1>0, <1>a, <3>1 DEF ConfirmBegin, SoleWriter, IdleConf
    <3>2. CASE ConfirmValidate(k)
      <4>1. disk[conf[k].upload] \in Contents \ Bad /\ conf[k].upload = u => NoWriter(u)
        BY <1>0, ReaperAssumption DEF ReaperAssumption, SoleWriter
      <4>2. QED BY <1>0, <1>a, <3>2, <4>1 DEF ConfirmValidate, ConfirmEnds, SoleWriter, IdleConf, ConfType
    <3>3. CASE ConfirmHash(k)
      BY <1>0, <1>a, <3>3 DEF ConfirmHash, ConfirmEnds, SoleWriter, IdleConf, ConfType
    <3>4. CASE ConfirmInsert(k) \/ ConfirmClose(k)
      BY <1>0, <1>a, <3>4 DEF ConfirmInsert, ConfirmClose, ConfirmEnds, SoleWriter, IdleConf, ConfType
    <3>5. QED BY <1>5, <3>1, <3>2, <3>3, <3>4
  <2>4. disk'[u] # Nothing => NoWriter(u)
    <3>1. UNCHANGED disk \/ disk' = [disk EXCEPT ![conf[k].upload] = Nothing]
      BY <1>5 DEF ConfirmBegin, ConfirmValidate, ConfirmHash, ConfirmInsert, ConfirmClose
    <3>2. QED BY <1>0, <1>a, <3>1 DEF SoleWriter
  <2>5. row'[u].state # "absent" => NoWriter(u)
    <3>1. UNCHANGED row \/ (conf[k].pc = "insert" /\ \A v \in Uploads \ {conf[k].upload} : row'[v] = row[v])
      BY <1>0, <1>5 DEF ConfirmBegin, ConfirmValidate, ConfirmHash, ConfirmInsert, ConfirmClose, TypeOK
    <3>2. QED BY <1>0, <3>1 DEF SoleWriter
  <2>6. QED BY <1>d, <2>1, <2>2, <2>3, <2>4, <2>5 DEF Writing
<1>6. CASE RequestDies
  <2>1. /\ UNCHANGED <<session, slot, disk, row>>
        /\ \A p \in Puts : put'[p] = put[p] \/ put'[p] = IdlePut
        /\ \A k \in Confirms : conf'[k] = conf[k] \/ conf'[k] = IdleConf
    BY <1>6, RequestDiesEffects
  <2>2. Closed(u) => Closed(u)'
    BY <1>b, <1>c, <2>1 DEF Claiming, IdlePut
  <2>3. \A k \in Confirms : conf'[k].pc \in {"hash", "insert"} /\ conf'[k].upload = u => NoWriter(u)
    BY <1>0, <2>1 DEF SoleWriter, IdleConf
  <2>4. QED BY <1>0, <1>d, <2>1, <2>2, <2>3 DEF SoleWriter, Writing, IdlePut
<1>7. ASSUME UNCHANGED <<put, conf>>, Closed(u) => Closed(u)',
             disk'[u] \in {disk[u], Nothing},
             row'[u].state # "absent" => row[u].state # "absent"
      PROVE  SoleWriter(u)'
  BY <1>0, <1>d, <1>7 DEF SoleWriter, Writing
<1>8. ASSUME NEW v \in Uploads, InitUpload(v) \/ SoftDelete(v) \/ RestoreUpload(v) \/ TimePasses(v)
      PROVE  SoleWriter(u)'
  <2>1. UNCHANGED <<disk, put, conf>> /\ (UNCHANGED row \/ RowEdit(v))
    BY <1>8, UploadEffects
  <2>2. row'[u].state # "absent" => row[u].state # "absent"
    BY <1>0, <2>1 DEF RowEdit, TypeOK
  <2>3. Closed(u) => Closed(u)'
    <3>1. CASE ExpireSlot(v) /\ v = u
      <4>1. \A q \in Puts : ~Claiming(q, u)
        BY <3>1 DEF ExpireSlot
      <4>2. session'[u] = "gone"
        BY <3>1 DEF ExpireSlot
      <4>3. QED BY <2>1, <4>1, <4>2 DEF Closed, Claiming
    <3>2. CASE ~(ExpireSlot(v) /\ v = u)
      <4>1. slot'[u] = slot[u]
        BY <1>8, <1>a, <3>2
        DEF InitUpload, SoftDelete, RestoreUpload, TimePasses, ExpireSession, ExpireSlot, PassRetention, AgeDir
      <4>2. session[u] = "gone" => session'[u] = "gone"
        BY <1>8, <1>a
        DEF InitUpload, SoftDelete, RestoreUpload, TimePasses, ExpireSession, ExpireSlot, PassRetention, AgeDir
      <4>3. QED BY <1>c, <2>1, <4>1, <4>2 DEF Claiming
    <3>3. QED BY <3>1, <3>2
  <2>4. QED BY <1>7, <2>1, <2>2, <2>3
<1>9. ASSUME NEW s \in Sweepers, SweepLock(s) \/ SweepStep(s) \/ SweeperDies(s)
      PROVE  SoleWriter(u)'
  <2>1. UNCHANGED <<session, slot, put, conf>> /\ disk'[u] \in {disk[u], Nothing}
    BY <1>9, <1>a, SweepEffects
  <2>2. row'[u].state # "absent" => row[u].state # "absent"
    <3>1. CASE UNCHANGED row
      BY <3>1
    <3>2. CASE /\ sweep[s].pc = "drop"
               /\ row' = [row EXCEPT ![sweep[s].at] = [state |-> "purged", sha |-> Nothing]]
      BY <1>0, <3>2 DEF IInv, Listed, MayReap, HasRow, TypeOK
    <3>3. QED BY <1>9, <3>1, <3>2, SweepEffects
  <2>3. Closed(u) => Closed(u)'
    BY <1>c, <2>1 DEF Claiming
  <2>4. QED BY <1>7, <2>1, <2>2, <2>3
<1>10. CASE UNCHANGED vars
  BY <1>c, <1>7, <1>10 DEF vars, Claiming
<1>11. QED BY <1>1, <1>2, <1>3, <1>4, <1>5, <1>6, <1>8, <1>9, <1>10 DEF Next, RequestStep

LEMMA NextConfirmed == IInv /\ [Next]_vars => Confirmed'
<1> SUFFICES ASSUME IInv, [Next]_vars PROVE Confirmed'
  OBVIOUS
<1>0. TypeOK /\ Placed /\ Confirmed /\ Listed /\ lapsed \subseteq lapsed'
  BY NextLapsed DEF IInv
<1>a. Nothing \notin Contents /\ Nothing \notin Bad
  BY ReaperAssumption DEF ReaperAssumption
<1>1. ASSUME \A k \in Confirms : conf'[k] = conf[k] \/ conf'[k].pc \notin {"hash", "insert"},
             \A u \in Uploads : disk'[u] \in {disk[u], Nothing},
             UNCHANGED row
      PROVE  Confirmed'
  <2>1. \A k \in Confirms : conf'[k].pc = "hash" =>
          disk'[conf'[k].upload] \notin Bad \/ conf'[k].upload \in lapsed'
    BY <1>0, <1>a, <1>1 DEF Confirmed, Placed
  <2>2. \A k \in Confirms : conf'[k].pc = "insert" =>
          /\ conf'[k].sha \in Contents
          /\ \/ conf'[k].sha \notin Bad /\ disk'[conf'[k].upload] \in {conf'[k].sha, Nothing}
             \/ conf'[k].upload \in lapsed'
    BY <1>0, <1>a, <1>1 DEF Confirmed, Placed
  <2>3. QED BY <1>0, <1>1, <2>1, <2>2 DEF Confirmed, HasRow
<1>2. ASSUME NEW p \in Puts, PutWrite(p) PROVE Confirmed'
  <2>1. PICK u \in Uploads : u = put[p].upload /\ put[p].pc = "write"
    BY <1>0, <1>2 DEF PutWrite, Placed
  <2>2. UNCHANGED <<row, conf>> /\ \A v \in Uploads \ {u} : disk'[v] = disk[v]
    BY <1>0, <1>2, <2>1 DEF PutWrite, TypeOK
  <2>3. u \notin lapsed =>
          /\ row[u].state = "absent"
          /\ \A k \in Confirms : conf[k].pc \in {"hash", "insert"} => conf[k].upload # u
    BY <2>1, WriterStep
  <2>4. \A k \in Confirms : conf[k].pc \in {"hash", "insert"} => conf[k].upload \in Uploads
    BY <1>0 DEF Placed
  <2>5. \A v \in Uploads : HasRow(v)' <=> HasRow(v)
    BY <2>2 DEF HasRow
  <2>6. \A k \in Confirms : conf[k].pc \in {"hash", "insert"} =>
          conf[k].upload \in lapsed' \/ disk'[conf[k].upload] = disk[conf[k].upload]
    BY <1>0, <2>2, <2>3, <2>4
  <2>7. \A v \in Uploads : row[v].state # "absent" => v \in lapsed' \/ disk'[v] = disk[v]
    BY <1>0, <2>2, <2>3
  <2>8. \A v \in Uploads : HasRow(v) => row[v].state # "absent"
    BY DEF HasRow
  <2>9. QED BY <1>0, <2>2, <2>5, <2>6, <2>7, <2>8 DEF Confirmed
<1>3. ASSUME NEW p \in Puts,
             PutClaim(p) \/ PutMark(p) \/ \E u \in Uploads : PutBegin(p, u)
      PROVE  Confirmed'
  BY <1>1, <1>3 DEF PutClaim, PutMark, PutBegin
<1>4. ASSUME NEW k \in Confirms, NEW u \in Uploads, ConfirmBegin(k, u) PROVE Confirmed'
  BY <1>0, <1>1, <1>4 DEF ConfirmBegin, TypeOK
<1>5. ASSUME NEW k \in Confirms,
             ConfirmValidate(k) \/ ConfirmHash(k) \/ ConfirmInsert(k) \/ ConfirmClose(k)
      PROVE  Confirmed'
  <2>1. PICK u \in Uploads : u = conf[k].upload
    BY <1>0, <1>5 DEF ConfirmValidate, ConfirmHash, ConfirmInsert, ConfirmClose, Placed
  <2>0. conf \in [Confirms -> ConfType]
    BY <1>0, TypeParts
  <2>2. CASE ConfirmValidate(k)
    <3>1. CASE disk[u] \in Contents \ Bad
      <4>1. conf' = [conf EXCEPT ![k] = [conf[k] EXCEPT !.pc = "hash"]] /\ UNCHANGED <<disk, row>>
        BY <2>0, <2>1, <2>2, <3>1 DEF ConfirmValidate
      <4>2. conf'[k].pc = "hash" /\ conf'[k].upload = u /\ \A l \in Confirms \ {k} : conf'[l] = conf[l]
        BY <2>0, <2>1, <4>1 DEF ConfType
      <4>3. QED BY <1>0, <3>1, <4>1, <4>2 DEF Confirmed, HasRow
    <3>2. CASE disk[u] \notin Contents \ Bad
      BY <1>0, <1>1, <2>1, <2>2, <3>2 DEF ConfirmValidate, ConfirmEnds, TypeOK, IdleConf
    <3>3. QED BY <3>1, <3>2
  <2>3. CASE ConfirmHash(k)
    <3>1. CASE disk[u] # Nothing
      <4>1. conf' = [conf EXCEPT ![k] = [conf[k] EXCEPT !.pc = "insert", !.sha = disk[u]]] /\ UNCHANGED <<disk, row>>
        BY <2>0, <2>1, <2>3, <3>1 DEF ConfirmHash
      <4>2. /\ conf'[k].pc = "insert" /\ conf'[k].upload = u /\ conf'[k].sha = disk[u]
            /\ \A l \in Confirms \ {k} : conf'[l] = conf[l]
        BY <2>0, <2>1, <4>1 DEF ConfType
      <4>3. disk[u] \in Contents /\ (disk[u] \notin Bad \/ u \in lapsed)
        BY <1>0, <2>1, <2>3, <3>1 DEF Confirmed, ConfirmHash, TypeOK, Bytes
      <4>4. QED BY <1>0, <4>1, <4>2, <4>3 DEF Confirmed, HasRow
    <3>2. CASE disk[u] = Nothing
      BY <1>0, <1>1, <2>1, <2>3, <3>2 DEF ConfirmHash, ConfirmEnds, TypeOK, IdleConf
    <3>3. QED BY <3>1, <3>2
  <2>4. CASE ConfirmInsert(k)
    <3>1. CASE ~HasRow(u)
      <4>1. /\ row'[u] = [state |-> "live", sha |-> conf[k].sha]
            /\ \A v \in Uploads \ {u} : row'[v] = row[v]
            /\ UNCHANGED disk
            /\ conf[k].pc = "insert"
        BY <1>0, <2>1, <2>4, <3>1 DEF ConfirmInsert, TypeOK
      <4>2. \A l \in Confirms : conf'[l].pc \in {"hash", "insert"} => conf'[l] = conf[l]
        BY <2>0, <2>1, <2>4, <3>1 DEF ConfirmInsert, ConfType
      <4>3. /\ conf[k].sha \in Contents
            /\ (conf[k].sha \notin Bad /\ disk[u] \in {conf[k].sha, Nothing}) \/ u \in lapsed
        BY <1>0, <2>1, <4>1 DEF Confirmed
      <4>4. HasRow(u)' /\ row'[u].sha = conf[k].sha /\ row'[u].state = "live"
        BY <4>1 DEF HasRow
      <4>5. \A v \in Uploads \ {u} : HasRow(v)' <=> HasRow(v)
        BY <4>1 DEF HasRow
      <4>6. QED BY <1>0, <1>a, <4>1, <4>2, <4>3, <4>4, <4>5 DEF Confirmed
    <3>2. CASE HasRow(u)
      BY <1>0, <1>1, <2>1, <2>4, <3>2 DEF ConfirmInsert, ConfirmEnds, TypeOK, IdleConf
    <3>3. QED BY <3>1, <3>2
  <2>5. CASE ConfirmClose(k)
    BY <1>0, <1>1, <2>5 DEF ConfirmClose, ConfirmEnds, TypeOK, IdleConf
  <2>6. QED BY <1>5, <2>2, <2>3, <2>4, <2>5
<1>6. CASE RequestDies
  BY <1>1, <1>6, RequestDiesEffects DEF IdleConf
<1>7. ASSUME NEW u \in Uploads, InitUpload(u) \/ SoftDelete(u) \/ RestoreUpload(u) \/ TimePasses(u)
      PROVE  Confirmed'
  <2>1. UNCHANGED <<disk, conf>> /\ (UNCHANGED row \/ RowEdit(u))
    BY <1>7, UploadEffects
  <2>2. CASE RowEdit(u)
    <3>1. /\ row[u].state \in {"live", "deleted", "due"}
          /\ row'[u].state \in {"live", "deleted", "due"} /\ row'[u].sha = row[u].sha
          /\ \A v \in Uploads \ {u} : row'[v] = row[v]
      BY <1>0, <2>2 DEF RowEdit, TypeOK
    <3>2. QED BY <1>0, <2>1, <3>1 DEF Confirmed, HasRow
  <2>3. QED BY <1>1, <2>1, <2>2
<1>8. ASSUME NEW s \in Sweepers, SweepLock(s) \/ SweepStep(s) \/ SweeperDies(s) PROVE Confirmed'
  <2>1. UNCHANGED conf /\ \A u \in Uploads : disk'[u] \in {disk[u], Nothing}
    BY <1>0, <1>8, SweepEffects DEF TypeOK
  <2>2. CASE UNCHANGED row
    BY <1>1, <2>1, <2>2
  <2>3. CASE sweep[s].pc = "drop" /\ row' = [row EXCEPT ![sweep[s].at] = [state |-> "purged", sha |-> Nothing]]
    <3>1. PICK u \in Uploads : u = sweep[s].at /\ (disk[u] = Nothing \/ u \in lapsed)
      BY <1>0, <2>3 DEF Placed, Listed
    <3>2. row'[u] = [state |-> "purged", sha |-> Nothing] /\ \A v \in Uploads \ {u} : row'[v] = row[v]
      BY <1>0, <2>3, <3>1 DEF TypeOK
    <3>3. \A k \in Confirms : conf[k].pc \in {"hash", "insert"} => conf[k].upload \in Uploads
      BY <1>0 DEF Placed
    <3>4. ~HasRow(u)' /\ \A v \in Uploads \ {u} : HasRow(v)' <=> HasRow(v)
      BY <3>2 DEF HasRow
    <3>5. QED BY <1>0, <1>a, <2>1, <3>1, <3>2, <3>3, <3>4 DEF Confirmed
  <2>4. QED BY <1>8, <2>2, <2>3, SweepEffects
<1>9. CASE UNCHANGED vars
  BY <1>1, <1>9 DEF vars
<1>10. QED BY <1>2, <1>3, <1>4, <1>5, <1>6, <1>7, <1>8, <1>9 DEF Next, RequestStep

\* Histories grow, a session that is over stays over, and no request begins
\* without a session.
Onward ==
  /\ slow \subseteq slow' /\ caught \subseteq caught' /\ lapsed \subseteq lapsed'
  /\ \A u \in Uploads :
       /\ session[u] = "gone" => session'[u] = "gone"
       /\ session[u] # "none" => session'[u] # "none"
       /\ InFlight(u)' => InFlight(u) \/ session[u] = "live"

LEMMA NextOnward == IInv /\ [Next]_vars => Onward
<1> SUFFICES ASSUME IInv, [Next]_vars PROVE Onward
  OBVIOUS
<1>0. TypeOK /\ Placed /\ lapsed \subseteq lapsed'
  BY NextLapsed DEF IInv
<1>a. put \in [Puts -> PutType] /\ conf \in [Confirms -> ConfType]
  BY <1>0, TypeParts
<1>b. Nothing \notin Uploads
  BY ReaperAssumption DEF ReaperAssumption
<1>1. ASSUME \A p \in Puts : put'[p].upload \in {put[p].upload, Nothing},
             \A k \in Confirms : conf'[k].upload \in {conf[k].upload, Nothing}
      PROVE  \A u \in Uploads : InFlight(u)' => InFlight(u)
  BY <1>b, <1>1 DEF InFlight
<1>2. ASSUME NEW p \in Puts, NEW u \in Uploads, PutBegin(p, u) PROVE Onward
  BY <1>0, <1>a, <1>2 DEF PutBegin, Onward, InFlight
<1>3. ASSUME NEW k \in Confirms, NEW u \in Uploads, ConfirmBegin(k, u) PROVE Onward
  BY <1>0, <1>a, <1>3 DEF ConfirmBegin, Onward, InFlight, IdleConf
<1>4. ASSUME NEW p \in Puts, PutClaim(p) \/ PutWrite(p) \/ PutMark(p) PROVE Onward
  <2>1. \A q \in Puts : put'[q].upload \in {put[q].upload, Nothing}
    BY <1>a, <1>4 DEF PutClaim, PutWrite, PutMark, PutType, IdlePut
  <2>2. UNCHANGED <<session, conf, slow, caught>>
    BY <1>4 DEF PutClaim, PutWrite, PutMark
  <2>3. QED BY <1>0, <1>1, <2>1, <2>2 DEF Onward
<1>5. ASSUME NEW k \in Confirms,
             ConfirmValidate(k) \/ ConfirmHash(k) \/ ConfirmInsert(k) \/ ConfirmClose(k)
      PROVE  Onward
  <2>1. \A l \in Confirms : conf'[l].upload \in {conf[l].upload, Nothing}
    <3>1. CASE ConfirmValidate(k) \/ ConfirmHash(k)
      BY <1>a, <3>1 DEF ConfirmValidate, ConfirmHash, ConfirmEnds, ConfType, IdleConf
    <3>2. CASE ConfirmInsert(k) \/ ConfirmClose(k)
      BY <1>a, <3>2 DEF ConfirmInsert, ConfirmClose, ConfirmEnds, ConfType, IdleConf
    <3>3. QED BY <1>5, <3>1, <3>2
  <2>2. /\ UNCHANGED session \/ session' = [session EXCEPT ![conf[k].upload] = "gone"]
        /\ UNCHANGED <<put, slow, caught>>
    BY <1>5 DEF ConfirmValidate, ConfirmHash, ConfirmInsert, ConfirmClose
  <2>3. QED BY <1>0, <1>1, <2>1, <2>2 DEF Onward, TypeOK
<1>6. CASE RequestDies
  BY <1>0, <1>1, <1>6, RequestDiesEffects DEF Onward, IdlePut, IdleConf
<1>7. ASSUME NEW u \in Uploads, InitUpload(u) \/ SoftDelete(u) \/ RestoreUpload(u) \/ TimePasses(u)
      PROVE  Onward
  <2>1. \A v \in Uploads : InFlight(v)' => InFlight(v)
    BY <1>1, <1>7, UploadEffects
  <2>2. slow \subseteq slow' /\ caught \subseteq caught'
    BY <1>7
    DEF InitUpload, SoftDelete, RestoreUpload, TimePasses, ExpireSession, ExpireSlot, PassRetention, AgeDir
  <2>3. \/ UNCHANGED session
        \/ session[u] = "none" /\ session' = [session EXCEPT ![u] = "live"]
        \/ session' = [session EXCEPT ![u] = "gone"]
    BY <1>7
    DEF InitUpload, SoftDelete, RestoreUpload, TimePasses, ExpireSession, ExpireSlot, PassRetention, AgeDir
  <2>4. QED BY <1>0, <2>1, <2>2, <2>3 DEF Onward, TypeOK
<1>8. ASSUME NEW s \in Sweepers, SweepLock(s) \/ SweepStep(s) \/ SweeperDies(s) PROVE Onward
  BY <1>0, <1>1, <1>8, SweepEffects DEF Onward
<1>9. CASE UNCHANGED vars
  BY <1>0, <1>1, <1>9 DEF vars, Onward
<1>10. QED BY <1>2, <1>3, <1>4, <1>5, <1>6, <1>7, <1>8, <1>9 DEF Next, RequestStep

LEMMA StaysExpired ==
  ASSUME Onward, NEW u \in Uploads, Expired(u)
  PROVE  Expired(u)'
BY DEF Onward, Expired

\* What a step does to the rows: one is inserted, edited or purged.
LEMMA NextRows ==
  ASSUME IInv, [Next]_vars
  PROVE  \/ UNCHANGED row
         \/ \E u \in Uploads : RowEdit(u)
         \/ \E k \in Confirms : ConfirmInsert(k)
         \/ \E s \in Sweepers :
              /\ sweep[s].pc = "drop"
              /\ row' = [row EXCEPT ![sweep[s].at] = [state |-> "purged", sha |-> Nothing]]
<1>1. CASE \E u \in Uploads : InitUpload(u) \/ SoftDelete(u) \/ RestoreUpload(u) \/ TimePasses(u)
  BY <1>1, UploadEffects
<1>2. CASE \E s \in Sweepers : SweepLock(s) \/ SweepStep(s) \/ SweeperDies(s)
  BY <1>2, SweepEffects
<1>3. CASE RequestDies \/ UNCHANGED vars
  BY <1>3, RequestDiesEffects DEF vars
<1>4. CASE \/ \E p \in Puts, u \in Uploads : PutBegin(p, u)
           \/ \E p \in Puts : PutClaim(p) \/ PutWrite(p) \/ PutMark(p)
           \/ \E k \in Confirms, u \in Uploads : ConfirmBegin(k, u)
           \/ \E k \in Confirms : ConfirmValidate(k) \/ ConfirmHash(k) \/ ConfirmClose(k)
  BY <1>4 DEF PutBegin, PutClaim, PutWrite, PutMark, ConfirmBegin, ConfirmValidate, ConfirmHash, ConfirmClose
<1>5. QED BY <1>1, <1>2, <1>3, <1>4 DEF Next, RequestStep

\* ... and to the files: one is written, or removed as refused or by a sweep.
LEMMA NextFiles ==
  ASSUME IInv, [Next]_vars
  PROVE  \A u \in Uploads : disk[u] # Nothing /\ disk'[u] = Nothing =>
           \/ disk[u] \in Bad
           \/ \E s \in Sweepers : Removable(s, u)
<1>0. TypeOK
  BY DEF IInv
<1>1. CASE \E u \in Uploads : InitUpload(u) \/ SoftDelete(u) \/ RestoreUpload(u) \/ TimePasses(u)
  BY <1>1, UploadEffects
<1>2. CASE \E s \in Sweepers : SweepLock(s) \/ SweepStep(s) \/ SweeperDies(s)
  BY <1>0, <1>2, SweepEffects DEF TypeOK
<1>3. CASE RequestDies \/ UNCHANGED vars
  BY <1>3, RequestDiesEffects DEF vars
<1>4. CASE \/ \E p \in Puts, u \in Uploads : PutBegin(p, u)
           \/ \E p \in Puts : PutClaim(p) \/ PutMark(p)
           \/ \E k \in Confirms, u \in Uploads : ConfirmBegin(k, u)
           \/ \E k \in Confirms : ConfirmHash(k) \/ ConfirmInsert(k) \/ ConfirmClose(k)
  BY <1>4 DEF PutBegin, PutClaim, PutMark, ConfirmBegin, ConfirmInsert, ConfirmHash, ConfirmClose
<1>5. ASSUME NEW p \in Puts, PutWrite(p)
      PROVE  \A u \in Uploads : disk[u] # Nothing => disk'[u] # Nothing
  <2>1. UNCHANGED disk \/ \E body \in Contents : disk' = [disk EXCEPT ![put[p].upload] = body]
    BY <1>5 DEF PutWrite
  <2>2. Nothing \notin Contents
    BY ReaperAssumption DEF ReaperAssumption
  <2>3. QED BY <1>0, <2>1, <2>2 DEF TypeOK
<1>6. ASSUME NEW k \in Confirms, ConfirmValidate(k)
      PROVE  \A u \in Uploads : disk[u] # Nothing /\ disk'[u] = Nothing => disk[u] \in Bad
  BY <1>0, <1>6 DEF ConfirmValidate, TypeOK, Bytes
<1>7. QED BY <1>1, <1>2, <1>3, <1>4, <1>5, <1>6 DEF Next, RequestStep

\* A file that is gone stays gone once its upload has a row, the slot permitting.
LEMMA StaysEmpty ==
  ASSUME IInv, [Next]_vars, NEW u \in Uploads, disk[u] = Nothing, row[u].state # "absent",
         u \notin lapsed
  PROVE  disk'[u] = Nothing
<1>0. TypeOK
  BY DEF IInv
<1>1. CASE \E v \in Uploads : InitUpload(v) \/ SoftDelete(v) \/ RestoreUpload(v) \/ TimePasses(v)
  BY <1>1, UploadEffects
<1>2. CASE \E s \in Sweepers : SweepLock(s) \/ SweepStep(s) \/ SweeperDies(s)
  BY <1>0, <1>2, SweepEffects DEF TypeOK
<1>3. CASE RequestDies \/ UNCHANGED vars
  BY <1>3, RequestDiesEffects DEF vars
<1>4. CASE \/ \E p \in Puts, v \in Uploads : PutBegin(p, v)
           \/ \E p \in Puts : PutClaim(p) \/ PutMark(p)
           \/ \E k \in Confirms, v \in Uploads : ConfirmBegin(k, v)
           \/ \E k \in Confirms : ConfirmHash(k) \/ ConfirmInsert(k) \/ ConfirmClose(k)
  BY <1>4 DEF PutBegin, PutClaim, PutMark, ConfirmBegin, ConfirmInsert, ConfirmHash, ConfirmClose
<1>5. CASE \E p \in Puts : PutWrite(p)
  BY <1>0, <1>5, WriterStep DEF PutWrite, TypeOK
<1>6. CASE \E k \in Confirms : ConfirmValidate(k)
  BY <1>0, <1>6 DEF ConfirmValidate, TypeOK
<1>7. QED BY <1>1, <1>2, <1>3, <1>4, <1>5, <1>6 DEF Next, RequestStep

LEMMA InsertedInFlight ==
  ASSUME IInv, NEW k \in Confirms, ConfirmInsert(k)
  PROVE  /\ conf[k].upload \in Uploads /\ InFlight(conf[k].upload)
         /\ \A u \in Uploads \ {conf[k].upload} : row'[u] = row[u]
BY DEF IInv, TypeOK, Placed, ConfirmInsert, InFlight

\* Only a confirm that is in flight gives an upload an owner.
LEMMA OwnerComes ==
  ASSUME IInv, [Next]_vars, NEW u \in Uploads, Owned(u)', ~Owned(u)
  PROVE  InFlight(u)
<1>0. TypeOK
  BY DEF IInv
<1>1. CASE \E v \in Uploads : RowEdit(v)
  BY <1>0, <1>1 DEF RowEdit, Owned, HasRow, TypeOK
<1>2. CASE \E k \in Confirms : ConfirmInsert(k)
  BY <1>2, InsertedInFlight DEF Owned, HasRow
<1>3. CASE \E s \in Sweepers :
             /\ sweep[s].pc = "drop"
             /\ row' = [row EXCEPT ![sweep[s].at] = [state |-> "purged", sha |-> Nothing]]
  BY <1>0, <1>3 DEF Owned, HasRow, TypeOK
<1>4. CASE UNCHANGED row
  BY <1>4 DEF Owned, HasRow
<1>5. QED BY <1>1, <1>2, <1>3, <1>4, NextRows

\* A row never becomes absent again.
LEMMA RowStays ==
  ASSUME IInv, [Next]_vars, NEW u \in Uploads, row[u].state # "absent"
  PROVE  row'[u].state # "absent"
<1>0. TypeOK
  BY DEF IInv
<1>1. CASE \E v \in Uploads : RowEdit(v)
  BY <1>0, <1>1 DEF RowEdit, TypeOK
<1>2. CASE \E k \in Confirms : ConfirmInsert(k)
  BY <1>0, <1>2 DEF ConfirmInsert, TypeOK
<1>3. CASE \E s \in Sweepers :
             row' = [row EXCEPT ![sweep[s].at] = [state |-> "purged", sha |-> Nothing]]
  BY <1>0, <1>3 DEF TypeOK
<1>4. QED BY <1>1, <1>2, <1>3, NextRows

\* A row that a sweep may reap and has at hand may still be reaped after a step,
\* its restore being recorded, unless the step is that of a sweep that purges it.
LEMMA ReapStays ==
  ASSUME IInv, [Next]_vars, NEW u \in Uploads, MayReap(u), AtHand(u)
  PROVE  MayReap(u)' \/ \E s \in Sweepers : ReapRow(s) /\ sweep[s].at = u
<1>0. TypeOK /\ Onward /\ Expired(u)' /\ HasRow(u) /\ (row[u].state = "due" \/ u \in caught)
  BY NextOnward, StaysExpired DEF IInv, MayReap
<1>1. ASSUME HasRow(u)', row'[u].state = "due" \/ u \in caught' PROVE MayReap(u)'
  BY <1>0, <1>1 DEF MayReap
<1>2. ASSUME row'[u] = row[u] PROVE MayReap(u)'
  BY <1>0, <1>1, <1>2 DEF HasRow, Onward
<1>3. ASSUME NEW v \in Uploads, InitUpload(v) \/ SoftDelete(v) \/ RestoreUpload(v) \/ TimePasses(v)
      PROVE  MayReap(u)'
  <2>1. CASE SoftDelete(v) \/ PassRetention(v)
    <3>1. \/ row'[u] = row[u]
          \/ row'[u].state \in {"deleted", "due"} /\ row[u].state # "due"
      BY <1>0, <2>1 DEF SoftDelete, PassRetention, SetRow, TypeOK
    <3>2. QED BY <1>0, <1>1, <1>2, <3>1 DEF HasRow, Onward
  <2>2. CASE RestoreUpload(v)
    <3>1. row'[u] = row[u] \/ (row'[u].state = "live" /\ u \in caught')
      BY <1>0, <2>2 DEF RestoreUpload, SetRow, TypeOK
    <3>2. QED BY <1>1, <1>2, <3>1 DEF HasRow
  <2>3. CASE InitUpload(v) \/ ExpireSession(v) \/ ExpireSlot(v) \/ AgeDir(v)
    BY <1>2, <2>3 DEF InitUpload, ExpireSession, ExpireSlot, AgeDir
  <2>4. QED BY <1>3, <2>1, <2>2, <2>3 DEF TimePasses
<1>4. ASSUME NEW s \in Sweepers, SweepLock(s) \/ SweepStep(s) \/ SweeperDies(s)
      PROVE  row'[u] = row[u] \/ (ReapRow(s) /\ sweep[s].at = u)
  <2>1. CASE ReapRow(s)
    BY <1>0, <2>1 DEF ReapRow, TypeOK
  <2>2. CASE ~ReapRow(s)
    BY <1>4, <2>2 DEF SweepStep, SweepLock, SweepList, ReapBytes, OrphanList, OrphanRemove, SweepEnd, SweeperDies
  <2>3. QED BY <2>1, <2>2
<1>5. ASSUME NEW k \in Confirms, ConfirmInsert(k) PROVE row'[u] = row[u]
  <2>1. CASE u = conf[k].upload
    BY <1>0, <1>5, <2>1 DEF ConfirmInsert
  <2>2. CASE u # conf[k].upload
    BY <1>5, <2>2, InsertedInFlight
  <2>3. QED BY <2>1, <2>2
<1>6. CASE \/ RequestDies \/ UNCHANGED vars
           \/ \E p \in Puts, v \in Uploads : PutBegin(p, v)
           \/ \E p \in Puts : PutClaim(p) \/ PutWrite(p) \/ PutMark(p)
           \/ \E k \in Confirms, v \in Uploads : ConfirmBegin(k, v)
           \/ \E k \in Confirms : ConfirmValidate(k) \/ ConfirmHash(k) \/ ConfirmClose(k)
  BY <1>2, <1>6, RequestDiesEffects
  DEF PutBegin, PutClaim, PutWrite, PutMark, ConfirmBegin, ConfirmValidate, ConfirmHash, ConfirmClose, vars
<1>7. QED BY <1>2, <1>3, <1>4, <1>5, <1>6 DEF Next, RequestStep

\* The lists of a sweep come from its own steps.
LEMMA NextLists ==
  ASSUME IInv, [Next]_vars, NEW s \in Sweepers
  PROVE  /\ sweep'[s].dirs \subseteq sweep[s].dirs \union {u \in Uploads : dir[u] = "old" /\ ~Owned(u)}
         /\ UNCHANGED row \/ sweep'[s].dirs \subseteq sweep[s].dirs
         /\ sweep'[s].rows \subseteq sweep[s].rows \/ (sweep'[s].rows \subseteq DueRows /\ UNCHANGED row)
         /\ sweep'[s].pc = "drop" =>
              \/ sweep'[s] = sweep[s]
              \/ /\ sweep'[s].at \in sweep[s].rows \ sweep'[s].rows
                 /\ disk'[sweep'[s].at] = Nothing /\ UNCHANGED row
<1>0. TypeOK /\ sweep \in [Sweepers -> SweepType]
  BY TypeParts DEF IInv
<1>1. CASE UNCHANGED sweep
  BY <1>1
<1>2. ASSUME NEW t \in Sweepers, SweepLock(t) \/ SweepStep(t) \/ SweeperDies(t), t # s
      PROVE  sweep'[s] = sweep[s]
  BY <1>0, <1>2
  DEF SweepStep, SweepLock, SweepList, ReapBytes, ReapRow, OrphanList, OrphanRemove, SweepEnd,
      SweeperDies, Step
<1>3. CASE SweepLock(s)
  BY <1>0, <1>3 DEF SweepLock, Step, SweepType
<1>4. CASE SweepList(s)
  BY <1>0, <1>4 DEF SweepList, SweepType
<1>5. CASE ReapBytes(s)
  <2>1. PICK u \in sweep[s].rows :
          \/ disk' = [disk EXCEPT ![u] = Nothing]
             /\ sweep' = [sweep EXCEPT ![s] = [sweep[s] EXCEPT !.pc = "drop", !.rows = @ \ {u}, !.at = u]]
          \/ sweep' = [sweep EXCEPT ![s] = [sweep[s] EXCEPT !.rows = @ \ {u}]]
    <3>1. PICK u \in sweep[s].rows :
            \/ disk' = [disk EXCEPT ![u] = Nothing]
               /\ sweep' = [sweep EXCEPT ![s].pc = "drop", ![s].rows = @ \ {u}, ![s].at = u]
            \/ sweep' = [sweep EXCEPT ![s].rows = @ \ {u}]
      BY <1>5 DEF ReapBytes
    <3>2. CASE disk' = [disk EXCEPT ![u] = Nothing]
               /\ sweep' = [sweep EXCEPT ![s].pc = "drop", ![s].rows = @ \ {u}, ![s].at = u]
      <4>1. sweep' = [sweep EXCEPT ![s] = [sweep[s] EXCEPT !.pc = "drop", !.rows = @ \ {u}, !.at = u]]
        BY <1>0, <3>2
      <4>2. QED BY <3>2, <4>1
    <3>3. CASE sweep' = [sweep EXCEPT ![s].rows = @ \ {u}]
      <4>1. sweep' = [sweep EXCEPT ![s] = [sweep[s] EXCEPT !.rows = @ \ {u}]]
        BY <1>0, <3>3
      <4>2. QED BY <4>1
    <3>4. QED BY <3>1, <3>2, <3>3
  <2>2. u \in Uploads /\ sweep[s].pc = "reap" /\ UNCHANGED row
    BY <1>0, <1>5 DEF ReapBytes, SweepType
  <2>3. CASE disk' = [disk EXCEPT ![u] = Nothing]
             /\ sweep' = [sweep EXCEPT ![s] = [sweep[s] EXCEPT !.pc = "drop", !.rows = @ \ {u}, !.at = u]]
    <3>1. disk'[u] = Nothing
      BY <1>0, <2>2, <2>3 DEF TypeOK
    <3>2. sweep'[s].rows = sweep[s].rows \ {u} /\ sweep'[s].dirs = sweep[s].dirs /\ sweep'[s].at = u
      BY <1>0, <2>3 DEF SweepType
    <3>3. QED BY <2>2, <3>1, <3>2
  <2>4. CASE sweep' = [sweep EXCEPT ![s] = [sweep[s] EXCEPT !.rows = @ \ {u}]]
    BY <1>0, <2>2, <2>4 DEF SweepType
  <2>5. QED BY <2>1, <2>3, <2>4
<1>6. CASE ReapRow(s)
  BY <1>0, <1>6 DEF ReapRow, SweepType
<1>7. CASE OrphanList(s)
  BY <1>0, <1>7 DEF OrphanList, SweepType
<1>8. CASE OrphanRemove(s)
  <2>1. PICK u \in sweep[s].dirs :
          \/ sweep' = [sweep EXCEPT ![s] = [sweep[s] EXCEPT !.dirs = @ \ {u}]]
          \/ sweep' = [sweep EXCEPT ![s] = [sweep[s] EXCEPT !.dirs = @ \ {u}, !.budget = @ - 1]]
    BY <1>0, <1>8 DEF OrphanRemove, SweepType
  <2>2. sweep[s].pc = "orphans"
    BY <1>8 DEF OrphanRemove
  <2>3. /\ sweep'[s].dirs \subseteq sweep[s].dirs
        /\ sweep'[s].rows = sweep[s].rows /\ sweep'[s].pc = sweep[s].pc
    <3>1. CASE sweep' = [sweep EXCEPT ![s] = [sweep[s] EXCEPT !.dirs = @ \ {u}]]
      BY <1>0, <3>1 DEF SweepType
    <3>2. CASE sweep' = [sweep EXCEPT ![s] = [sweep[s] EXCEPT !.dirs = @ \ {u}, !.budget = @ - 1]]
      BY <1>0, <3>2 DEF SweepType
    <3>3. QED BY <2>1, <3>1, <3>2
  <2>4. QED BY <2>2, <2>3
<1>9. CASE SweepEnd(s) \/ SweeperDies(s)
  BY <1>0, <1>9 DEF SweepEnd, SweeperDies, IdleSweep
<1>10. CASE \E u \in Uploads : InitUpload(u) \/ SoftDelete(u) \/ RestoreUpload(u) \/ TimePasses(u)
  BY <1>1, <1>10, UploadEffects
<1>11. CASE RequestDies \/ UNCHANGED vars
  BY <1>1, <1>11, RequestDiesEffects DEF vars
<1>12. CASE \/ \E p \in Puts, v \in Uploads : PutBegin(p, v)
            \/ \E p \in Puts : PutClaim(p) \/ PutWrite(p) \/ PutMark(p)
            \/ \E k \in Confirms, v \in Uploads : ConfirmBegin(k, v)
            \/ \E k \in Confirms : ConfirmValidate(k) \/ ConfirmHash(k) \/ ConfirmInsert(k) \/ ConfirmClose(k)
  BY <1>1, <1>12
  DEF PutBegin, PutClaim, PutWrite, PutMark, ConfirmBegin, ConfirmValidate, ConfirmHash, ConfirmInsert,
      ConfirmClose
<1>13. QED BY <1>2, <1>3, <1>4, <1>5, <1>6, <1>7, <1>8, <1>9, <1>10, <1>11, <1>12
       DEF Next, RequestStep, SweepStep

LEMMA NextListed == IInv /\ [Next]_vars => Listed'
<1> SUFFICES ASSUME IInv, [Next]_vars PROVE Listed'
  OBVIOUS
<1>0. TypeOK /\ Placed /\ OneSweep /\ Listed /\ Onward
  BY NextOnward DEF IInv
<1>a. put \in [Puts -> PutType] /\ sweep \in [Sweepers -> SweepType]
  BY <1>0, TypeParts
<1>1. \A p \in Puts : put'[p].pc # "idle" => session'[put'[p].upload] # "none"
  <2>1. ASSUME NEW p \in Puts, put'[p].pc # "idle"
        PROVE  \/ put[p].pc # "idle" /\ put'[p].upload = put[p].upload
               \/ \E u \in Uploads : session[u] = "live" /\ put'[p].upload = u
    <3>1. CASE \E q \in Puts, u \in Uploads : PutBegin(q, u)
      BY <1>a, <2>1, <3>1 DEF PutBegin
    <3>2. CASE \E q \in Puts : PutClaim(q) \/ PutWrite(q) \/ PutMark(q)
      BY <1>a, <2>1, <3>2 DEF PutClaim, PutWrite, PutMark, IdlePut, PutType
    <3>3. CASE \A q \in Puts : put'[q] = put[q] \/ put'[q] = IdlePut
      BY <2>1, <3>3 DEF IdlePut
    <3>4. CASE \/ \E u \in Uploads : InitUpload(u) \/ SoftDelete(u) \/ RestoreUpload(u) \/ TimePasses(u)
               \/ RequestDies \/ UNCHANGED vars \/ \E s \in Sweepers : SweepLock(s) \/ SweepStep(s) \/ SweeperDies(s)
      BY <3>3, <3>4, UploadEffects, RequestDiesEffects, SweepEffects DEF vars
    <3>5. CASE \/ \E k \in Confirms, u \in Uploads : ConfirmBegin(k, u)
               \/ \E k \in Confirms : ConfirmValidate(k) \/ ConfirmHash(k) \/ ConfirmInsert(k) \/ ConfirmClose(k)
      BY <3>3, <3>5 DEF ConfirmBegin, ConfirmValidate, ConfirmHash, ConfirmInsert, ConfirmClose
    <3>6. QED BY <3>1, <3>2, <3>4, <3>5 DEF Next, RequestStep
  <2>2. QED BY <1>0, <2>1 DEF Listed, Onward, Placed
<1>2. \A u \in Uploads : \/ dir'[u] = dir[u] \/ dir'[u] = "none"
                         \/ dir'[u] = "young" /\ session[u] # "none"
                         \/ AgeDir(u)
  <2>1. CASE \E p \in Puts : PutWrite(p)
    BY <1>0, <2>1 DEF PutWrite, Placed, Listed, TypeOK
  <2>2. CASE \E u \in Uploads : InitUpload(u) \/ SoftDelete(u) \/ RestoreUpload(u) \/ TimePasses(u)
    BY <1>0, <2>2
    DEF InitUpload, SoftDelete, RestoreUpload, TimePasses, ExpireSession, ExpireSlot, PassRetention, AgeDir,
        TypeOK
  <2>3. CASE \E s \in Sweepers : SweepLock(s) \/ SweepStep(s) \/ SweeperDies(s)
    BY <1>0, <2>3, SweepEffects DEF TypeOK
  <2>4. CASE \/ RequestDies \/ UNCHANGED vars
             \/ \E p \in Puts, v \in Uploads : PutBegin(p, v)
             \/ \E p \in Puts : PutClaim(p) \/ PutMark(p)
             \/ \E k \in Confirms, v \in Uploads : ConfirmBegin(k, v)
             \/ \E k \in Confirms : ConfirmValidate(k) \/ ConfirmHash(k) \/ ConfirmInsert(k) \/ ConfirmClose(k)
    BY <2>4, RequestDiesEffects
    DEF PutBegin, PutClaim, PutMark, ConfirmBegin, ConfirmValidate, ConfirmHash, ConfirmInsert,
        ConfirmClose, vars
  <2>5. QED BY <2>1, <2>2, <2>3, <2>4 DEF Next, RequestStep
<1>3. \A u \in Uploads : dir'[u] # "none" => session'[u] # "none"
  BY <1>0, <1>2 DEF Listed, Onward, AgeDir
<1>4. \A u \in Uploads : dir'[u] = "old" \/ row'[u].state \in {"due", "purged"} => Expired(u)'
  <2>1. ASSUME NEW u \in Uploads, AgeDir(u) PROVE Expired(u)'
    <3>1. session[u] = "gone" /\ session' = session
      BY <1>0, <2>1 DEF AgeDir, Listed, TypeOK
    <3>2. InFlight(u)' => u \in slow'
      BY <2>1 DEF AgeDir, InFlight
    <3>3. QED BY <3>1, <3>2 DEF Expired
  <2>2. ASSUME NEW u \in Uploads, PassRetention(u) PROVE Expired(u)'
    BY <2>2 DEF PassRetention, InFlight, Expired
  <2>3. ASSUME NEW u \in Uploads, Expired(u) PROVE Expired(u)'
    BY <1>0, <2>3, StaysExpired
  <2>4. ASSUME NEW u \in Uploads, row'[u].state \in {"due", "purged"}
        PROVE  PassRetention(u) \/ Expired(u)
    <3>1. row[u].state \in {"due", "purged"} => Expired(u)
      BY <1>0 DEF Listed
    <3>2. ASSUME NEW v \in Uploads, InitUpload(v) \/ SoftDelete(v) \/ RestoreUpload(v) \/ TimePasses(v)
          PROVE  PassRetention(u) \/ row'[u] = row[u]
      BY <1>0, <2>4, <3>2
      DEF InitUpload, SoftDelete, RestoreUpload, TimePasses, ExpireSession, ExpireSlot, PassRetention, AgeDir,
          SetRow, TypeOK
    <3>3. ASSUME NEW s \in Sweepers, SweepLock(s) \/ SweepStep(s) \/ SweeperDies(s)
          PROVE  row'[u] = row[u] \/ Expired(u)
      <4>1. CASE UNCHANGED row
        BY <4>1
      <4>2. CASE sweep[s].pc = "drop" /\ row' = [row EXCEPT ![sweep[s].at] = [state |-> "purged", sha |-> Nothing]]
        BY <1>0, <4>2 DEF Listed, MayReap, TypeOK
      <4>3. QED BY <3>3, <4>1, <4>2, SweepEffects
    <3>4. ASSUME NEW k \in Confirms, ConfirmInsert(k) PROVE row'[u] = row[u]
      BY <1>0, <2>4, <3>4, InsertedInFlight DEF ConfirmInsert, TypeOK
    <3>5. CASE \/ RequestDies \/ UNCHANGED vars
               \/ \E p \in Puts, v \in Uploads : PutBegin(p, v)
               \/ \E p \in Puts : PutClaim(p) \/ PutWrite(p) \/ PutMark(p)
               \/ \E k \in Confirms, v \in Uploads : ConfirmBegin(k, v)
               \/ \E k \in Confirms : ConfirmValidate(k) \/ ConfirmHash(k) \/ ConfirmClose(k)
      <4>1. UNCHANGED row
        BY <3>5, RequestDiesEffects
        DEF PutBegin, PutClaim, PutWrite, PutMark, ConfirmBegin, ConfirmValidate, ConfirmHash,
            ConfirmClose, vars
      <4>2. QED BY <2>4, <3>1, <4>1
    <3>6. QED BY <2>4, <3>1, <3>2, <3>3, <3>4, <3>5 DEF Next, RequestStep
  <2>5. ASSUME NEW u \in Uploads, dir'[u] = "old" PROVE AgeDir(u) \/ Expired(u)
    BY <1>0, <1>2, <2>5 DEF Listed
  <2>6. QED BY <2>1, <2>2, <2>3, <2>4, <2>5
<1>5. ASSUME NEW s \in Sweepers, NEW u \in sweep'[s].dirs
      PROVE  Expired(u)' /\ (Owned(u)' => u \in slow')
  <2>1. u \in Uploads /\ (u \in sweep[s].dirs \/ (dir[u] = "old" /\ ~Owned(u)))
    BY <1>a, <1>5, NextLists DEF SweepType
  <2>2. Expired(u) /\ (Owned(u) => u \in slow)
    BY <1>0, <2>1 DEF Listed
  <2>3. Expired(u)'
    BY <1>0, <2>1, <2>2, StaysExpired
  <2>4. Owned(u)' => u \in slow
    BY <2>1, <2>2, OwnerComes DEF Expired
  <2>5. QED BY <1>0, <2>3, <2>4 DEF Onward
<1>6. ASSUME NEW s \in Sweepers, NEW t \in Sweepers, sweep[s].pc = "drop" \/ sweep[s].rows # {},
             sweep[t].pc = "drop"
      PROVE  s = t
  <2>1. sweep[s] # IdleSweep /\ sweep[t] # IdleSweep
    BY <1>6 DEF IdleSweep
  <2>2. QED BY <1>0, <2>1 DEF OneSweep
<1>7. ASSUME NEW s \in Sweepers, NEW u \in Uploads, MayReap(u),
             u \in sweep[s].rows \/ (sweep[s].pc = "drop" /\ sweep[s].at = u)
      PROVE  MayReap(u)' \/ (ReapRow(s) /\ sweep[s].at = u)
  <2>1. AtHand(u)
    BY <1>7 DEF AtHand
  <2>2. ASSUME NEW t \in Sweepers, ReapRow(t) PROVE s = t
    BY <1>6, <1>7, <2>2 DEF ReapRow
  <2>3. QED BY <1>7, <2>1, <2>2, ReapStays
<1>8. ASSUME NEW u \in Uploads, MayReap(u), UNCHANGED row PROVE MayReap(u)'
  BY <1>0, <1>8, StaysExpired DEF MayReap, HasRow, Onward
<1>9. ASSUME NEW s \in Sweepers, NEW u \in sweep'[s].rows PROVE MayReap(u)'
  <2>1. CASE u \in sweep[s].rows
    <3>1. u \in Uploads /\ MayReap(u)
      BY <1>0, <1>a, <2>1 DEF Listed, SweepType
    <3>2. ~(ReapRow(s) /\ sweep[s].at = u)
      BY <1>0, <2>1 DEF Listed, ReapRow
    <3>3. QED BY <1>7, <2>1, <3>1, <3>2
  <2>2. CASE u \in DueRows /\ UNCHANGED row
    <3>1. u \in Uploads /\ MayReap(u)
      BY <1>0, <2>2 DEF DueRows, Listed, MayReap, HasRow
    <3>2. QED BY <1>8, <2>2, <3>1
  <2>3. QED BY <1>9, <2>1, <2>2, NextLists
<1>10. ASSUME NEW s \in Sweepers, sweep'[s].pc = "drop"
       PROVE  \E u \in Uploads :
                /\ u = sweep'[s].at
                /\ disk'[u] = Nothing \/ u \in lapsed'
                /\ MayReap(u)' /\ u \notin sweep'[s].rows
  <2>1. CASE sweep'[s] = sweep[s]
    <3>1. PICK u \in Uploads : u = sweep[s].at
      BY <1>0, <1>10, <2>1 DEF Placed
    <3>2. /\ disk[u] = Nothing \/ u \in lapsed
          /\ MayReap(u) /\ u \notin sweep[s].rows
      BY <1>0, <1>10, <2>1, <3>1 DEF Listed
    <3>3. ~ReapRow(s)
      BY <1>a, <1>10, <2>1 DEF ReapRow, SweepType
    <3>4. MayReap(u)'
      BY <1>7, <1>10, <2>1, <3>1, <3>2, <3>3
    <3>5. disk'[u] = Nothing \/ u \in lapsed'
      BY <1>0, <3>2, StaysEmpty DEF Onward, MayReap, HasRow
    <3>6. QED BY <2>1, <3>1, <3>2, <3>4, <3>5
  <2>2. CASE /\ sweep'[s].at \in sweep[s].rows \ sweep'[s].rows
             /\ disk'[sweep'[s].at] = Nothing /\ UNCHANGED row
    <3>1. PICK u \in Uploads : u = sweep'[s].at
      BY <1>a, <2>2 DEF SweepType
    <3>2. MayReap(u)'
      BY <1>0, <1>8, <2>2, <3>1 DEF Listed
    <3>3. QED BY <2>2, <3>1, <3>2
  <2>3. QED BY <1>10, <2>1, <2>2, NextLists
<1>11. QED BY <1>1, <1>3, <1>4, <1>5, <1>9, <1>10 DEF Listed

\* A file that a step removes was refused, or is no live upload's, or one whose
\* restore or slow request is recorded, or whose slot expired under a claim.
LEMMA RemovedFiles ==
  ASSUME IInv, [Next]_vars, NEW u \in Uploads, disk[u] # Nothing, disk'[u] = Nothing
  PROVE  \/ disk[u] \in Bad /\ row[u].sha = Nothing
         \/ HasRow(u) /\ (row[u].state = "due" \/ u \in caught)
         \/ u \in slow \union lapsed
         \/ ~Owned(u) /\ ~InFlight(u)
<1>1. CASE disk[u] \in Bad
  BY <1>1 DEF IInv, Confirmed
<1>2. CASE \E s \in Sweepers : Removable(s, u)
  BY <1>2 DEF IInv, Removable, Listed, MayReap, Expired
<1>3. QED BY <1>1, <1>2, NextFiles

LEMMA NextKept == IInv /\ [Next]_vars => Kept'
<1> SUFFICES ASSUME IInv, [Next]_vars PROVE Kept'
  OBVIOUS
<1>0. TypeOK /\ Placed /\ Confirmed /\ Kept /\ Onward
  BY NextOnward DEF IInv
<1>a. conf \in [Confirms -> ConfType]
  BY <1>0, TypeParts
<1>b. Nothing \notin Contents
  BY ReaperAssumption DEF ReaperAssumption
<1>1. ASSUME NEW u \in Uploads, InFlight(u), disk[u] \notin Bad \/ u \in lapsed,
             disk[u] # Nothing \/ u \in slow \union lapsed
      PROVE  row'[u].state # "absent" \/ disk'[u] # Nothing \/ u \in slow' \union lapsed'
  BY <1>0, <1>1, RemovedFiles, RowStays DEF Onward, HasRow
<1>2. ASSUME NEW k \in Confirms, conf'[k].pc \in {"hash", "insert"}
      PROVE  \E u \in Uploads :
               /\ conf'[k].upload = u /\ InFlight(u) /\ (disk[u] \notin Bad \/ u \in lapsed)
               /\ row[u].state # "absent" \/ disk[u] # Nothing \/ u \in slow \union lapsed
  <2>1. CASE conf'[k] = conf[k]
    <3>1. PICK u \in Uploads : u = conf[k].upload
      BY <1>0, <1>2, <2>1 DEF Placed
    <3>2. disk[u] \notin Bad \/ u \in lapsed
      BY <1>0, <1>b, <1>2, <2>1, <3>1, ReaperAssumption DEF ReaperAssumption, Confirmed
    <3>3. QED BY <1>0, <1>2, <2>1, <3>1, <3>2 DEF Kept, InFlight
  <2>2. CASE conf'[k].upload = conf[k].upload /\ (ConfirmValidate(k) \/ ConfirmHash(k))
    <3>1. PICK u \in Uploads : u = conf[k].upload /\ InFlight(u)
      BY <1>0, <2>2 DEF Placed, ConfirmValidate, ConfirmHash, InFlight
    <3>2. CASE ConfirmValidate(k)
      BY <1>a, <1>b, <1>2, <2>2, <3>1, <3>2 DEF ConfirmValidate, ConfirmEnds, IdleConf
    <3>3. CASE ConfirmHash(k)
      <4>1. (disk[u] \notin Bad \/ u \in lapsed) /\ disk[u] # Nothing
        BY <1>0, <1>a, <1>2, <3>1, <3>3 DEF ConfirmHash, ConfirmEnds, IdleConf, Confirmed
      <4>2. QED BY <2>2, <3>1, <4>1
    <3>4. QED BY <2>2, <3>2, <3>3
  <2>3. \/ conf'[k] = conf[k]
        \/ conf'[k].upload = conf[k].upload /\ (ConfirmValidate(k) \/ ConfirmHash(k))
    <3>1. CASE \E u \in Uploads : ConfirmBegin(k, u)
      BY <1>a, <1>2, <3>1 DEF ConfirmBegin, IdleConf
    <3>2. CASE ConfirmValidate(k) \/ ConfirmHash(k)
      BY <1>a, <1>2, <3>2 DEF ConfirmValidate, ConfirmHash, ConfirmEnds, IdleConf, ConfType
    <3>3. CASE ConfirmInsert(k) \/ ConfirmClose(k)
      BY <1>a, <1>2, <3>3 DEF ConfirmInsert, ConfirmClose, ConfirmEnds, IdleConf, ConfType
    <3>4. ASSUME NEW l \in Confirms, l # k,
                 \/ \E u \in Uploads : ConfirmBegin(l, u)
                 \/ ConfirmValidate(l) \/ ConfirmHash(l) \/ ConfirmInsert(l) \/ ConfirmClose(l)
          PROVE  conf'[k] = conf[k]
      BY <1>a, <3>4
      DEF ConfirmBegin, ConfirmValidate, ConfirmHash, ConfirmInsert, ConfirmClose, ConfirmEnds
    <3>5. CASE RequestDies
      BY <1>2, <3>5, RequestDiesEffects DEF IdleConf
    <3>6. CASE \/ \E p \in Puts, v \in Uploads : PutBegin(p, v)
               \/ \E p \in Puts : PutClaim(p) \/ PutWrite(p) \/ PutMark(p)
               \/ \E u \in Uploads : InitUpload(u) \/ SoftDelete(u) \/ RestoreUpload(u) \/ TimePasses(u)
               \/ \E s \in Sweepers : SweepLock(s) \/ SweepStep(s) \/ SweeperDies(s)
               \/ UNCHANGED vars
      BY <3>6, UploadEffects, SweepEffects DEF PutBegin, PutClaim, PutWrite, PutMark, vars
    <3>7. QED BY <3>1, <3>2, <3>3, <3>4, <3>5, <3>6 DEF Next, RequestStep
  <2>4. QED BY <2>1, <2>2, <2>3
<1>3. ASSUME NEW k \in Confirms, conf'[k].pc \in {"hash", "insert"}
      PROVE  \/ row'[conf'[k].upload].state # "absent"
             \/ disk'[conf'[k].upload] # Nothing
             \/ conf'[k].upload \in slow' \union lapsed'
  BY <1>1, <1>2, <1>3, RowStays
<1>4. ASSUME NEW u \in Uploads, row'[u].state = "live"
      PROVE  disk'[u] # Nothing \/ u \in caught' \union slow' \union lapsed'
  <2>1. CASE row[u].state = "live"
    <3>1. HasRow(u) /\ row[u].sha # Nothing
      BY <1>0, <2>1 DEF Confirmed, HasRow
    <3>2. disk[u] # Nothing \/ u \in caught \union slow \union lapsed
      BY <1>0, <2>1 DEF Kept
    <3>3. QED BY <1>0, <2>1, <3>1, <3>2, RemovedFiles DEF Onward, Owned
  <2>2. CASE row[u].state # "live" /\ RestoreUpload(u)
    BY <1>0, <2>2 DEF RestoreUpload
  <2>3. CASE row[u].state # "live" /\ \E k \in Confirms : ConfirmInsert(k) /\ conf[k].upload = u
    <3>1. PICK k \in Confirms : ConfirmInsert(k) /\ conf[k].upload = u
      BY <2>3
    <3>2. ~HasRow(u) /\ conf[k].pc = "insert" /\ disk' = disk
      BY <1>4, <2>3, <3>1 DEF ConfirmInsert
    <3>3. row[u].state = "absent" => disk[u] # Nothing \/ u \in slow \union lapsed
      BY <1>0, <3>1, <3>2 DEF Kept
    <3>4. row[u].state = "purged" => u \in slow
      BY <3>1, InsertedInFlight DEF IInv, Listed, Expired
    <3>5. row[u].state \in {"absent", "purged"}
      BY <1>0, <3>2 DEF TypeOK, HasRow
    <3>6. QED BY <1>0, <3>2, <3>3, <3>4, <3>5 DEF Onward
  <2>4. row[u].state = "live" \/ RestoreUpload(u) \/ \E k \in Confirms : ConfirmInsert(k) /\ conf[k].upload = u
    <3>1. ASSUME NEW v \in Uploads, InitUpload(v) \/ SoftDelete(v) \/ RestoreUpload(v) \/ TimePasses(v)
          PROVE  row[u].state = "live" \/ RestoreUpload(u)
      <4>1. CASE RestoreUpload(v)
        <5>1. v # u => row'[u] = row[u]
          BY <1>0, <4>1 DEF RestoreUpload, SetRow, TypeOK
        <5>2. QED BY <1>4, <4>1, <5>1
      <4>2. CASE SoftDelete(v) \/ PassRetention(v)
        <5>1. row'[u] = row[u] \/ row'[u].state \in {"deleted", "due"}
          BY <1>0, <4>2 DEF SoftDelete, PassRetention, SetRow, TypeOK
        <5>2. QED BY <1>4, <5>1
      <4>3. CASE InitUpload(v) \/ ExpireSession(v) \/ ExpireSlot(v) \/ AgeDir(v)
        BY <1>4, <4>3 DEF InitUpload, ExpireSession, ExpireSlot, AgeDir
      <4>4. QED BY <3>1, <4>1, <4>2, <4>3 DEF TimePasses
    <3>2. ASSUME NEW k \in Confirms, ConfirmInsert(k)
          PROVE  row[u].state = "live" \/ conf[k].upload = u
      BY <1>4, <3>2, InsertedInFlight
    <3>3. CASE \E s \in Sweepers : SweepLock(s) \/ SweepStep(s) \/ SweeperDies(s)
      <4>1. PICK s \in Sweepers :
              UNCHANGED row \/ row' = [row EXCEPT ![sweep[s].at] = [state |-> "purged", sha |-> Nothing]]
        BY <3>3, SweepEffects
      <4>2. row'[u] = row[u] \/ row'[u].state = "purged"
        BY <1>0, <4>1 DEF TypeOK
      <4>3. QED BY <1>4, <4>2
    <3>4. CASE \/ RequestDies \/ UNCHANGED vars
               \/ \E p \in Puts, v \in Uploads : PutBegin(p, v)
               \/ \E p \in Puts : PutClaim(p) \/ PutWrite(p) \/ PutMark(p)
               \/ \E k \in Confirms, v \in Uploads : ConfirmBegin(k, v)
               \/ \E k \in Confirms : ConfirmValidate(k) \/ ConfirmHash(k) \/ ConfirmClose(k)
      BY <1>4, <3>4, RequestDiesEffects
      DEF PutBegin, PutClaim, PutWrite, PutMark, ConfirmBegin, ConfirmValidate, ConfirmHash,
          ConfirmClose, vars
    <3>5. QED BY <3>1, <3>2, <3>3, <3>4 DEF Next, RequestStep
  <2>5. QED BY <2>1, <2>2, <2>3, <2>4
<1>5. QED BY <1>3, <1>4 DEF Kept

LEMMA NextIInv == IInv /\ [Next]_vars => IInv'
BY NextTypeOK, NextOneWriter, NextConfirmed, NextListed, NextKept DEF IInv

-----------------------------------------------------------------------------
(* The theorems *)

\* The file a row points to is the confirmed one, for any number of overlapping
\* PUTs and confirms, expired sessions and slots, unless a slot expired under a PUT
\* that had yet to claim it.
THEOREM FileIsConfirmed == Spec => []StoredAsConfirmed
<1>1. IInv => StoredAsConfirmed
  BY DEF IInv, Confirmed, StoredAsConfirmed
<1>2. QED BY InitIInv, NextIInv, <1>1, PTL DEF Spec

\* A live row has its file, a purged one has none, unless one of the three named
\* races was met; for any number of sweeping workers.
THEOREM BytesFollowed == Spec => []RowFollowsBytes
<1>1. IInv => RowFollowsBytes
  BY DEF IInv, Confirmed, Kept, RowFollowsBytes
<1>2. QED BY InitIInv, NextIInv, <1>1, PTL DEF Spec

\* No step purges a row within its retention or takes a tombstone's bytes,
\* unless one of those races was met.
THEOREM RetentionKept == Spec => RetentionHonoured
<1>1. IInv /\ [Next]_vars =>
        [\A u \in Uploads :
           /\ row[u].state # "purged" /\ row'[u].state = "purged" => row[u].state = "due" \/ u \in caught
           /\ row[u].state = "deleted" /\ disk[u] # Nothing =>
                disk'[u] # Nothing \/ u \in caught \union slow \union lapsed]_vars
  <2> SUFFICES ASSUME IInv, [Next]_vars, NEW u \in Uploads
               PROVE  /\ row[u].state # "purged" /\ row'[u].state = "purged" => row[u].state = "due" \/ u \in caught
                      /\ row[u].state = "deleted" /\ disk[u] # Nothing =>
                           disk'[u] # Nothing \/ u \in caught \union slow \union lapsed
    OBVIOUS
  <2>0. TypeOK
    BY DEF IInv
  <2>1. ASSUME row[u].state # "purged", row'[u].state = "purged" PROVE row[u].state = "due" \/ u \in caught
    <3>1. CASE \E v \in Uploads : RowEdit(v)
      BY <2>0, <2>1, <3>1 DEF RowEdit, TypeOK
    <3>2. CASE \E k \in Confirms : ConfirmInsert(k)
      BY <2>0, <2>1, <3>2 DEF ConfirmInsert, TypeOK
    <3>3. CASE \E s \in Sweepers :
                 /\ sweep[s].pc = "drop"
                 /\ row' = [row EXCEPT ![sweep[s].at] = [state |-> "purged", sha |-> Nothing]]
      BY <2>0, <2>1, <3>3 DEF IInv, Listed, MayReap, TypeOK
    <3>4. QED BY <2>1, <3>1, <3>2, <3>3, NextRows
  <2>2. ASSUME row[u].state = "deleted", disk[u] # Nothing
        PROVE  disk'[u] # Nothing \/ u \in caught \union slow \union lapsed
    BY <2>2, RemovedFiles DEF IInv, Confirmed, Owned, HasRow
  <2>3. QED BY <2>1, <2>2
<1>2. QED BY InitIInv, NextIInv, <1>1, PTL DEF Spec, RetentionHonoured
=============================================================================
