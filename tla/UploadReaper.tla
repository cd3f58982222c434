---------------------------- MODULE UploadReaper ----------------------------
(***************************************************************************)
(* An uploaded file, from its registration to the removal of its bytes.    *)
(*   - init leaves a session in Redis, which expires; a relay PUT claims   *)
(*     the body slot and writes the file; confirm reads the file twice (to *)
(*     validate it and to hash it) and inserts the row;                    *)
(*   - a row is tombstoned, and may be restored until it is reaped;        *)
(*   - a sweep removes the bytes and then the rows of tombstones past the  *)
(*     retention, and the directories that no row and no session owns.     *)
(* Time is the order of five events: a session expires, a body slot        *)
(* expires, a tombstone passes the retention, a directory passes the age   *)
(* floor, and a request ends.                                              *)
(***************************************************************************)
EXTENDS Naturals, FiniteSets

CONSTANTS Uploads,    \* upload ids
          Contents,   \* bodies a browser may send
          Bad,        \* those whose type confirm refuses
          Puts,       \* relay PUT requests that may overlap
          Confirms,   \* confirm requests that may overlap
          Sweepers,   \* worker processes that sweep
          Batch,      \* UPLOAD_REAPER_BATCH_SIZE
          MaxFaults   \* bound on crashes, failures of storage, database and unlock, late claims

Nothing == "nothing"
Nobody == "nobody"

ASSUME ReaperAssumption ==
  /\ Bad \subseteq Contents /\ Nothing \notin Contents /\ Nobody \notin Sweepers
  /\ Nothing \notin Uploads /\ IsFiniteSet(Uploads)
  /\ Batch \in Nat \ {0} /\ MaxFaults \in Nat

VARIABLES
  session, \* the pending session in Redis
  slot,    \* the body slot in Redis
  disk,    \* the bytes stored
  dir,     \* the upload's directory, by age
  row,     \* the Upload row: state and hash
  put, conf, \* the requests
  lock,    \* the advisory lock: the process whose session holds it, and how often
  sweep,   \* the sweeps: step, rows listed, row at hand, directories listed
  caught,  \* history: uploads restored while a sweep was at them, or emptied
  slow,    \* history: uploads whose directory or tombstone grew old under a request
  lapsed,  \* history: uploads whose slot expired under a PUT that had yet to claim it
  faults

vars == <<session, slot, disk, dir, row, put, conf, lock, sweep, caught, slow, lapsed, faults>>

NoRow == [state |-> "absent", sha |-> Nothing]
IdlePut == [pc |-> "idle", upload |-> Nothing]
IdleConf == [pc |-> "idle", upload |-> Nothing, sha |-> Nothing]
IdleSweep == [pc |-> "idle", rows |-> {}, at |-> Nothing, budget |-> 0, dirs |-> {}]

Init ==
  /\ session = [u \in Uploads |-> "none"]
  /\ slot = [u \in Uploads |-> "free"]
  /\ disk = [u \in Uploads |-> Nothing]
  /\ dir = [u \in Uploads |-> "none"]
  /\ row = [u \in Uploads |-> NoRow]
  /\ put = [p \in Puts |-> IdlePut]
  /\ conf = [k \in Confirms |-> IdleConf]
  /\ lock = [by |-> Nobody, holds |-> 0]
  /\ sweep = [s \in Sweepers |-> IdleSweep]
  /\ caught = {} /\ slow = {} /\ lapsed = {}
  /\ faults = 0

Fault == faults < MaxFaults /\ faults' = faults + 1

-----------------------------------------------------------------------------
(* init and relayPut *)

InitUpload(u) ==
  /\ session[u] = "none" /\ slot[u] = "free" /\ row[u] = NoRow /\ dir[u] = "none"
  /\ session' = [session EXCEPT ![u] = "live"]
  /\ UNCHANGED <<slot, disk, dir, row, put, conf, lock, sweep, caught, slow, lapsed, faults>>

\* The session is looked up ...
PutBegin(p, u) ==
  /\ put[p].pc = "idle"
  /\ session[u] = "live"
  /\ put' = [put EXCEPT ![p] = [pc |-> "claim", upload |-> u]]
  /\ UNCHANGED <<session, slot, disk, dir, row, conf, lock, sweep, caught, slow, lapsed, faults>>

\* Slip: a body that was received may be sent again.
UnlessWriting(u) == slot[u] # "writing"

SlotFree(u) == slot[u] = "free"

\* ... the body slot is claimed once ...
PutClaim(p) ==
  LET u == put[p].upload IN
  /\ put[p].pc = "claim"
  /\ IF SlotFree(u)
       THEN slot' = [slot EXCEPT ![u] = "writing"] /\ put' = [put EXCEPT ![p].pc = "write"]
       ELSE put' = [put EXCEPT ![p] = IdlePut] /\ UNCHANGED slot
  /\ UNCHANGED <<session, disk, dir, row, conf, lock, sweep, caught, slow, lapsed, faults>>

\* ... the body goes to a temporary file, which a rename puts in place, or
\* which is removed when the client gives up, the slot being freed, whoever has
\* it by then ...
PutWrite(p) ==
  LET u == put[p].upload IN
  /\ put[p].pc = "write"
  /\ dir' = [dir EXCEPT ![u] = "young"]
  /\ \/ /\ \E body \in Contents : disk' = [disk EXCEPT ![u] = body]
        /\ put' = [put EXCEPT ![p].pc = "mark"]
        /\ UNCHANGED slot
     \/ /\ slot' = [slot EXCEPT ![u] = "free"]
        /\ put' = [put EXCEPT ![p] = IdlePut]
        /\ UNCHANGED disk
  /\ UNCHANGED <<session, row, conf, lock, sweep, caught, slow, lapsed, faults>>

\* ... and the slot is marked done.
PutMark(p) ==
  /\ put[p].pc = "mark"
  /\ slot' = [slot EXCEPT ![put[p].upload] = "done"]
  /\ put' = [put EXCEPT ![p] = IdlePut]
  /\ UNCHANGED <<session, disk, dir, row, conf, lock, sweep, caught, slow, lapsed, faults>>

-----------------------------------------------------------------------------
(* confirm *)

ConfirmBegin(k, u) ==
  /\ conf[k].pc = "idle"
  /\ session[u] = "live"
  /\ conf' = [conf EXCEPT ![k] = [IdleConf EXCEPT !.pc = "validate", !.upload = u]]
  /\ UNCHANGED <<session, slot, disk, dir, row, put, lock, sweep, caught, slow, lapsed, faults>>

ConfirmEnds(k) == conf' = [conf EXCEPT ![k] = IdleConf]

\* A body of a refused type is removed from storage.
ConfirmValidate(k) ==
  LET u == conf[k].upload IN
  /\ conf[k].pc = "validate"
  /\ IF disk[u] \in Contents \ Bad
       THEN conf' = [conf EXCEPT ![k].pc = "hash"] /\ UNCHANGED disk
       ELSE disk' = [disk EXCEPT ![u] = Nothing] /\ ConfirmEnds(k)
  /\ UNCHANGED <<session, slot, dir, row, put, lock, sweep, caught, slow, lapsed, faults>>

ConfirmHash(k) ==
  LET u == conf[k].upload IN
  /\ conf[k].pc = "hash"
  /\ IF disk[u] # Nothing
       THEN conf' = [conf EXCEPT ![k].pc = "insert", ![k].sha = disk[u]]
       ELSE ConfirmEnds(k)
  /\ UNCHANGED <<session, slot, disk, dir, row, put, lock, sweep, caught, slow, lapsed, faults>>

\* A tombstone that was reaped leaves nothing of its row.
HasRow(u) == row[u].state \in {"live", "deleted", "due"}

\* The row's id is the upload's: only one of two confirms inserts it.
ConfirmInsert(k) ==
  LET u == conf[k].upload IN
  /\ conf[k].pc = "insert"
  /\ IF HasRow(u)
       THEN ConfirmEnds(k) /\ UNCHANGED row
       ELSE /\ row' = [row EXCEPT ![u] = [state |-> "live", sha |-> conf[k].sha]]
            /\ conf' = [conf EXCEPT ![k].pc = "close"]
  /\ UNCHANGED <<session, slot, disk, dir, put, lock, sweep, caught, slow, lapsed, faults>>

ConfirmClose(k) ==
  /\ conf[k].pc = "close"
  /\ session' = [session EXCEPT ![conf[k].upload] = "gone"]
  /\ ConfirmEnds(k)
  /\ UNCHANGED <<slot, disk, dir, row, put, lock, sweep, caught, slow, lapsed, faults>>

-----------------------------------------------------------------------------
(* Tombstones *)

Tombstones == {u \in Uploads : row[u].state \in {"deleted", "due"}}

SetRow(u, state) == row' = [row EXCEPT ![u].state = state]

SoftDelete(u) ==
  /\ row[u].state = "live"
  /\ SetRow(u, "deleted")
  /\ UNCHANGED <<session, slot, disk, dir, put, conf, lock, sweep, caught, slow, lapsed, faults>>

AtHand(u) == \E s \in Sweepers : u \in sweep[s].rows \/ sweep[s].at = u

\* restore clears deletedAt of a row that still has one.
RestoreUpload(u) ==
  /\ u \in Tombstones
  /\ SetRow(u, "live")
  /\ caught' = IF AtHand(u) \/ disk[u] = Nothing THEN caught \union {u} ELSE caught
  /\ UNCHANGED <<session, slot, disk, dir, put, conf, lock, sweep, slow, lapsed, faults>>

-----------------------------------------------------------------------------
(* sweep: tombstones past the retention *)

Step(s, pc) == sweep' = [sweep EXCEPT ![s].pc = pc]

\* The lock is free, or the query runs on the connection of this process that
\* has leaked it: a session may take its own lock again, and the holds add up.
CanLock(s) == lock.by \in {Nobody, s}

SweepLock(s) ==
  /\ sweep[s].pc = "idle"
  /\ CanLock(s)
  /\ lock' = [by |-> s, holds |-> lock.holds + 1]
  /\ Step(s, "list")
  /\ UNCHANGED <<session, slot, disk, dir, row, put, conf, caught, slow, lapsed, faults>>

\* Slip: the sweep lists every tombstone, whatever its age.
AllTombstones == Tombstones

DueRows == {u \in Uploads : row[u].state = "due"}

\* Slip: a row's thumbnail is counted too.
CountsThumbnails(rows) == Batch - 2 * Cardinality(rows)

\* What the rows leave of the batch is the orphan pass's.
WorkLeft(rows) == Batch - Cardinality(rows)

\* The oldest of them, a batch at most.
SweepList(s) ==
  /\ sweep[s].pc = "list"
  /\ \E rows \in SUBSET DueRows :
       /\ Cardinality(rows) = Batch \/ (rows = DueRows /\ Cardinality(rows) < Batch)
       /\ sweep' = [sweep EXCEPT ![s].pc = "reap", ![s].rows = rows,
                                 ![s].budget = WorkLeft(rows)]
  /\ UNCHANGED <<session, slot, disk, dir, row, put, conf, lock, caught, slow, lapsed, faults>>

\* Bytes first: a row whose bytes could not be removed is left for later.
ReapBytes(s) ==
  /\ sweep[s].pc = "reap"
  /\ \E u \in sweep[s].rows :
       \/ /\ disk' = [disk EXCEPT ![u] = Nothing]
          /\ dir' = [dir EXCEPT ![u] = "none"]
          /\ sweep' = [sweep EXCEPT ![s].pc = "drop", ![s].rows = @ \ {u}, ![s].at = u]
          /\ UNCHANGED faults
       \/ /\ Fault
          /\ sweep' = [sweep EXCEPT ![s].rows = @ \ {u}]
          /\ UNCHANGED <<disk, dir>>
  /\ UNCHANGED <<session, slot, row, put, conf, lock, caught, slow, lapsed>>

\* The row is deleted by its id, whatever has become of it; or that fails.
ReapRow(s) ==
  /\ sweep[s].pc = "drop"
  /\ sweep' = [sweep EXCEPT ![s].pc = "reap", ![s].at = Nothing]
  /\ \/ row' = [row EXCEPT ![sweep[s].at] = [state |-> "purged", sha |-> Nothing]] /\ UNCHANGED faults
     \/ Fault /\ UNCHANGED row
  /\ UNCHANGED <<session, slot, disk, dir, put, conf, lock, caught, slow, lapsed>>

-----------------------------------------------------------------------------
(* sweep: directories without an owner *)

\* Slip: a directory is removed for its age, whatever owns it.
OwnedByNobody(u) == FALSE

\* A row of any state owns its directory.
Owned(u) == HasRow(u)

\* Slip: a session that expired is taken for a pending one.
EverPending(u) == session[u] # "none"

Pending(u) == session[u] = "live"

OrphanList(s) ==
  /\ sweep[s].pc = "reap"
  /\ sweep[s].rows = {}
  /\ sweep' = [sweep EXCEPT ![s].pc = "orphans",
       ![s].dirs = IF sweep[s].budget = 0 THEN {} ELSE {u \in Uploads : dir[u] = "old" /\ ~Owned(u)}]
  /\ UNCHANGED <<session, slot, disk, dir, row, put, conf, lock, caught, slow, lapsed, faults>>

\* A directory that cannot be removed is left for a later sweep.
OrphanRemove(s) ==
  /\ sweep[s].pc = "orphans"
  /\ sweep[s].budget > 0
  /\ \E u \in sweep[s].dirs :
       \/ /\ IF Pending(u)
               THEN sweep' = [sweep EXCEPT ![s].dirs = @ \ {u}] /\ UNCHANGED <<disk, dir>>
               ELSE /\ disk' = [disk EXCEPT ![u] = Nothing]
                    /\ dir' = [dir EXCEPT ![u] = "none"]
                    /\ sweep' = [sweep EXCEPT ![s].dirs = @ \ {u}, ![s].budget = @ - 1]
          /\ UNCHANGED faults
       \/ /\ Fault
          /\ sweep' = [sweep EXCEPT ![s].dirs = @ \ {u}]
          /\ UNCHANGED <<disk, dir>>
  /\ UNCHANGED <<session, slot, row, put, conf, lock, caught, slow, lapsed>>

\* The lock is gone with its last hold.
Unlocked(s) == [by |-> IF lock.holds = 1 THEN Nobody ELSE s, holds |-> lock.holds - 1]

\* The unlock gives one hold back.  It may run on another connection of the pool,
\* which holds nothing: the hold is leaked to the connection that has it.
SweepEnd(s) ==
  /\ sweep[s].pc = "orphans"
  /\ sweep[s].dirs = {} \/ sweep[s].budget = 0
  /\ sweep' = [sweep EXCEPT ![s] = IdleSweep]
  /\ \/ lock' = Unlocked(s) /\ UNCHANGED faults
     \/ Fault /\ UNCHANGED lock
  /\ UNCHANGED <<session, slot, disk, dir, row, put, conf, caught, slow, lapsed>>

-----------------------------------------------------------------------------
(* Faults and time *)

\* The API dies in the middle of a request: its claim of the slot stays until it expires.
RequestDies ==
  /\ Fault
  /\ \/ \E p \in Puts : put[p].pc # "idle" /\ put' = [put EXCEPT ![p] = IdlePut] /\ UNCHANGED conf
     \/ \E k \in Confirms : conf[k].pc # "idle" /\ ConfirmEnds(k) /\ UNCHANGED put
  /\ UNCHANGED <<session, slot, disk, dir, row, lock, sweep, caught, slow, lapsed>>

\* The worker dies, its connections with it.
SweeperDies(s) ==
  /\ Fault
  /\ sweep[s].pc # "idle" \/ lock.by = s
  /\ sweep' = [sweep EXCEPT ![s] = IdleSweep]
  /\ lock' = IF lock.by = s THEN [by |-> Nobody, holds |-> 0] ELSE lock
  /\ UNCHANGED <<session, slot, disk, dir, row, put, conf, caught, slow, lapsed>>

ExpireSession(u) ==
  /\ session[u] = "live"
  /\ session' = [session EXCEPT ![u] = "gone"]
  /\ UNCHANGED <<slot, disk, dir, row, put, conf, lock, sweep, caught, slow, lapsed, faults>>

Claiming(p, u) == put[p].pc = "claim" /\ put[p].upload = u

\* The slot is claimed after the session was stored, for as long, and marked for
\* as long again: it expires after the session.  It does so under a PUT that is
\* about to claim it when that one is a session's life late (bounded as a fault).
ExpireSlot(u) ==
  /\ slot[u] # "free" /\ session[u] = "gone"
  /\ slot' = [slot EXCEPT ![u] = "free"]
  /\ IF \E p \in Puts : Claiming(p, u)
       THEN Fault /\ lapsed' = lapsed \union {u}
       ELSE UNCHANGED <<lapsed, faults>>
  /\ UNCHANGED <<session, disk, dir, row, put, conf, lock, sweep, caught, slow>>

InFlight(u) ==
  \/ \E p \in Puts : put[p].upload = u
  \/ \E k \in Confirms : conf[k].upload = u

\* The retention is a day at least, a session's life a quarter of an hour.
PassRetention(u) ==
  /\ row[u].state = "deleted"
  /\ session[u] = "gone"
  /\ SetRow(u, "due")
  /\ slow' = IF InFlight(u) THEN slow \union {u} ELSE slow
  /\ UNCHANGED <<session, slot, disk, dir, put, conf, lock, sweep, caught, lapsed, faults>>

\* The age floor is an hour at least.
AgeDir(u) ==
  /\ dir[u] = "young"
  /\ session[u] # "live"
  /\ dir' = [dir EXCEPT ![u] = "old"]
  /\ slow' = IF InFlight(u) THEN slow \union {u} ELSE slow
  /\ UNCHANGED <<session, slot, disk, row, put, conf, lock, sweep, caught, lapsed, faults>>

-----------------------------------------------------------------------------
RequestStep ==
  \/ \E p \in Puts : PutClaim(p) \/ PutWrite(p) \/ PutMark(p)
  \/ \E k \in Confirms : ConfirmValidate(k) \/ ConfirmHash(k) \/ ConfirmInsert(k) \/ ConfirmClose(k)

SweepStep(s) ==
  \/ SweepList(s) \/ ReapBytes(s) \/ ReapRow(s)
  \/ OrphanList(s) \/ OrphanRemove(s) \/ SweepEnd(s)

TimePasses(u) == ExpireSession(u) \/ ExpireSlot(u) \/ PassRetention(u) \/ AgeDir(u)

Next ==
  \/ \E u \in Uploads :
       \/ InitUpload(u) \/ SoftDelete(u) \/ RestoreUpload(u) \/ TimePasses(u)
       \/ \E p \in Puts : PutBegin(p, u)
       \/ \E k \in Confirms : ConfirmBegin(k, u)
  \/ RequestStep \/ RequestDies
  \/ \E s \in Sweepers : SweepLock(s) \/ SweepStep(s) \/ SweeperDies(s)

\* Time passes, the sweep is repeated for ever and begins when the lock is free
\* often enough, and each step of it is taken.
Fairness ==
  /\ \A u \in Uploads : WF_vars(TimePasses(u))
  /\ \A s \in Sweepers : SF_vars(lock.by = Nobody /\ SweepLock(s)) /\ WF_vars(SweepStep(s))

Spec == Init /\ [][Next]_vars /\ Fairness

-----------------------------------------------------------------------------
(* Properties *)

Ids == Uploads \union {Nothing}
Bytes == Contents \union {Nothing}

TypeOK ==
  /\ session \in [Uploads -> {"none", "live", "gone"}]
  /\ slot \in [Uploads -> {"free", "writing", "done"}]
  /\ disk \in [Uploads -> Bytes]
  /\ dir \in [Uploads -> {"none", "young", "old"}]
  /\ row \in [Uploads -> [state: {"absent", "live", "deleted", "due", "purged"}, sha: Bytes]]
  /\ put \in [Puts -> [pc: {"idle", "claim", "write", "mark"}, upload: Ids]]
  /\ conf \in [Confirms -> [pc: {"idle", "validate", "hash", "insert", "close"},
                            upload: Ids, sha: Bytes]]
  /\ lock \in [by: Sweepers \union {Nobody}, holds: Nat]
  /\ sweep \in [Sweepers -> [pc: {"idle", "list", "reap", "drop", "orphans"}, rows: SUBSET Uploads,
                             at: Ids, budget: 0..Batch, dirs: SUBSET Uploads]]
  /\ caught \subseteq Uploads /\ slow \subseteq Uploads /\ lapsed \subseteq Uploads
  /\ faults \in 0..MaxFaults

\* The file a row points to is the one confirm validated and hashed, byte for
\* byte, whatever PUTs and confirms of the same upload overlapped.  Only a PUT that
\* looked the session up and took until after the slot had expired to claim it
\* may still replace the file.
StoredAsConfirmed ==
  \A u \in Uploads :
    row[u].sha # Nothing /\ u \notin lapsed =>
      row[u].sha \notin Bad /\ disk[u] \in {row[u].sha, Nothing}

\* A live upload has its file, unless a restore came while a sweep was at it or
\* after a sweep had emptied it, or its request outlived the age floor, the
\* retention or its slot; and the bytes of a row that is gone are gone, no pointer
\* being dropped to bytes that may still be there.
RowFollowsBytes ==
  \A u \in Uploads :
    /\ row[u].state = "live" => disk[u] # Nothing \/ u \in caught \union slow \union lapsed
    /\ row[u].state = "purged" => disk[u] = Nothing \/ u \in lapsed

\* A row leaves the table past its retention only, or when a restore came while
\* a sweep was at it; until then a tombstone keeps its bytes, unless its request
\* outlived the age floor, the retention or its slot.
RetentionHonoured ==
  [][\A u \in Uploads :
       /\ row[u].state # "purged" /\ row'[u].state = "purged" =>
            row[u].state = "due" \/ u \in caught
       /\ row[u].state = "deleted" /\ disk[u] # Nothing =>
            disk'[u] # Nothing \/ u \in caught \union slow \union lapsed]_vars

Lingers(u) == row[u].state = "due" \/ (disk[u] # Nothing /\ row[u].state \in {"absent", "purged"})

\* A process holds the lock without a sweep, or more often than its sweep took it.
Leaked == \E s \in Sweepers : lock.by = s /\ lock.holds > (IF sweep[s].pc = "idle" THEN 0 ELSE 1)

\* While no leak lasts for ever, what is due is reaped, and bytes that no row
\* points to are removed.
NothingLingers == []<>~Leaked => \A u \in Uploads : [](Lingers(u) => <>~Lingers(u))
=============================================================================
