----------------------------- MODULE GravStore ------------------------------
(***************************************************************************)
(* How the goroutines of the pool share the store (stratum/storage.go).    *)
(* Every operation loads the latest snapshot, waits while another one      *)
(* migrates the store, migrates it itself when it has DBMaxSnapshot        *)
(* versions, and works on the snapshot; a write commits its tree at the    *)
(* end.  Most writers hold the flag Writing, which readers and             *)
(* OverwritePendingPayments do without; both Writing and migrating are     *)
(* plain integers, tested in one step and set in another.                  *)
(*                                                                         *)
(* SwapGravDB moves the latest snapshot to a new store: the backup folder  *)
(* becomes backup 2, which a goroutine removes, the store's folder becomes *)
(* the backup, and a store opened in its place is given the old contents.  *)
(*                                                                         *)
(* Abstractions.  The pool uses one tree, and a commit replaces the tree,  *)
(* so the contents of a store are the set of updates it shows.  Graviton   *)
(* and the file system are external: a store that is closed has no         *)
(* snapshots and takes no commits, and a folder is renamed only if it is   *)
(* there and no other stands in the way.  The code ignores these errors;   *)
(* using a snapshot it did not get is a panic, which ends the process.     *)
(***************************************************************************)
EXTENDS Integers, Sequences, FiniteSets

CONSTANTS
    Procs,          \* the goroutines
    Writers,        \* those whose operation writes
    Guarded,        \* those that hold Writing around it
    DBMaxSnapshot,  \* versions after which the store is migrated
    MaxOps,         \* bound: operations
    MaxCrashes      \* bound: crashes, panics not counted

ASSUME ProcsAssumption == Writers \subseteq Procs /\ Guarded \subseteq Procs
ASSUME StoreBoundsAssumption ==
    DBMaxSnapshot \in Nat \ {0} /\ MaxOps \in Nat /\ MaxCrashes \in Nat

VARIABLES
    disks,      \* every store ever made: the updates it shows, its version
    dir,        \* folder DBPath: the store in it, or 0
    bak,        \* folder DBFolder_bak, or 0
    bak2,       \* folder DBFolder_bak2, or 0
    removing,   \* a goroutine is removing backup 2
    opened,     \* handles opened so far, by number: the store of each
    closed,     \* the handles closed
    DB,         \* g.DB, a handle
    migrating,  \* g.migrating
    Writing,    \* g.Writing
    pc,         \* where a goroutine is in its operation
    store,      \* its variable store, a handle
    ss,         \* its variable ss, a snapshot
    treeKV,     \* what it carries over when it migrates the store
    update,     \* the update it writes
    ops,        \* history: operations begun
    acked,      \* history: updates whose operation has returned
    overlapped, \* history: an operation has begun during another one
    cut,        \* history: a crash or panic has interrupted a migration
    crashes     \* history: budget of crashes

folders == <<dir, bak, bak2, removing>>
handles == <<opened, closed, DB>>
flags   == <<migrating, Writing>>
locals  == <<store, ss, treeKV, update>>
history == <<ops, acked, overlapped, cut, crashes>>
vars    == <<disks, folders, handles, flags, pc, locals, history>>

NoSnapshot == [data |-> {}, version |-> -1]
EmptyStore == [data |-> {}, version |-> 0]
Swapping == {"copy", "rename", "open", "fill", "done"}
States == {"idle", "take", "load", "check", "version", "reload", "apply",
           "release"} \cup Swapping

Updates == 1..MaxOps
Snapshots == [data : SUBSET Updates, version : Nat \cup {-1}]

TypeOK ==
    /\ disks \in Seq([data : SUBSET Updates, version : Nat])
    /\ {dir, bak, bak2} \subseteq 0..Len(disks) /\ removing \in BOOLEAN
    /\ opened \in Seq(1..Len(disks)) /\ closed \subseteq 1..Len(opened)
    /\ DB \in 1..Len(opened)
    /\ migrating \in 0..1 /\ Writing \in 0..1
    /\ pc \in [Procs -> States]
    /\ store \in [Procs -> 0..Len(opened)] /\ ss \in [Procs -> Snapshots]
    /\ treeKV \in [Procs -> SUBSET Updates] /\ update \in [Procs -> 0..MaxOps]
    /\ ops \in 0..MaxOps /\ acked \subseteq Updates
    /\ overlapped \in BOOLEAN /\ cut \in BOOLEAN /\ crashes \in Nat

Init ==
    /\ disks = <<EmptyStore>>
    /\ dir = 1 /\ bak = 0 /\ bak2 = 0 /\ removing = FALSE
    /\ opened = <<1>> /\ closed = {} /\ DB = 1
    /\ migrating = 0 /\ Writing = 0
    /\ pc = [p \in Procs |-> "idle"]
    /\ store = [p \in Procs |-> 0] /\ ss = [p \in Procs |-> NoSnapshot]
    /\ treeKV = [p \in Procs |-> {}] /\ update = [p \in Procs |-> 0]
    /\ ops = 0 /\ acked = {} /\ crashes = MaxCrashes
    /\ overlapped = FALSE /\ cut = FALSE

LoadSnapshot(h) == IF h \in closed THEN NoSnapshot ELSE disks[opened[h]]

Goto(p, from, to) == pc[p] = from /\ pc' = [pc EXCEPT ![p] = to]

-----------------------------------------------------------------------------
(* An operation.                                                           *)

(* A guarded operation waits for Writing to be 0, and sets it only then.   *)
Begin(p) ==
    /\ ops < MaxOps
    /\ p \in Guarded => Writing = 0
    /\ Goto(p, "idle", IF p \in Guarded THEN "take" ELSE "load")
    /\ ops' = ops + 1
    /\ update' = [update EXCEPT ![p] = ops + 1]
    /\ overlapped' = (overlapped \/ \E q \in Procs : pc[q] # "idle")
    /\ UNCHANGED <<disks, folders, handles, flags, store, ss, treeKV, acked,
                   cut, crashes>>

TakeWriting(p) ==
    /\ Goto(p, "take", "load")
    /\ Writing' = 1
    /\ UNCHANGED <<disks, folders, handles, migrating, locals, history>>

(* store = g.DB; ss, _ = store.LoadSnapshot(0) *)
Load(p) ==
    /\ store' = [store EXCEPT ![p] = DB]
    /\ ss' = [ss EXCEPT ![p] = LoadSnapshot(DB)]
    /\ UNCHANGED <<disks, folders, handles, flags, treeKV, update, history>>

FirstLoad(p) == Goto(p, "load", "check") /\ Load(p)

(* The loop around migrating: its test, and its body after the sleep.      *)
TestMigrating(p) ==
    /\ Goto(p, "check", IF migrating = 1 THEN "load" ELSE "version")
    /\ UNCHANGED <<disks, folders, handles, flags, locals, history>>

OverLimit(p) == ss[p].version >= DBMaxSnapshot

TestVersion(p) ==
    /\ ss[p] # NoSnapshot
    /\ ~OverLimit(p)
    /\ Goto(p, "version", "apply")
    /\ UNCHANGED <<disks, folders, handles, flags, locals, history>>

Reload(p) == Goto(p, "reload", "apply") /\ Load(p)

(* The update is put into the tree of the snapshot, and the tree replaces  *)
(* the one in the store.  The error of a commit is logged and dropped.     *)
Commit(h, data) ==
    IF h \in closed
    THEN UNCHANGED disks
    ELSE disks' = [disks EXCEPT ![opened[h]] =
                       [data |-> data, version |-> @.version + 1]]

Apply(p) ==
    /\ ss[p] # NoSnapshot
    /\ Goto(p, "apply", "release")
    /\ IF p \in Writers
       THEN /\ Commit(store[p], ss[p].data \cup {update[p]})
            /\ acked' = acked \cup {update[p]}
       ELSE UNCHANGED <<disks, acked>>
    /\ UNCHANGED <<folders, handles, flags, locals, ops, overlapped, cut,
                   crashes>>

(* Writing is set to 0, and the goroutine forgets its variables.           *)
Release(p) ==
    /\ Goto(p, "release", "idle")
    /\ Writing' = IF p \in Guarded THEN 0 ELSE Writing
    /\ store' = [store EXCEPT ![p] = 0]
    /\ ss' = [ss EXCEPT ![p] = NoSnapshot]
    /\ treeKV' = [treeKV EXCEPT ![p] = {}]
    /\ update' = [update EXCEPT ![p] = 0]
    /\ UNCHANGED <<disks, folders, handles, migrating, history>>

-----------------------------------------------------------------------------
(* SwapGravDB.                                                             *)

(* The flag is set; backup becomes backup 2 if the last one is gone, and a *)
(* goroutine goes to remove it.                                            *)
StartSwap(p) ==
    /\ ss[p] # NoSnapshot
    /\ OverLimit(p)
    /\ Goto(p, "version", "copy")
    /\ migrating' = 1
    /\ IF bak # 0 /\ bak2 = 0
       THEN bak2' = bak /\ bak' = 0
       ELSE UNCHANGED <<bak, bak2>>
    /\ removing' = (bak2' # 0)
    /\ UNCHANGED <<disks, dir, handles, Writing, locals, history>>

(* os.RemoveAll, which SwapGravDB does not wait for. *)
RemoveBackup2 ==
    /\ removing
    /\ bak2' = 0 /\ removing' = FALSE
    /\ UNCHANGED <<disks, dir, bak, handles, flags, pc, locals, history>>

(* The latest snapshot of g.DB is read and g.DB closed. *)
CopyAndClose(p) ==
    /\ LoadSnapshot(DB) # NoSnapshot
    /\ Goto(p, "copy", "rename")
    /\ treeKV' = [treeKV EXCEPT ![p] = LoadSnapshot(DB).data]
    /\ closed' = closed \cup {DB}
    /\ UNCHANGED <<disks, folders, opened, DB, flags, store, ss, update, history>>

(* Mutant: the old store is not kept. *)
RenameFolder_Remove(p) ==
    /\ Goto(p, "rename", "open")
    /\ dir' = 0
    /\ UNCHANGED <<disks, bak, bak2, removing, handles, flags, locals, history>>

RenameFolder(p) ==
    /\ Goto(p, "rename", "open")
    /\ IF bak = 0
       THEN bak' = dir /\ dir' = 0
       ELSE UNCHANGED <<bak, dir>>
    /\ UNCHANGED <<disks, bak2, removing, handles, flags, locals, history>>

(* NewDiskStore: the store in the folder is opened, or a new one made.     *)
NewDiskStore ==
    /\ disks' = IF dir = 0 THEN Append(disks, EmptyStore) ELSE disks
    /\ dir' = IF dir = 0 THEN Len(disks) + 1 ELSE dir
    /\ opened' = Append(opened, dir')
    /\ DB' = Len(opened) + 1

OpenStore(p) ==
    /\ Goto(p, "open", "fill")
    /\ NewDiskStore
    /\ UNCHANGED <<bak, bak2, removing, closed, flags, locals, history>>

(* Mutant: the keys are not put into the new tree. *)
FillStore_Empty(p) ==
    /\ Goto(p, "fill", "done")
    /\ Commit(DB, LoadSnapshot(DB).data)
    /\ UNCHANGED <<folders, handles, flags, locals, history>>

(* The keys are put into the tree g.DB has, and committed. *)
FillStore(p) ==
    /\ LoadSnapshot(DB) # NoSnapshot
    /\ Goto(p, "fill", "done")
    /\ Commit(DB, LoadSnapshot(DB).data \cup treeKV[p])
    /\ UNCHANGED <<folders, handles, flags, locals, history>>

(* Mutant: the flag is counted up once more instead of reset. *)
EndSwap_Increment(p) ==
    /\ Goto(p, "done", "reload")
    /\ migrating' = migrating + 1
    /\ UNCHANGED <<disks, folders, handles, Writing, locals, history>>

(* Mutant: the flag is not reset. *)
EndSwap_KeepFlag(p) ==
    /\ Goto(p, "done", "reload")
    /\ UNCHANGED <<disks, folders, handles, flags, locals, history>>

EndSwap(p) ==
    /\ Goto(p, "done", "reload")
    /\ migrating' = 0
    /\ UNCHANGED <<disks, folders, handles, Writing, locals, history>>

-----------------------------------------------------------------------------
(* The process ends and starts again with what is in the folders.          *)

Restart ==
    /\ NewDiskStore
    /\ closed' = 1..Len(opened)
    /\ removing' = FALSE
    /\ migrating' = 0 /\ Writing' = 0
    /\ pc' = [p \in Procs |-> "idle"]
    /\ store' = [p \in Procs |-> 0] /\ ss' = [p \in Procs |-> NoSnapshot]
    /\ treeKV' = [p \in Procs |-> {}] /\ update' = [p \in Procs |-> 0]
    /\ cut' = (cut \/ \E p \in Procs : pc[p] \in Swapping)
    /\ UNCHANGED <<bak, bak2, ops, acked, overlapped>>

Crash ==
    /\ crashes > 0
    /\ crashes' = crashes - 1
    /\ Restart

(* A method of a snapshot, or of its tree, is called without one. *)
Panic(p) ==
    /\ \/ pc[p] \in {"version", "apply"} /\ ss[p] = NoSnapshot
       \/ pc[p] \in {"copy", "fill"} /\ LoadSnapshot(DB) = NoSnapshot
    /\ Restart
    /\ UNCHANGED crashes

Swap(p) ==
    \/ StartSwap(p)
    \/ CopyAndClose(p)
    \/ RenameFolder(p)
    \/ OpenStore(p)
    \/ FillStore(p)
    \/ EndSwap(p)

Operation(p) ==
    \/ TakeWriting(p)
    \/ FirstLoad(p)
    \/ TestMigrating(p)
    \/ TestVersion(p)
    \/ Swap(p)
    \/ Reload(p)
    \/ Apply(p)
    \/ Release(p)
    \/ Panic(p)

Next ==
    \/ \E p \in Procs : Begin(p) \/ Operation(p)
    \/ RemoveBackup2
    \/ Crash

(* A goroutine in an operation is run; nothing makes one begin. *)
Fairness == \A p \in Procs : WF_vars(Operation(p))

Spec == Init /\ [][Next]_vars /\ Fairness

-----------------------------------------------------------------------------
(* Properties.                                                             *)

Current == LoadSnapshot(DB)

(* Without a crash inside a migration, everything acknowledged is in the   *)
(* store whenever no operation is under way: a migration runs while        *)
(* "actions ... pause prior to starting anything extensive" (README.md:144)*)
(* and gives them back the contents it found (storage.go:149-212).         *)
NothingLost ==
    ~cut /\ (\A p \in Procs : pc[p] = "idle") => acked \subseteq Current.data

(* The same as long as operations do not overlap, however often the store  *)
(* has been migrated and whether or not the folders could be renamed.      *)
NothingLostAlone == ~overlapped => NothingLost

(* At every moment, the middle of a migration included, the acknowledged   *)
(* updates are in the folder a restart opens or in the backup next to it,  *)
(* until a crash has made the pool go on with an empty store or operations *)
(* have overlapped (storage.go:152-186).                                   *)
Recoverable ==
    ~cut /\ ~overlapped =>
        \E d \in {dir, bak} \ {0} : acked \subseteq disks[d].data

(* Every operation that has begun ends, whoever migrates meanwhile or has  *)
(* to be waited for, and so does every migration, part of an operation.    *)
OperationsEnd == \A p \in Procs : pc[p] # "idle" ~> pc[p] = "idle"
=============================================================================
