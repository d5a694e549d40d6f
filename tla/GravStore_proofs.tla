--------------------------- MODULE GravStore_proofs ---------------------------
(***************************************************************************)
(* Proofs about GravStore, for all goroutines, any number of operations    *)
(* and crashes, and any number of versions after which a store is migrated.*)
(***************************************************************************)
EXTENDS GravStore, TLAPS

USE ProcsAssumption, StoreBoundsAssumption

-----------------------------------------------------------------------------
(* Type correctness.  An operation has an update to write from its         *)
(* beginning to its end.                                                   *)

TypeInv ==
    /\ TypeOK
    /\ \A p \in Procs : pc[p] # "idle" => update[p] \in Updates

(* What a store shows. *)
Disk == [data : SUBSET Updates, version : Nat]

LEMMA StoreTypes ==
    TypeOK => /\ disks \in Seq(Disk) /\ Len(disks) \in Nat
              /\ opened \in Seq(1..Len(disks)) /\ Len(opened) \in Nat
              /\ dir \in 0..Len(disks) /\ DB \in 1..Len(opened)
BY DEF TypeOK, Disk

LEMMA Shown ==
    /\ \A d \in Disk : /\ d.data \in SUBSET Updates /\ d.version \in Nat
                       /\ d \in Snapshots /\ d # NoSnapshot
    /\ NoSnapshot \in Snapshots /\ EmptyStore \in Disk
    /\ \A d \in SUBSET Updates, v \in Nat : [data |-> d, version |-> v] \in Disk
<1>1. ASSUME NEW d \in Disk
      PROVE  /\ d.data \in SUBSET Updates /\ d.version \in Nat
             /\ d \in Snapshots /\ d # NoSnapshot
  <2>1. d.data \in SUBSET Updates /\ d.version \in Nat
    BY DEF Disk
  <2>2. d \in Snapshots
    BY <2>1 DEF Disk, Snapshots
  <2>3. d.version # -1
    BY <2>1
  <2>4. QED
    BY <2>1, <2>2, <2>3 DEF NoSnapshot
<1>2. NoSnapshot \in Snapshots
    BY DEF NoSnapshot, Snapshots
<1>3. EmptyStore \in Disk
    BY DEF EmptyStore, Disk
<1>4. \A d \in SUBSET Updates, v \in Nat : [data |-> d, version |-> v] \in Disk
    BY DEF Disk
<1>5. QED
    BY <1>1, <1>2, <1>3, <1>4

LEMMA InitType == Init => TypeInv
<1> SUFFICES ASSUME Init PROVE TypeInv
    OBVIOUS
<1>1. disks \in Seq(Disk) /\ Len(disks) = 1
    BY Shown DEF Init
<1>2. opened \in Seq(1..1) /\ Len(opened) = 1
    BY DEF Init
<1>3. /\ pc \in [Procs -> States] /\ store \in [Procs -> 0..Len(opened)]
      /\ ss \in [Procs -> Snapshots] /\ treeKV \in [Procs -> SUBSET Updates]
      /\ update \in [Procs -> 0..MaxOps]
      /\ \A p \in Procs : pc[p] = "idle"
    BY <1>2, Shown DEF Init, States
<1>4. disks \in Seq([data : SUBSET Updates, version : Nat])
    BY <1>1 DEF Disk
<1>5. /\ {dir, bak, bak2} \subseteq 0..Len(disks) /\ removing \in BOOLEAN
      /\ closed \subseteq 1..Len(opened) /\ DB \in 1..Len(opened)
      /\ migrating \in 0..1 /\ Writing \in 0..1
  <2>1. /\ dir = 1 /\ bak = 0 /\ bak2 = 0 /\ removing = FALSE
        /\ closed = {} /\ DB = 1 /\ migrating = 0 /\ Writing = 0
    BY DEF Init
  <2>2. removing \in BOOLEAN
    BY <2>1
  <2>3. /\ {dir, bak, bak2} \subseteq 0..Len(disks)
        /\ closed \subseteq 1..Len(opened) /\ DB \in 1..Len(opened)
        /\ migrating \in 0..1 /\ Writing \in 0..1
    BY <1>1, <1>2, <2>1
  <2>4. QED
    BY <2>2, <2>3
<1>6. /\ ops \in 0..MaxOps /\ acked \subseteq Updates
      /\ overlapped \in BOOLEAN /\ cut \in BOOLEAN /\ crashes \in Nat
  <2>1. /\ ops = 0 /\ acked = {} /\ crashes = MaxCrashes
        /\ overlapped = FALSE /\ cut = FALSE
    BY DEF Init
  <2>2. overlapped \in BOOLEAN /\ cut \in BOOLEAN
    BY <2>1
  <2>3. ops \in 0..MaxOps /\ acked \subseteq Updates /\ crashes \in Nat
    BY <2>1
  <2>4. QED
    BY <2>2, <2>3
<1>7. opened \in Seq(1..Len(disks))
    BY <1>1, <1>2
<1>8. TypeOK
    BY <1>1, <1>3, <1>4, <1>5, <1>6, <1>7 DEF TypeOK
<1>9. QED
    BY <1>3, <1>8 DEF TypeInv

(* What a handle shows. *)
LEMMA Loaded ==
    ASSUME TypeOK, NEW h \in 1..Len(opened)
    PROVE  /\ opened[h] \in 1..Len(disks)
           /\ LoadSnapshot(h) \in Snapshots
           /\ h \notin closed => /\ LoadSnapshot(h) = disks[opened[h]]
                                 /\ LoadSnapshot(h) # NoSnapshot
<1>1. opened[h] \in 1..Len(disks)
    BY StoreTypes
<1>2. disks[opened[h]] \in Disk
    BY <1>1, StoreTypes
<1>3. QED
    BY <1>1, <1>2, Shown DEF LoadSnapshot

(* What a commit leaves. *)
LEMMA Committed ==
    ASSUME TypeOK, NEW h \in 0..Len(opened), NEW data \in SUBSET Updates,
           Commit(h, data)
    PROVE  /\ disks' \in Seq(Disk)
           /\ Len(disks') = Len(disks)
           /\ h \in 1..Len(opened) /\ h \notin closed =>
                 disks'[opened[h]].data = data
<1>1. CASE h \in closed
    BY <1>1, StoreTypes DEF Commit
<1>2. CASE h \notin closed
  <2> DEFINE s == opened[h]
             d == [data |-> data, version |-> disks[s].version + 1]
  <2>1. disks' = [disks EXCEPT ![s] = d]
    BY <1>2 DEF Commit
  <2>2. CASE s \in 1..Len(disks)
    <3>1. d \in Disk
      <4>1. disks[s] \in Disk
        BY <2>2, StoreTypes
      <4>2. disks[s].version + 1 \in Nat
        BY <4>1, Shown
      <4>3. QED
        BY <4>2, Shown
    <3>2. d.data = data
        OBVIOUS
    <3> HIDE DEF d
    <3>3. disks' \in Seq(Disk) /\ Len(disks') = Len(disks) /\ disks'[s] = d
        BY <2>1, <2>2, <3>1, StoreTypes
    <3>4. QED
        BY <3>2, <3>3
  <2>3. CASE s \notin 1..Len(disks)
    <3>1. DOMAIN disks = 1..Len(disks)
        BY StoreTypes
    <3> HIDE DEF d
    <3>2. disks' = disks
        BY <2>1, <2>3, <3>1, StoreTypes
    <3>3. ~(h \in 1..Len(opened))
        BY <2>3, Loaded
    <3>4. QED
        BY <3>2, <3>3, StoreTypes
  <2>4. QED
    BY <2>2, <2>3
<1>3. QED
    BY <1>1, <1>2

(* What opening a store does. *)
LEMMA Opened ==
    ASSUME TypeOK, NewDiskStore
    PROVE  /\ disks' \in Seq(Disk)
           /\ Len(disks') \in Nat /\ Len(disks) <= Len(disks')
           /\ \A d \in 1..Len(disks) : disks'[d] = disks[d]
           /\ dir' \in 1..Len(disks') /\ (dir # 0 => dir' = dir)
           /\ opened' \in Seq(1..Len(disks'))
           /\ Len(opened') = Len(opened) + 1 /\ DB' = Len(opened')
           /\ opened'[DB'] = dir'
<1>1. /\ disks' \in Seq(Disk)
      /\ Len(disks') \in Nat /\ Len(disks) <= Len(disks')
      /\ \A d \in 1..Len(disks) : disks'[d] = disks[d]
      /\ dir' \in 1..Len(disks') /\ (dir # 0 => dir' = dir)
  <2>1. CASE dir = 0
    <3>1. disks' = Append(disks, EmptyStore) /\ dir' = Len(disks) + 1
        BY <2>1 DEF NewDiskStore
    <3>2. QED
        BY <2>1, <3>1, StoreTypes, Shown
  <2>2. CASE dir # 0
    <3>1. disks' = disks /\ dir' = dir
        BY <2>2 DEF NewDiskStore
    <3>2. QED
        BY <2>2, <3>1, StoreTypes
  <2>3. QED
    BY <2>1, <2>2
<1>2. opened' = Append(opened, dir') /\ DB' = Len(opened) + 1
    BY DEF NewDiskStore
<1>3. opened \in Seq(1..Len(disks'))
    BY <1>1, StoreTypes
<1>4. QED
    BY <1>1, <1>2, <1>3, StoreTypes

LEMMA NextType == TypeInv /\ [Next]_vars => TypeInv'
<1> SUFFICES ASSUME TypeInv, [Next]_vars PROVE TypeInv'
    OBVIOUS
<1> DEFINE Stores == /\ disks \in Seq(Disk) /\ opened \in Seq(1..Len(disks))
                     /\ {dir, bak, bak2} \subseteq 0..Len(disks)
                     /\ closed \subseteq 1..Len(opened)
                     /\ DB \in 1..Len(opened)
           Locals == /\ pc \in [Procs -> States]
                     /\ store \in [Procs -> 0..Len(opened)]
                     /\ ss \in [Procs -> Snapshots]
                     /\ treeKV \in [Procs -> SUBSET Updates]
                     /\ update \in [Procs -> 0..MaxOps]
                     /\ \A p \in Procs : pc[p] # "idle" => update[p] \in Updates
           Scalars == /\ removing \in BOOLEAN
                      /\ migrating \in 0..1 /\ Writing \in 0..1
                      /\ ops \in 0..MaxOps /\ acked \subseteq Updates
                      /\ overlapped \in BOOLEAN /\ cut \in BOOLEAN
                      /\ crashes \in Nat
<1>1. TypeOK /\ Stores /\ Locals /\ Scalars
    BY DEF TypeInv, TypeOK, Disk
<1>2. ASSUME Stores', Locals', Scalars'
      PROVE  TypeInv'
    BY <1>2 DEF TypeInv, TypeOK, Disk
<1>3. ASSUME NEW p \in Procs, NEW a, NEW b \in States, Goto(p, a, b)
      PROVE  pc' \in [Procs -> States] /\ pc[p] = a
               /\ \A q \in Procs : pc'[q] = IF q = p THEN b ELSE pc[q]
    BY <1>1, <1>3 DEF Goto
<1>4. ASSUME NEW p \in Procs, Begin(p)
      PROVE  TypeInv'
  <2>1. ops \in 0..MaxOps /\ ops' = ops + 1 /\ ops' \in Updates
    BY <1>1, <1>4 DEF Begin, Updates
  <2>2. Goto(p, "idle", IF p \in Guarded THEN "take" ELSE "load")
          /\ update' = [update EXCEPT ![p] = ops']
          /\ UNCHANGED <<opened, store, ss, treeKV>>
    BY <1>4 DEF Begin, handles
  <2>3. pc' \in [Procs -> States] /\
           \A q \in Procs : q # p => pc'[q] = pc[q]
    BY <1>3, <2>2 DEF States
  <2>4. Locals'
    <3>1. ops' \in 0..MaxOps
        BY <2>1 DEF Updates
    <3>2. update' \in [Procs -> 0..MaxOps]
        BY <1>1, <2>2, <3>1
    <3>3. \A q \in Procs : pc'[q] # "idle" => update'[q] \in Updates
        BY <1>1, <2>1, <2>2, <2>3
    <3>4. QED
        BY <1>1, <2>2, <2>3, <3>2, <3>3
  <2>5. Stores'
    BY <1>1, <1>4 DEF Begin, folders, handles
  <2>6. Scalars'
    BY <1>1, <1>4, <2>1 DEF Begin, folders, flags, Updates
  <2>7. QED
    BY <1>2, <2>4, <2>5, <2>6
<1>5. ASSUME NEW p \in Procs,
             TakeWriting(p) \/ TestMigrating(p) \/ TestVersion(p)
      PROVE  TypeInv'
  <2>1. /\ UNCHANGED <<disks, folders, handles, migrating, locals, history>>
        /\ Writing' \in {1, Writing}
        /\ \E b \in States \ {"idle"}, a \in States \ {"idle"} : Goto(p, a, b)
    BY <1>5 DEF TakeWriting, TestMigrating, TestVersion, flags, States
  <2>2. Locals'
    BY <1>1, <1>3, <2>1 DEF handles, locals
  <2>3. Stores' /\ Scalars'
    BY <1>1, <2>1 DEF folders, handles, history
  <2>4. QED
    BY <1>2, <2>2, <2>3
<1>6. ASSUME NEW p \in Procs, FirstLoad(p) \/ Reload(p)
      PROVE  TypeInv'
  <2>1. /\ Load(p)
        /\ \E b \in States \ {"idle"}, a \in States \ {"idle"} : Goto(p, a, b)
    BY <1>6 DEF FirstLoad, Reload, States
  <2>2. LoadSnapshot(DB) \in Snapshots
    BY <1>1, Loaded
  <2>3. Locals'
    BY <1>1, <1>3, <2>1, <2>2 DEF Load, handles
  <2>4. Stores' /\ Scalars'
    BY <1>1, <2>1 DEF Load, folders, handles, flags, history
  <2>5. QED
    BY <1>2, <2>3, <2>4
<1>7. ASSUME NEW p \in Procs, Apply(p)
      PROVE  TypeInv'
  <2>1. Goto(p, "apply", "release")
          /\ UNCHANGED <<folders, handles, flags, locals, ops, overlapped, cut,
                         crashes>>
    BY <1>7 DEF Apply
  <2>2. update[p] \in Updates /\ ss[p] \in Snapshots
          /\ store[p] \in 0..Len(opened)
    BY <1>1, <2>1 DEF Goto
  <2>3. ss[p].data \cup {update[p]} \in SUBSET Updates
    BY <2>2 DEF Snapshots
  <2>4. /\ disks' \in Seq(Disk) /\ Len(disks') = Len(disks)
        /\ acked' \subseteq Updates
    BY <1>1, <1>7, <2>2, <2>3, Committed DEF Apply
  <2>5. Locals'
    BY <1>1, <1>3, <2>1 DEF handles, locals, States
  <2>6. Stores'
    BY <1>1, <2>1, <2>4 DEF folders, handles
  <2>7. Scalars'
    BY <1>1, <2>1, <2>4 DEF folders, flags
  <2>8. QED
    BY <1>2, <2>5, <2>6, <2>7
<1>8. ASSUME NEW p \in Procs, Release(p)
      PROVE  TypeInv'
  <2>1. Goto(p, "release", "idle") /\ Writing' \in {0, Writing}
          /\ UNCHANGED <<disks, folders, handles, migrating, history>>
    BY <1>8 DEF Release
  <2>2. Locals'
    BY <1>1, <1>3, <1>8, <2>1, Shown DEF Release, handles, States
  <2>3. Stores' /\ Scalars'
    BY <1>1, <2>1 DEF folders, handles, history
  <2>4. QED
    BY <1>2, <2>2, <2>3
<1>9. ASSUME NEW p \in Procs,
             StartSwap(p) \/ CopyAndClose(p) \/ RenameFolder(p) \/ EndSwap(p)
      PROVE  TypeInv'
  <2>1. /\ UNCHANGED <<disks, opened, DB, Writing, store, ss, update, history>>
        /\ \E b \in States \ {"idle"}, a \in States \ {"idle"} : Goto(p, a, b)
    BY <1>9 DEF StartSwap, CopyAndClose, RenameFolder, EndSwap, folders,
               handles, flags, locals, States, Swapping
  <2>2. /\ LoadSnapshot(DB) \in Snapshots
        /\ treeKV' \in {treeKV, [treeKV EXCEPT ![p] = LoadSnapshot(DB).data]}
        /\ migrating' \in {0, 1, migrating}
        /\ removing' \in {removing, bak2' # 0}
        /\ closed' \in {closed, closed \cup {DB}}
        /\ {dir', bak', bak2'} \subseteq {0, dir, bak, bak2}
    BY <1>1, <1>9, Loaded DEF StartSwap, CopyAndClose, RenameFolder, EndSwap,
               folders, handles, flags, locals
  <2>3. LoadSnapshot(DB).data \subseteq Updates
    BY <2>2 DEF Snapshots
  <2>4. Locals'
    BY <1>1, <1>3, <2>1, <2>2, <2>3
  <2>5. Stores'
    <3>1. UNCHANGED <<disks, opened, DB>> /\ DB \in 1..Len(opened)
        BY <1>1, <2>1
    <3>2. {dir', bak', bak2'} \subseteq 0..Len(disks)
        BY <1>1, <2>2
    <3>3. closed' \subseteq 1..Len(opened)
        BY <1>1, <2>2, <3>1
    <3>4. QED
        BY <1>1, <3>1, <3>2, <3>3
  <2>6. Scalars'
    <3>1. removing' \in BOOLEAN
        BY <1>1, <2>2
    <3>2. migrating' \in 0..1
        BY <1>1, <2>2
    <3>3. QED
        BY <1>1, <2>1, <3>1, <3>2 DEF history
  <2>7. QED
    BY <1>2, <2>4, <2>5, <2>6
<1>10. ASSUME NewDiskStore, {bak', bak2'} \subseteq {0, bak, bak2},
              closed' \in {closed, 1..Len(opened)}
       PROVE  Stores' /\ Len(opened) <= Len(opened')
  <2>1. /\ disks' \in Seq(Disk)
        /\ Len(disks') \in Nat /\ Len(disks) <= Len(disks')
        /\ dir' \in 1..Len(disks') /\ opened' \in Seq(1..Len(disks'))
        /\ Len(opened') = Len(opened) + 1 /\ DB' = Len(opened')
    BY <1>1, <1>10, Opened
  <2>2. /\ {bak', bak2'} \subseteq 0..Len(disks')
        /\ Len(opened) \in Nat /\ Len(opened) <= Len(opened')
    <3>1. Len(opened) \in Nat /\ Len(disks) \in Nat
        BY StoreTypes
    <3>2. bak \in 0..Len(disks) /\ bak2 \in 0..Len(disks)
        BY <1>1
    <3>3. 0..Len(disks) \subseteq 0..Len(disks')
        BY <2>1, <3>1
    <3>4. QED
        BY <1>10, <2>1, <3>1, <3>2, <3>3
  <2>3. closed' \subseteq 1..Len(opened')
    <3>1. closed \subseteq 1..Len(opened)
        BY <1>1
    <3>2. closed' \subseteq 1..Len(opened)
        BY <1>10, <3>1
    <3>3. /\ Len(opened) \in Nat /\ Len(opened') \in Nat
          /\ Len(opened) <= Len(opened')
        BY <2>1, <2>2
    <3>4. 1..Len(opened) \subseteq 1..Len(opened')
        BY <3>3
    <3>5. QED
        BY <3>2, <3>4
  <2>4. {dir', bak', bak2'} \subseteq 0..Len(disks')
    BY <2>1, <2>2
  <2>5. DB' \in 1..Len(opened')
    BY <2>1, <2>2
  <2>6. QED
    BY <2>1, <2>2, <2>3, <2>4, <2>5
<1>11. ASSUME NEW p \in Procs, OpenStore(p)
       PROVE  TypeInv'
  <2>1. Goto(p, "open", "fill") /\ NewDiskStore
          /\ UNCHANGED <<bak, bak2, removing, closed, flags, locals, history>>
    BY <1>11 DEF OpenStore
  <2>2. Stores' /\ Len(opened) <= Len(opened')
    BY <1>10, <2>1
  <2>3. Len(opened) \in Nat /\ Len(opened') \in Nat
    BY <1>1, <2>2, StoreTypes
  <2>4. store' \in [Procs -> 0..Len(opened')]
    BY <1>1, <2>1, <2>2, <2>3 DEF locals
  <2>5. Locals'
    BY <1>1, <1>3, <2>1, <2>4 DEF locals, States, Swapping
  <2>6. Scalars'
    BY <1>1, <2>1 DEF flags, history
  <2>7. QED
    BY <1>2, <2>2, <2>5, <2>6
<1>12. ASSUME NEW p \in Procs, FillStore(p)
       PROVE  TypeInv'
  <2>1. /\ Goto(p, "fill", "done")
        /\ Commit(DB, LoadSnapshot(DB).data \cup treeKV[p])
        /\ UNCHANGED <<folders, handles, flags, locals, history>>
    BY <1>12 DEF FillStore
  <2>2. LoadSnapshot(DB).data \cup treeKV[p] \in SUBSET Updates
    BY <1>1, Loaded DEF Snapshots
  <2>3. disks' \in Seq(Disk) /\ Len(disks') = Len(disks)
    BY <1>1, <2>1, <2>2, Committed
  <2>4. Locals'
    BY <1>1, <1>3, <2>1 DEF handles, locals, States, Swapping
  <2>5. Stores'
    BY <1>1, <2>1, <2>3 DEF folders, handles
  <2>6. Scalars'
    BY <1>1, <2>1 DEF folders, flags, history
  <2>7. QED
    BY <1>2, <2>4, <2>5, <2>6
<1>13. ASSUME Restart, crashes' \in Nat
       PROVE  TypeInv'
  <2>1. Stores'
    BY <1>10, <1>13 DEF Restart
  <2>2. Len(opened') \in Nat
    BY <2>1
  <2>3. Locals'
    BY <1>13, <2>2, Shown DEF Restart, States
  <2>4. Scalars'
    <3>1. cut' \in BOOLEAN /\ removing' = FALSE /\ migrating' = 0
            /\ Writing' = 0 /\ UNCHANGED <<ops, acked, overlapped>>
        BY <1>13 DEF Restart
    <3>2. removing' \in BOOLEAN
        BY <3>1
    <3>3. QED
        BY <1>1, <1>13, <3>1, <3>2
  <2>5. QED
    BY <1>2, <2>1, <2>3, <2>4
<1>14. ASSUME Crash \/ \E p \in Procs : Panic(p)
       PROVE  TypeInv'
    BY <1>1, <1>13, <1>14 DEF Crash, Panic
<1>15. ASSUME RemoveBackup2 \/ UNCHANGED vars
       PROVE  TypeInv'
  <2>1. /\ UNCHANGED <<disks, dir, bak, handles, flags, pc, locals, history>>
        /\ bak2' \in {0, bak2} /\ removing' \in {FALSE, removing}
    BY <1>15 DEF RemoveBackup2, vars, folders
  <2>2. Stores' /\ Locals'
    BY <1>1, <2>1 DEF handles, locals
  <2>3. Scalars'
    BY <1>1, <2>1 DEF flags, history
  <2>4. QED
    BY <1>2, <2>2, <2>3
<1>16. QED
    BY <1>4, <1>5, <1>6, <1>7, <1>8, <1>9, <1>11, <1>12, <1>14, <1>15
       DEF Next, Operation, Swap

LEMMA TypeInvariance == Spec => []TypeInv
BY InitType, NextType, PTL DEF Spec

(* Every variable keeps its type: folders and handles are of stores that   *)
(* have been made, and what is shown are updates of operations that have   *)
(* begun.                                                                  *)
THEOREM TypeCorrect == Spec => []TypeOK
<1>1. TypeInv => TypeOK
    BY DEF TypeInv
<1>2. QED
    BY TypeInvariance, <1>1, PTL

-----------------------------------------------------------------------------
(* Nothing is lost.  As long as no operations overlap and no migration has *)
(* been cut short, one goroutine is in an operation, what it has loaded is *)
(* what the store shows, and the store in the folder is the one in use and *)
(* has all that was acknowledged, but for the time the goroutine needs to  *)
(* put it somewhere else, when the goroutine has it in hand.               *)

Alone == \A p, q \in Procs : pc[p] # "idle" /\ pc[q] # "idle" => p = q

At(S) == \E p \in Procs : pc[p] \in S

InHand ==
    \A p \in Procs :
        /\ pc[p] \in {"check", "version", "apply"} =>
              store[p] = DB /\ ss[p] = LoadSnapshot(DB)
        /\ pc[p] \in {"rename", "open", "fill"} => acked \subseteq treeKV[p]

InFolder ==
    /\ ~At({"open"}) => dir # 0 /\ opened[DB] = dir
    /\ ~At({"rename", "open"}) => DB \notin closed
    /\ ~At({"open", "fill"}) => acked \subseteq disks[dir].data

Survives == \E d \in {dir, bak} \ {0} : acked \subseteq disks[d].data

Safe == ~cut /\ ~overlapped => Alone /\ InHand /\ InFolder /\ Survives

IInv == TypeInv /\ Safe

LEMMA InitSafe == Init => Safe
<1> SUFFICES ASSUME Init PROVE Safe
    OBVIOUS
<1>1. /\ disks[1].data = {} /\ dir = 1 /\ opened[1] = 1 /\ DB = 1
      /\ closed = {} /\ acked = {} /\ \A p \in Procs : pc[p] = "idle"
    BY DEF Init, EmptyStore
<1>2. Survives
    BY <1>1 DEF Survives
<1>3. QED
    BY <1>1, <1>2 DEF Safe, Alone, InHand, InFolder, At

LEMMA NextSafe == TypeInv /\ Safe /\ [Next]_vars => Safe'
<1> SUFFICES ASSUME TypeInv, Safe, [Next]_vars, ~cut', ~overlapped'
             PROVE  Safe'
    BY DEF Safe
<1>1. TypeOK
    BY DEF TypeInv
<1>2. /\ opened[DB] \in 1..Len(disks)
      /\ DB \notin closed => LoadSnapshot(DB) = disks[opened[DB]]
      /\ DB \in 1..Len(opened) /\ closed \subseteq 1..Len(opened)
      /\ Len(opened) \in Nat /\ Len(disks) \in Nat
      /\ dir \in 0..Len(disks) /\ bak \in 0..Len(disks)
    BY <1>1, Loaded, StoreTypes DEF TypeOK
<1>3. ASSUME ~cut, ~overlapped
      PROVE  Alone /\ InHand /\ InFolder /\ Survives
    BY <1>3 DEF Safe
<1>4. ASSUME Alone', InHand', InFolder', Survives'
      PROVE  Safe'
    BY <1>4 DEF Safe
<1> DEFINE Moved(p, a, b) ==
               /\ pc[p] = a /\ pc'[p] = b /\ Alone'
               /\ \A q \in Procs : q # p => pc[q] = "idle" /\ pc'[q] = "idle"
               /\ At({"open"}) <=> a = "open"
               /\ At({"rename", "open"}) <=> a \in {"rename", "open"}
               /\ At({"open", "fill"}) <=> a \in {"open", "fill"}
               /\ At({"open"})' <=> b = "open"
               /\ At({"rename", "open"})' <=> b \in {"rename", "open"}
               /\ At({"open", "fill"})' <=> b \in {"open", "fill"}
<1>5. ASSUME NEW p \in Procs, NEW a \in States \ {"idle"}, NEW b \in States,
             Goto(p, a, b), ~cut, ~overlapped
      PROVE  Moved(p, a, b)
  <2>1. pc[p] = a /\ pc' = [pc EXCEPT ![p] = b] /\ pc \in [Procs -> States]
    BY <1>1, <1>5 DEF Goto, TypeOK
  <2>2. \A q \in Procs : q # p => pc[q] = "idle"
    BY <1>3, <1>5, <2>1 DEF Alone
  <2>3. pc'[p] = b /\ \A q \in Procs : q # p => pc'[q] = "idle"
    BY <2>1, <2>2
  <2>4. Alone'
    BY <2>3 DEF Alone
  <2>5. /\ At({"open"}) <=> a = "open"
        /\ At({"rename", "open"}) <=> a \in {"rename", "open"}
        /\ At({"open", "fill"}) <=> a \in {"open", "fill"}
    BY <2>1, <2>2 DEF At
  <2>6. /\ At({"open"})' <=> b = "open"
        /\ At({"rename", "open"})' <=> b \in {"rename", "open"}
        /\ At({"open", "fill"})' <=> b \in {"open", "fill"}
    BY <2>3 DEF At
  <2>7. QED
    BY <2>1, <2>2, <2>3, <2>4, <2>5, <2>6
<1> USE DEF folders, handles, flags, locals, history
<1>6. ASSUME NEW p \in Procs, Begin(p)
      PROVE  Safe'
  <2>1. /\ ~cut /\ ~overlapped /\ \A q \in Procs : pc[q] = "idle"
        /\ Goto(p, "idle", IF p \in Guarded THEN "take" ELSE "load")
        /\ UNCHANGED <<disks, folders, handles, acked>>
    BY <1>6 DEF Begin
  <2>2. /\ \A q \in Procs : q # p => pc'[q] = "idle"
        /\ pc'[p] \in {"take", "load"}
    BY <1>1, <2>1 DEF Goto, TypeOK
  <2>3. \A S : At(S) => "idle" \in S
    BY <2>1 DEF At
  <2>4. InFolder' /\ Alone' /\ InHand'
    BY <1>3, <2>1, <2>2, <2>3 DEF InFolder, Alone, InHand, At
  <2>5. Survives'
    BY <1>3, <2>1 DEF Survives
  <2>6. QED
    BY <1>4, <2>4, <2>5
<1>7. ASSUME NEW p \in Procs,
             TakeWriting(p) \/ TestMigrating(p) \/ TestVersion(p) \/ EndSwap(p)
      PROVE  Safe'
  <2>1. /\ ~cut /\ ~overlapped
        /\ UNCHANGED <<disks, folders, handles, locals, acked>>
    BY <1>7 DEF TakeWriting, TestMigrating, TestVersion, EndSwap
  <2>2. PICK a \in {"take", "check", "version", "done"},
             b \in {"load", "version", "apply", "reload"} :
           /\ Goto(p, a, b)
           /\ b \in {"version", "apply"} => a \in {"check", "version"}
    BY <1>7 DEF TakeWriting, TestMigrating, TestVersion, EndSwap
  <2>3. Moved(p, a, b)
    BY <1>5, <2>1, <2>2 DEF States, Swapping
  <2>4. UNCHANGED LoadSnapshot(DB)
    BY <2>1 DEF LoadSnapshot
  <2>5. InHand'
    BY <1>3, <2>1, <2>2, <2>3, <2>4 DEF InHand
  <2>6. InFolder'
    BY <1>3, <2>1, <2>2, <2>3 DEF InFolder
  <2>7. Survives'
    BY <1>3, <2>1 DEF Survives
  <2>8. QED
    BY <1>4, <2>3, <2>5, <2>6, <2>7
<1>8. ASSUME NEW p \in Procs, FirstLoad(p) \/ Reload(p)
      PROVE  Safe'
  <2>1. /\ ~cut /\ ~overlapped
        /\ UNCHANGED <<disks, folders, handles, treeKV, acked>>
        /\ store' = [store EXCEPT ![p] = DB]
        /\ ss' = [ss EXCEPT ![p] = LoadSnapshot(DB)]
    BY <1>8 DEF FirstLoad, Reload, Load
  <2>2. PICK a \in {"load", "reload"}, b \in {"check", "apply"} : Goto(p, a, b)
    BY <1>8 DEF FirstLoad, Reload
  <2>3. Moved(p, a, b)
    BY <1>5, <2>1, <2>2 DEF States, Swapping
  <2>4. store'[p] = DB' /\ ss'[p] = LoadSnapshot(DB)'
    BY <1>1, <2>1 DEF LoadSnapshot, TypeOK
  <2>5. InHand'
    BY <2>2, <2>3, <2>4 DEF InHand
  <2>6. InFolder'
    BY <1>3, <2>1, <2>2, <2>3 DEF InFolder
  <2>7. Survives'
    BY <1>3, <2>1 DEF Survives
  <2>8. QED
    BY <1>4, <2>3, <2>5, <2>6, <2>7
<1>9. ASSUME NEW p \in Procs, Apply(p)
      PROVE  Safe'
  <2>1. /\ ~cut /\ ~overlapped /\ Goto(p, "apply", "release")
        /\ UNCHANGED <<folders, handles, locals>>
    BY <1>9 DEF Apply
  <2>2. Moved(p, "apply", "release")
    BY <1>5, <2>1 DEF States
  <2>3. /\ store[p] = DB /\ ss[p] = disks[dir] /\ dir # 0 /\ opened[DB] = dir
        /\ DB \notin closed /\ acked \subseteq disks[dir].data
    BY <1>2, <1>3, <2>1, <2>2 DEF InHand, InFolder
  <2>4. acked' \subseteq disks'[dir].data
    <3>1. CASE p \in Writers
      <4>1. Commit(DB, ss[p].data \cup {update[p]})
              /\ acked' = acked \cup {update[p]}
        BY <1>9, <2>3, <3>1 DEF Apply
      <4>2. update[p] \in Updates /\ ss[p] \in Snapshots
        BY <1>1, <2>2 DEF TypeInv, TypeOK
      <4>3. ss[p].data \cup {update[p]} \in SUBSET Updates
        BY <4>2 DEF Snapshots
      <4>4. disks'[dir].data = ss[p].data \cup {update[p]}
        BY <1>1, <1>2, <2>3, <4>1, <4>3, Committed
      <4>5. QED
        BY <2>3, <4>1, <4>4
    <3>2. CASE p \notin Writers
        BY <1>9, <2>3, <3>2 DEF Apply
    <3>3. QED
        BY <3>1, <3>2
  <2>5. InHand' /\ InFolder'
    BY <2>1, <2>2, <2>3, <2>4 DEF InHand, InFolder
  <2>6. Survives'
    BY <2>1, <2>3, <2>4 DEF Survives
  <2>7. QED
    BY <1>4, <2>2, <2>5, <2>6
<1>10. ASSUME NEW p \in Procs, Release(p)
       PROVE  Safe'
  <2>1. /\ ~cut /\ ~overlapped /\ Goto(p, "release", "idle")
        /\ UNCHANGED <<disks, folders, handles, acked>>
    BY <1>10 DEF Release
  <2>2. Moved(p, "release", "idle")
    BY <1>5, <2>1 DEF States
  <2>3. InHand' /\ InFolder'
    BY <1>3, <2>1, <2>2 DEF InHand, InFolder
  <2>4. Survives'
    BY <1>3, <2>1 DEF Survives
  <2>5. QED
    BY <1>4, <2>2, <2>3, <2>4
<1>11. ASSUME NEW p \in Procs, StartSwap(p)
       PROVE  Safe'
  <2>1. /\ ~cut /\ ~overlapped /\ Goto(p, "version", "copy")
        /\ UNCHANGED <<disks, dir, handles, locals, acked>>
    BY <1>11 DEF StartSwap
  <2>2. Moved(p, "version", "copy")
    BY <1>5, <2>1 DEF States, Swapping
  <2>3. InHand' /\ InFolder'
    BY <1>3, <2>1, <2>2 DEF InHand, InFolder
  <2>4. Survives'
    BY <1>3, <2>1, <2>2 DEF Survives, InFolder
  <2>5. QED
    BY <1>4, <2>2, <2>3, <2>4
<1>12. ASSUME NEW p \in Procs, CopyAndClose(p)
       PROVE  Safe'
  <2>1. /\ ~cut /\ ~overlapped /\ Goto(p, "copy", "rename")
        /\ treeKV' = [treeKV EXCEPT ![p] = LoadSnapshot(DB).data]
        /\ UNCHANGED <<disks, folders, opened, DB, acked>>
    BY <1>12 DEF CopyAndClose
  <2>2. Moved(p, "copy", "rename")
    BY <1>5, <2>1 DEF States, Swapping
  <2>3. /\ dir # 0 /\ opened[DB] = dir /\ DB \notin closed
        /\ acked \subseteq disks[dir].data
    <3>1. ~At({"open"}) /\ ~At({"rename", "open"}) /\ ~At({"open", "fill"})
        BY <2>2
    <3>2. QED
        BY <1>3, <2>1, <3>1 DEF InFolder
  <2>4. acked \subseteq treeKV'[p]
    BY <1>1, <1>2, <2>1, <2>3 DEF TypeOK
  <2>5. InHand' /\ InFolder'
    BY <2>1, <2>2, <2>3, <2>4 DEF InHand, InFolder
  <2>6. Survives'
    BY <1>3, <2>1 DEF Survives
  <2>7. QED
    BY <1>4, <2>2, <2>5, <2>6
<1>13. ASSUME NEW p \in Procs, RenameFolder(p)
       PROVE  Safe'
  <2>1. /\ ~cut /\ ~overlapped /\ Goto(p, "rename", "open")
        /\ UNCHANGED <<disks, handles, locals, acked>>
    BY <1>13 DEF RenameFolder
  <2>2. Moved(p, "rename", "open")
    BY <1>5, <2>1 DEF States, Swapping
  <2>3. dir # 0 /\ acked \subseteq disks[dir].data /\ acked \subseteq treeKV[p]
    <3>1. ~At({"open"}) /\ ~At({"open", "fill"}) /\ pc[p] = "rename"
        BY <2>2
    <3>2. QED
        BY <1>3, <2>1, <3>1 DEF InFolder, InHand
  <2>4. Survives'
    BY <1>13, <2>1, <2>3 DEF RenameFolder, Survives
  <2>5. InHand' /\ InFolder'
    BY <2>1, <2>2, <2>3 DEF InHand, InFolder
  <2>6. QED
    BY <1>4, <2>2, <2>4, <2>5
<1>14. ASSUME NewDiskStore, UNCHANGED <<bak, acked>>, Survives
       PROVE  Survives'
  <2>1. PICK d \in {dir, bak} \ {0} : acked \subseteq disks[d].data
    BY <1>14 DEF Survives
  <2>2. d \in 1..Len(disks)
    BY <1>2
  <2>3. disks'[d] = disks[d] /\ d \in {dir', bak'} \ {0}
    BY <1>1, <1>14, <2>1, <2>2, Opened
  <2>4. QED
    BY <1>14, <2>1, <2>3 DEF Survives
<1>15. ASSUME NEW p \in Procs, OpenStore(p)
       PROVE  Safe'
  <2>1. /\ ~cut /\ ~overlapped /\ Goto(p, "open", "fill") /\ NewDiskStore
        /\ UNCHANGED <<bak, closed, locals, acked>>
    BY <1>15 DEF OpenStore
  <2>2. Moved(p, "open", "fill")
    BY <1>5, <2>1 DEF States, Swapping
  <2>3. /\ dir' # 0 /\ opened'[DB'] = dir' /\ DB' = Len(opened) + 1
    BY <1>1, <2>1, Opened
  <2>4. DB' \notin closed'
    BY <1>2, <2>1, <2>3
  <2>5. InHand' /\ InFolder'
    BY <1>3, <2>1, <2>2, <2>3, <2>4 DEF InHand, InFolder
  <2>6. Survives'
    BY <1>3, <1>14, <2>1
  <2>7. QED
    BY <1>4, <2>2, <2>5, <2>6
<1>16. ASSUME NEW p \in Procs, FillStore(p)
       PROVE  Safe'
  <2>1. /\ ~cut /\ ~overlapped /\ Goto(p, "fill", "done")
        /\ Commit(DB, LoadSnapshot(DB).data \cup treeKV[p])
        /\ UNCHANGED <<folders, handles, locals, acked>>
    BY <1>16 DEF FillStore
  <2>2. Moved(p, "fill", "done")
    BY <1>5, <2>1 DEF States, Swapping
  <2>3. /\ dir # 0 /\ opened[DB] = dir /\ DB \notin closed
        /\ acked \subseteq treeKV[p]
    <3>1. ~At({"open"}) /\ ~At({"rename", "open"}) /\ pc[p] = "fill"
        BY <2>2
    <3>2. QED
        BY <1>3, <2>1, <3>1 DEF InFolder, InHand
  <2>4. LoadSnapshot(DB).data \cup treeKV[p] \in SUBSET Updates
    BY <1>1, <1>2, Loaded DEF Snapshots, TypeOK
  <2>5. disks'[dir].data = LoadSnapshot(DB).data \cup treeKV[p]
    BY <1>1, <1>2, <2>1, <2>3, <2>4, Committed
  <2>6. acked' \subseteq disks'[dir].data
    BY <2>1, <2>3, <2>5
  <2>7. InHand' /\ InFolder'
    BY <2>1, <2>2, <2>3, <2>6 DEF InHand, InFolder
  <2>8. Survives'
    BY <2>1, <2>3, <2>6 DEF Survives
  <2>9. QED
    BY <1>4, <2>2, <2>7, <2>8
<1>17. CASE Restart
  <2>1. /\ ~cut /\ ~overlapped /\ NewDiskStore
        /\ \A p \in Procs : pc[p] \notin Swapping /\ pc'[p] = "idle"
        /\ closed' = 1..Len(opened) /\ UNCHANGED <<bak, acked>>
    BY <1>17 DEF Restart
  <2>2. dir # 0 /\ acked \subseteq disks[dir].data
    BY <1>3, <2>1 DEF InFolder, At, Swapping
  <2>3. /\ dir' = dir /\ opened'[DB'] = dir' /\ DB' = Len(opened) + 1
        /\ disks'[dir] = disks[dir]
    <3>1. dir \in 1..Len(disks)
        BY <1>2, <2>2
    <3>2. /\ \A d \in 1..Len(disks) : disks'[d] = disks[d]
          /\ (dir # 0 => dir' = dir) /\ opened'[DB'] = dir'
          /\ Len(opened') = Len(opened) + 1 /\ DB' = Len(opened')
        BY <1>1, <2>1, Opened
    <3>3. QED
        BY <2>2, <3>1, <3>2
  <2>4. DB' \notin closed'
    BY <1>2, <2>1, <2>3
  <2>5. Alone' /\ InHand' /\ InFolder'
    BY <2>1, <2>2, <2>3, <2>4 DEF Alone, InHand, InFolder, At
  <2>6. Survives'
    BY <1>3, <1>14, <2>1
  <2>7. QED
    BY <1>4, <2>5, <2>6
<1>18. ASSUME RemoveBackup2 \/ UNCHANGED vars
       PROVE  Safe'
  <2>1. /\ ~cut /\ ~overlapped
        /\ UNCHANGED <<disks, dir, bak, handles, pc, locals, acked>>
    BY <1>18 DEF RemoveBackup2, vars
  <2>2. QED
    BY <1>3, <1>4, <2>1
       DEF Alone, InHand, InFolder, Survives, At, LoadSnapshot
<1>19. QED
    BY <1>6, <1>7, <1>8, <1>9, <1>10, <1>11, <1>12, <1>13, <1>15, <1>16, <1>17,
       <1>18 DEF Next, Operation, Swap, Crash, Panic

LEMMA Invariance == Spec => []IInv
<1>1. Init => IInv
    BY InitType, InitSafe DEF IInv
<1>2. IInv /\ [Next]_vars => IInv'
    BY NextType, NextSafe DEF IInv
<1>3. QED
    BY <1>1, <1>2, PTL DEF Spec

(* Whatever has been acknowledged is in the folder a restart opens or in   *)
(* the backup next to it, in the middle of a migration too, as long as no  *)
(* operations overlap and no migration was cut short (storage.go:152-186). *)
THEOREM MigrationIsRecoverable == Spec => []Recoverable
<1>1. IInv => Recoverable
    BY DEF IInv, Safe, Survives, Recoverable
<1>2. QED
    BY Invariance, <1>1, PTL

(* When nothing is under way, the store shows all that was acknowledged,   *)
(* however often it was migrated, as long as operations did not overlap    *)
(* (storage.go:149-212).                                                   *)
THEOREM MigrationLosesNothing == Spec => []NothingLostAlone
<1>1. ASSUME IInv PROVE NothingLostAlone
  <2>1. SUFFICES ASSUME ~overlapped, ~cut, \A p \in Procs : pc[p] = "idle"
                 PROVE  acked \subseteq Current.data
    BY DEF NothingLostAlone, NothingLost
  <2>2. /\ opened[DB] = dir /\ DB \notin closed
        /\ acked \subseteq disks[dir].data
    BY <1>1, <2>1 DEF IInv, Safe, InFolder, At
  <2>3. LoadSnapshot(DB) = disks[dir]
    BY <2>2 DEF LoadSnapshot
  <2>4. QED
    BY <2>2, <2>3 DEF Current
<1>2. QED
    BY Invariance, <1>1, PTL
===============================================================================
