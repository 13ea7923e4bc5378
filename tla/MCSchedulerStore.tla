--------------------------- MODULE MCSchedulerStore ---------------------------
(***************************************************************************)
(* The store on small sets: two task ids, one key, and one process that    *)
(* uses and maintains the store, runs one task, and dies and starts again. *)
(* Two that use it at the same time are checked in MCLanes.                *)
(***************************************************************************)
EXTENDS SchedulerStore

CONSTANT Runs             \* bound: the tasks that are run

\* A task of a user that runs at times, and a test task that is run by hand.
TimedOrTest == {<<TRUE, FALSE>>, <<FALSE, TRUE>>}

VARIABLE orphans          \* tasks whose creator died between their event and the save

StoreInit == Init /\ orphans = {}

StoreNext ==
  /\ Next /\ ran' \subseteq Runs
  /\ orphans' = IF crashes' = crashes THEN orphans
                ELSE orphans \cup ({log[i].id : i \in DOMAIN log} \ DOMAIN snapshot)

StoreSpec == StoreInit /\ [][StoreNext]_<<vars, orphans>>

-------------------------------------------------------------------------------
\* Two tasks of the snapshot have one idempotency key only if the creator of one of them
\* died before it saved what it had logged: create() finds no such task in its copy, and
\* the next recovery restores it (lib/scheduler/store.py create, recovery.py recover).
KeysIdentify ==
  \A i, j \in DOMAIN snapshot \ orphans :
    snapshot[i].key # NoKey /\ snapshot[i].key = snapshot[j].key => i = j

\* Log, snapshot and keys have their types and tell of the same tasks.
SnapshotIsExplained == TypeOK /\ SnapshotIsLog /\ KeysIdentify
===============================================================================
