---------------------------- MODULE SessionStore ----------------------------
(***************************************************************************)
(* What the session journal promises, with no lock, no temporary file, no  *)
(* crash and no process: a directory that only ever changes by one record  *)
(* being committed whole or by one record that is not the newest being     *)
(* evicted, and that never changes while a file in it is damaged.          *)
(***************************************************************************)
EXTENDS SessionRecords

VARIABLE store

Init == store \in InitialDirectories

Commit(r) ==
    /\ MayCommit(store, r)
    /\ store' = [store EXCEPT ![r.id] = r]

Evict(s) ==
    /\ MayEvict(store, s)
    /\ store' = [store EXCEPT ![s] = NoFile]

Next ==
    \/ \E r \in Requests, n \in 1..MaxOrder :
           Commit([FromPublic(r) EXCEPT !.order = n])
    \/ \E s \in Sessions : Evict(s)

Spec == Init /\ [][Next]_store
=============================================================================
