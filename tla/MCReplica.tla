----------------------------- MODULE MCReplica ------------------------------
(***************************************************************************)
(* The replica of one browser in several slices, one to a behaviour.  A    *)
(* slice bounds the local edits and the faults, names the ways an edit may *)
(* take besides the immediate ones, and leaves out the records that it     *)
(* does not need: they stay as they are.                                   *)
(***************************************************************************)
EXTENDS Sync

VARIABLE active

\* Two light records, 1 and 2, and a heavy one, 3.  `both` bounds the edits and
\* the faults of a behaviour together.
Slice == [
  pages     |-> [idle |-> {2},    edits |-> 2, both |-> 2, ways |-> {}],
  retries   |-> [idle |-> {2, 3}, edits |-> 2, both |-> 3, ways |-> {}],
  batches   |-> [idle |-> {3},    edits |-> 2, both |-> 2, ways |-> {"batch"}],
  imports   |-> [idle |-> {3},    edits |-> 2, both |-> 3, ways |-> {"import", "alone"}],
  mutations |-> [idle |-> {2, 3}, edits |-> 2, both |-> 2, ways |-> {"import", "record", "batch"}],
  opened    |-> [idle |-> {2},    edits |-> 1, both |-> 1, ways |-> {"lookup"}],
  refreshed |-> [idle |-> {2, 3}, edits |-> 1, both |-> 2, ways |-> {"lookup", "record"}]]

Within(slice) ==
  /\ \/ BrowserStep \/ ServerStep \/ FaultStep \/ StartPull \/ ManualRetry
     \/ \E r \in Records \ slice.idle :
          \/ RecordStep(r)
          \/ "alone" \notin slice.ways /\ RemoteBegin(r)
          \/ "lookup" \in slice.ways /\ AskRecord(r)
          \/ "import" \in slice.ways /\ BeginImport(r)
          \/ "record" \in slice.ways /\ BeginRecord(r)
          \/ "batch" \in slice.ways /\ BeginBatch(r)
  /\ edits' <= slice.edits /\ edits' + faults' <= slice.both

ReplicaInit == /\ active \in DOMAIN Slice
               /\ Init /\ \A r \in Slice[active].idle : row[r].st = "live"
ReplicaNext == Within(Slice[active]) /\ UNCHANGED active
ReplicaSpec == ReplicaInit /\ [][ReplicaNext]_<<vars, active>>
=============================================================================
