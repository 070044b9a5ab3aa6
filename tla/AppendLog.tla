------------------------------ MODULE AppendLog ------------------------------
(***************************************************************************)
(* What a Solaris log promises its clients (spec 4.3 and 8): the records   *)
(* the catalog indexes form one sequence in ascending record ID, and an    *)
(* AppendRecords call either adds nothing or adds a non-empty prefix of    *)
(* its batch, at once, after everything already there.  Indexed records    *)
(* are never lost, reordered or changed, and none is skipped: the codec    *)
(* mints a record's ID when it writes it, so with IDs minted as 1, 2, ...  *)
(* the indexed log holds IDs 1..Len(log).                                  *)
(***************************************************************************)
EXTENDS Integers, Sequences, SequencesExt

CONSTANTS
    RecIds,     \* the record IDs that can be minted: 1..n, in mint order
    Sizes,      \* payload sizes a record may have
    MaxBatch    \* most records in one AppendRecordsRequest

VARIABLE log    \* the indexed records of the log, in ID order

Rec == [id : RecIds, size : Sizes]

\* The records of s carry the IDs 1..Len(s): ascending, none skipped.
Gapless(s) == \A i \in 1..Len(s) : s[i].id = i

Init == log = <<>>

\* One AppendRecords becomes visible: the records it wrote, at most one
\* batch of them, are added after the last indexed record, in ID order.
AddRecords ==
    /\ IsStrictPrefix(log, log')
    /\ Len(log') - Len(log) <= MaxBatch
    /\ log' \in Seq(Rec)
    /\ Gapless(log')

Next == AddRecords

Spec == Init /\ [][Next]_log

=============================================================================
