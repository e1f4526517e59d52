------------------------------- MODULE Analysis -------------------------------
(***************************************************************************)
(* How the experiments' analysis finds what the page has missed            *)
(* (analyze_rate_sweep_with_baseline.py): from the sequence numbers of the *)
(* live rows of a log it infers the usual step, takes larger steps for     *)
(* gaps, fills them with the numbers it expects there, and looks those up  *)
(* among the replayed rows.                                                *)
(***************************************************************************)
EXTENDS Integers, Sequences, FiniteSets

Diffs(seqs) == [i \in 1..(Len(seqs) - 1) |-> seqs[i + 1] - seqs[i]]

(* mutant: repeated samples are counted as steps *)
AdvancesMut(seqs) == DOMAIN Diffs(seqs)
(* the rows after which the number advances *)
Advances(seqs) == {i \in DOMAIN Diffs(seqs) : Diffs(seqs)[i] > 0}

(* Counter.most_common(1): the first seen of the steps taken most often *)
TimesTaken(seqs, i) == Cardinality({j \in Advances(seqs) : Diffs(seqs)[j] = Diffs(seqs)[i]})
IsCommonest(seqs, i) == \A j \in Advances(seqs) :
    \/ TimesTaken(seqs, j) < TimesTaken(seqs, i)
    \/ TimesTaken(seqs, j) = TimesTaken(seqs, i) /\ i <= j
MostCommon(seqs) == Diffs(seqs)[CHOOSE i \in Advances(seqs) : IsCommonest(seqs, i)]

(* infer_nominal_seq_step *)
NominalStep(seqs) ==
    IF Advances(seqs) # {} /\ MostCommon(seqs) > 0 THEN MostCommon(seqs) ELSE 1

(* round(a / b) of Python: a half goes to the even neighbour *)
Round(a, b) ==
    LET q == a \div b
        down == 2 * (a % b) < b \/ (2 * (a % b) = b /\ q % 2 = 0)
    IN IF down THEN q ELSE q + 1

(* compute_missing_ranges_with_step: how many are missing after row i *)
MissingAfter(seqs, step, i) ==
    LET d == Diffs(seqs)[i]
    IN IF d > step THEN Round(d, step) - 1 ELSE 0

(* expand_missing_expected_values *)
MissingExpected(seqs) ==
    LET step == NominalStep(seqs)
    IN UNION {{seqs[i] + step * k : k \in 1..MissingAfter(seqs, step, i)}
                 : i \in 1..(Len(seqs) - 1)}

(* analyze_one_file: len(missing_expected) - recovered_by_replay *)
UnrecoveredContext(seqs, replay, reconnectOnly) ==
    LET recovered == IF reconnectOnly THEN {} ELSE MissingExpected(seqs) \cap replay
    IN Cardinality(MissingExpected(seqs)) - Cardinality(recovered)

=============================================================================
