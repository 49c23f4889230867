------------------------------ MODULE SeqFolds ------------------------------
(***************************************************************************)
(* Sequences that loops of the code build element by element, as folds.    *)
(***************************************************************************)
EXTENDS Sequences, SequencesExt

(* The elements of T, in their order: what a loop keeps that tests each.     *)
Kept(seq, T) == FoldLeft(LAMBDA kept, e : IF e \in T THEN Append(kept, e) ELSE kept, <<>>, seq)

(* The parts, one behind the other: what a loop writes that writes each.     *)
Chained(parts) == FoldLeft(LAMBDA all, part : all \o part, <<>>, parts)
=============================================================================
