------------------------ MODULE MCCandidatePromotion ------------------------
EXTENDS CandidatePromotion

\* A new directory with a new file in it, a directory that becomes a file, and
\* a file that goes away.
MCEntries == <<"d", "d/f", "k", "r">>
MCDepth == [p \in {"d", "d/f", "k", "r"} |-> IF p = "d/f" THEN 2 ELSE 1]
MCParent == [p \in {"d", "d/f", "k", "r"} |-> IF p = "d/f" THEN "d" ELSE "."]
Dir(tag) == [kind |-> "directory", tag |-> tag]
File(tag) == [kind |-> "file", tag |-> tag]
MCBefore == "d" :> Missing @@ "d/f" :> Missing @@ "k" :> Dir("k0") @@ "r" :> File("r0")
MCAfter == "d" :> Dir("d1") @@ "d/f" :> File("f1") @@ "k" :> File("k1") @@ "r" :> Missing
=============================================================================
