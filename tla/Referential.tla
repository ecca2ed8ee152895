----------------------------- MODULE Referential -----------------------------
(* The commune referential as every reader sees it: a code whose commune   *)
(* was merged carries a successor, and only a code in force answers for    *)
(* itself.  succ is Commune.successorCodeInsee restricted to the rows that *)
(* have one, as loadSuccessorMap returns it.                               *)
EXTENDS Naturals, FiniteSets

CONSTANTS MaxHops,  \* MAX_SUCCESSOR_HOPS
          Unresolved

ASSUME HopAssumption == MaxHops \in Nat \ {0}

(* The code reached after n hops, staying where no successor leads on.     *)
Walk(code, succ) ==
  LET at[n \in Nat] ==
        IF n = 0 THEN code
        ELSE LET here == at[n - 1]
             IN IF here \in DOMAIN succ THEN succ[here] ELSE here
  IN at

(* A cycle or a chain of MaxHops hops or more is unresolved.               *)
ResolveCurrentCode(code, succ) ==
  LET at   == Walk(code, succ)
      ends == {n \in 0 .. MaxHops - 1 : at[n] \notin DOMAIN succ}
  IN IF ends = {} THEN Unresolved ELSE at[CHOOSE n \in ends : TRUE]

(* The predecessors found going back from code, one query per hop.         *)
Backward(code, succ) ==
  LET found[n \in Nat] ==
        IF n = 0 THEN {c \in DOMAIN succ : succ[c] = code}
        ELSE found[n - 1] \cup {c \in DOMAIN succ : succ[c] \in found[n - 1]}
  IN found[Cardinality(DOMAIN succ)]

CodesMergedInto(code, succ) ==
  {code} \cup {c \in Backward(code, succ) : ResolveCurrentCode(c, succ) = code}
=============================================================================
