---------------------------- MODULE MCSigarCalls ----------------------------
(***************************************************************************)
(* Any sequence of calls, as long as the handle keeps at most MaxKept      *)
(* fields beside those that stay set while it is open.                     *)
(***************************************************************************)
EXTENDS SigarCalls

MaxKept == 2
AlwaysKept == {"jsigar", "handle", "kc", "ks_cpu", "advapi"}
FewKept == Busy \/ Cardinality({f \in DOMAIN fields \ AlwaysKept : fields[f] # "null"}) <= MaxKept
=============================================================================
