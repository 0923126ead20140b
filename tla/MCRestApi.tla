------------------------------ MODULE MCRestApi ------------------------------
(* Instances of RestApi for TLC. *)
EXTENDS RestApi, TLC

(* Requests are alike until they are called. *)
RequestSymmetry == Permutations(Requests)

(* The id of an instance, none, the same with a path after it whose slash  *)
(* is escaped, and another spelling of it with a fragment.                 *)
MCIdArgs ==
  {[segs |-> <<1>>, seps |-> <<>>],
   [segs |-> <<Blank>>, seps |-> <<>>],
   [segs |-> <<1, Logs>>, seps |-> <<"%2F">>],
   [segs |-> <<Escaped(1), Logs>>, seps |-> <<"#">>]}

=============================================================================
