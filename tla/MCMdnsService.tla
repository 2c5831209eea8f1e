---------------------------- MODULE MCMdnsService ----------------------------
(* Three service instances, two of one type and one of another: the       *)
(* smallest instance in which a ServiceType is shared, counted to two and  *)
(* kept while one of its services leaves, next to a type of its own.  The *)
(* first service may list two sub-types, so that a re-register can drop   *)
(* one, add the other, or swap them.                                      *)
EXTENDS MdnsService

MCTypeOf == [s \in Services |-> IF s = "s3" THEN "t2" ELSE "t1"]
MCSubTypesOf == [s \in Services |-> IF s = "s1" THEN SubLabels ELSE {}]
==============================================================================
