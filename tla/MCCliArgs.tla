------------------------------ MODULE MCCliArgs ------------------------------
(* The whole registry, and every class of up to three fields with positions *)
(* from -3 to 3, duplicate and impossible ones included.                    *)
EXTENDS CliArgs

Registry == INSTANCE Registry

MCPlaces == {{}} \union {{p} : p \in -3..3}
MCFieldNames == <<"a", "b", "c">>
MCSmall ==
  UNION {{Registry!Class([i \in 1..n |-> Registry!Field(MCFieldNames[i], at[i], "maybe")], {}, {}, {}) :
            at \in [1..n -> MCPlaces]} : n \in 0..3}
MCRegistered == Range(Registry!Registered)
MCClasses == MCRegistered \union MCSmall
==============================================================================
