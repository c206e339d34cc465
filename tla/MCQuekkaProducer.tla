-------------------------- MODULE MCQuekkaProducer --------------------------
(***************************************************************************)
(* Strings for the runs of QuekkaProducer.                                 *)
(***************************************************************************)
EXTENDS QuekkaProducer

\* One that fits, and one longer than the field.
LongHosts == {<<1>>, <<2, 2, 2>>}
=============================================================================
