------------------------------ MODULE MCE1Runner ------------------------------
(***************************************************************************)
(* Two lot sizes, two seeds, up to two workers that wrap at the same time, *)
(* and a program that is started twice.                                    *)
(***************************************************************************)
EXTENDS E1Runner

MCWrapLots == 1 .. 2
MCLotSizes == <<8, 16>>
MCCircuits == <<"Wrapper", "C1">>

=============================================================================
