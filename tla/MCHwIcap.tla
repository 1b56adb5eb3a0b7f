------------------------------ MODULE MCHwIcap ------------------------------
(* HwIcap with users who download at the same time.                        *)
EXTENDS HwIcap

\* A bit file of ten words, five of them header.
BitFile ==
    [magic |-> TRUE, start |-> 1, body |-> 5, len |-> 10, mapped |-> 15,
     fields |-> [i \in 1..4 |-> [tag |-> <<"a", "b", "c", "d">>[i], len |-> 1,
                                 null |-> TRUE]]]

MCImages == {BitFile}
=============================================================================
