------------------------------- MODULE MCLength -------------------------------
(* RdbLength on the values at which its codes change. *)
EXTENDS RdbLength

MCWords == {<<0, 0, 0, 0, 0, 0, 0, 0>>,      <<0, 0, 0, 0, 0, 0, 0, 63>>,
            <<0, 0, 0, 0, 0, 0, 0, 64>>,     <<0, 0, 0, 0, 0, 0, 63, 255>>,
            <<0, 0, 0, 0, 0, 0, 64, 0>>,     <<0, 0, 0, 0, 255, 1, 2, 3>>,
            <<0, 0, 0, 1, 0, 0, 0, 0>>,      <<195, 129, 128, 4, 5, 6, 7, 8>>}

MCInts == {0, -1, 127, -128, 128, -129, 32767, -32768, 32768, -32769,
           2147483647, -2147483647 - 1}
===============================================================================
