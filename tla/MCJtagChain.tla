---------------------------- MODULE MCJtagChain ----------------------------
(* JtagChain on chains of one to three devices, debug ports of 4 and 8 bits *)
(* first, last and between devices of other lengths.                        *)
EXTENDS JtagChain

SmallChains == {<<4>>, <<4, 1>>, <<9, 8>>, <<5, 4, 8>>}
=============================================================================
